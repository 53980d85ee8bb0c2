----------------------------- MODULE RingBuffer -----------------------------
(***************************************************************************)
(* The single-producer single-consumer ring under every shared-memory      *)
(* channel (network/src/ringbufferchannel).  head, tail and the data area  *)
(* are the shared memory; each action is one access to it, so the other    *)
(* end may run between any two reads and writes of a put_bytes or          *)
(* get_bytes.  A byte is represented by its position in the stream, 0 is a *)
(* byte that was never written.                                            *)
(*                                                                         *)
(* The flag word of the ring stays IDLE here; what get_bytes does with it  *)
(* is modelled by CheckpointGate.                                          *)
(***************************************************************************)
EXTENDS RingIndex, Sequences

CONSTANTS MaxLen,     \* bound: longest src / dst of one call
          MaxBytes    \* bound: bytes sent in a whole behaviour

ASSUME BoundsAssumption == MaxLen \in Nat /\ MaxBytes \in Nat

VARIABLES head, tail, buf,                            \* the shared memory
          putPc, putLen, readTail, writeLen, next,    \* put_bytes
          getPc, getLen, readHead, readLen, recv, got \* get_bytes

shared == <<head, tail, buf>>
putVars == <<putPc, putLen, readTail, writeLen, next>>
getVars == <<getPc, getLen, readHead, readLen, recv, got>>
vars == <<head, tail, buf, putPc, putLen, readTail, writeLen, next,
          getPc, getLen, readHead, readLen, recv, got>>

-----------------------------------------------------------------------------
Init ==
  /\ head = 0 /\ tail = 0 /\ buf = [i \in Index |-> 0]
  /\ putPc = "idle" /\ putLen = 0 /\ readTail = 0 /\ writeLen = 0 /\ next = 1
  /\ getPc = "idle" /\ getLen = 0 /\ readHead = 0 /\ readLen = 0 /\ recv = 0
  /\ got = <<>>

(* The producing end: put_bytes(src) with n bytes remaining in src.        *)
PutBytes(n) ==
  /\ putPc = "idle"
  /\ next - 1 + n <= MaxBytes
  /\ putPc' = "full" /\ putLen' = n
  /\ UNCHANGED <<readTail, writeLen, next, shared, getVars>>

(* The top of put_bytes' loop: read the tail, and busy-wait in flush_out   *)
(* for as long as the ring is full.                                        *)
PutWaitNotFull ==
  /\ putPc = "full"
  /\ ~IsFull(head, tail)
  /\ putPc' = "slice" /\ readTail' = tail
  /\ UNCHANGED <<putLen, writeLen, next, shared, getVars>>

(* contiguous_write_slice_from, which reads head again.                    *)
PutSlice ==
  /\ putPc = "slice"
  /\ writeLen' = Min2(ContiguousWriteLen(head, readTail), putLen)
  /\ putPc' = "copy"
  /\ UNCHANGED <<putLen, readTail, next, shared, getVars>>

WriteRegion == readTail..(readTail + writeLen - 1)

(* src.read(write_slice)                                                   *)
PutCopy ==
  /\ putPc = "copy"
  /\ buf' = [i \in Index |->
               IF i \in WriteRegion THEN next + (i - readTail) ELSE buf[i]]
  /\ next' = next + writeLen
  /\ putPc' = "advance"
  /\ UNCHANGED <<putLen, readTail, writeLen, head, tail, getVars>>

(* Mutant: the loop runs while len >= 0.                                   *)
PutAdvance_LoopsAtZero ==
  /\ putPc = "advance"
  /\ tail' = Advance(readTail, writeLen)
  /\ putLen' = putLen - writeLen
  /\ putPc' = "full"
  /\ UNCHANGED <<readTail, writeLen, next, head, buf, getVars>>

PutAdvance ==
  /\ putPc = "advance"
  /\ tail' = Advance(readTail, writeLen)
  /\ putLen' = putLen - writeLen
  /\ putPc' = IF putLen' = 0 THEN "idle" ELSE "full"
  /\ UNCHANGED <<readTail, writeLen, next, head, buf, getVars>>

(* SendChannel::flush at the end of a send session.                        *)
Flush ==
  /\ putPc = "idle" /\ putPc' = "flush"
  /\ UNCHANGED <<putLen, readTail, writeLen, next, shared, getVars>>

FlushOut ==
  /\ putPc = "flush"
  /\ ~IsFull(head, tail)
  /\ putPc' = "idle"
  /\ UNCHANGED <<putLen, readTail, writeLen, next, shared, getVars>>

(* The consuming end: get_bytes(dst) with room for n bytes in dst.         *)
GetBytes(n) ==
  /\ getPc = "idle"
  /\ getPc' = "try" /\ getLen' = n /\ recv' = 0
  /\ UNCHANGED <<readHead, readLen, got, shared, putVars>>

(* try_get_bytes finds the ring empty: it returns the count it has, and    *)
(* get_bytes looks at the flag before it tries again if that count is 0.   *)
GetEmpty ==
  /\ getPc = "try"
  /\ IsEmpty(head, tail)
  /\ getPc' = IF recv = 0 THEN "flag" ELSE "try"
  /\ recv' = 0
  /\ UNCHANGED <<getLen, readHead, readLen, got, shared, putVars>>

GetFlagIdle ==
  /\ getPc = "flag"
  /\ getPc' = "try"
  /\ UNCHANGED <<getLen, readHead, readLen, recv, got, shared, putVars>>

GetNonEmpty ==
  /\ getPc = "try"
  /\ ~IsEmpty(head, tail)
  /\ getPc' = "slice" /\ readHead' = head
  /\ UNCHANGED <<getLen, readLen, recv, got, shared, putVars>>

(* contiguous_read_slice_from, which reads tail again.                     *)
GetSlice ==
  /\ getPc = "slice"
  /\ readLen' = Min2(ContiguousReadLen(tail, readHead), getLen)
  /\ getPc' = "copy"
  /\ UNCHANGED <<getLen, readHead, recv, got, shared, putVars>>

ReadRegion == readHead..(readHead + readLen - 1)

(* dst.write(read_slice)                                                   *)
GetCopy ==
  /\ getPc = "copy"
  /\ got' = got \o [i \in 1..readLen |-> buf[readHead + i - 1]]
  /\ getPc' = "advance"
  /\ UNCHANGED <<getLen, readHead, readLen, recv, shared, putVars>>

GetAdvance ==
  /\ getPc = "advance"
  /\ head' = Advance(readHead, readLen)
  /\ recv' = recv + readLen
  /\ getLen' = getLen - readLen
  /\ getPc' = IF getLen' = 0 THEN "idle" ELSE "try"
  /\ UNCHANGED <<readHead, readLen, got, tail, buf, putVars>>

PutStep == PutWaitNotFull \/ PutSlice \/ PutCopy \/ PutAdvance \/ FlushOut

GetStep ==
  \/ GetEmpty \/ GetFlagIdle \/ GetNonEmpty \/ GetSlice \/ GetCopy \/ GetAdvance
  \/ \E n \in 1..MaxLen : GetBytes(n)

Next ==
  \/ \E n \in 1..MaxLen : PutBytes(n)
  \/ Flush
  \/ PutStep
  \/ GetStep

Spec == Init /\ [][Next]_vars

(* A thread inside put_bytes or flush keeps running, and so does the       *)
(* receiving loop, which asks for the next bytes as soon as it has some.   *)
FairSpec == Spec /\ WF_vars(PutStep) /\ WF_vars(GetStep)

-----------------------------------------------------------------------------
(* Properties                                                              *)

(* Every index stays inside the data area and every local variable has its *)
(* type: put_bytes' and try_get_bytes' assertions read_tail < capacity,    *)
(* read_head < capacity and read_head + current <= capacity never fail.    *)
TypeOK ==
  /\ head \in Index /\ tail \in Index /\ buf \in [Index -> Nat]
  /\ putPc \in {"idle", "full", "slice", "copy", "advance", "flush"}
  /\ putLen \in Nat /\ readTail \in Index /\ writeLen \in Nat
  /\ next \in Nat \ {0}
  /\ getPc \in {"idle", "try", "flag", "slice", "copy", "advance"}
  /\ getLen \in Nat /\ readHead \in Index /\ readLen \in Nat /\ recv \in Nat
  /\ got \in Seq(Nat)
  /\ putPc \in {"copy", "advance"} => readTail + writeLen <= Capacity
  /\ getPc \in {"copy", "advance"} => readHead + readLen <= Capacity

(* Bytes come out of get_bytes once each, in the order put_bytes took      *)
(* them, whatever the interleaving of the two ends and wherever the ring   *)
(* wraps.                                                                  *)
InOrderDelivery == \A i \in 1..Len(got) : got[i] = i

(* put_bytes never copies into a slot that a concurrent get_bytes is       *)
(* copying out of: the slices the two ends hold are disjoint.              *)
NoDataRace ==
  putPc = "copy" /\ getPc = "copy" => WriteRegion \cap ReadRegion = {}

(* Neither loop turns without moving a byte: the slice put_bytes takes     *)
(* after its wait for room, and the one try_get_bytes takes after its      *)
(* emptiness check, have at least one byte although head and tail are read *)
(* again in between.                                                       *)
SlicesNonEmpty ==
  /\ putPc \in {"copy", "advance"} => writeLen >= 1
  /\ getPc \in {"copy", "advance"} => readLen >= 1

(* Every byte put_bytes has copied is eventually delivered.                *)
AllDelivered == \A k \in 1..MaxBytes : next > k ~> Len(got) >= k

(* put_bytes and flush return: the busy wait for room always ends.         *)
PutReturns == putPc # "idle" ~> putPc = "idle"

(* Bytes published: those copied, without the ones whose tail update is    *)
(* still to come.                                                          *)
Published == next - 1 - (IF putPc = "advance" THEN writeLen ELSE 0)

(* Bytes taken out whose head update is still to come.                     *)
Unreleased == IF getPc = "advance" THEN readLen ELSE 0

(* The ring is a bounded, in-order channel of Capacity - 1 bytes.          *)
Channel == INSTANCE ByteChannel WITH sent <- Published
RefinesByteChannel == Channel!ChanSpec

(* The inductive strengthening of the safety properties: how the cursors,  *)
(* the stream and the contents of the ring hang together at every step.    *)
Wrap(i) == IF i >= Capacity THEN i - Capacity ELSE i

StreamInv == Published = Len(got) - Unreleased + NumBytesStored(head, tail)

ContentInv ==
  \A o \in 0..(NumBytesStored(head, tail) - 1) :
    buf[Wrap(head + o)] = Len(got) - Unreleased + o + 1

PutInv ==
  /\ putPc # "idle" /\ putPc # "flush" => putLen >= 1
  /\ putPc \in {"slice", "copy", "advance"} =>
       readTail = tail /\ NumBytesStored(head, tail) <= Capacity - 2
  /\ putPc \in {"copy", "advance"} =>
       /\ writeLen \in 1..putLen
       /\ readTail + writeLen <= Capacity
       /\ NumBytesStored(head, tail) + writeLen <= Capacity - 1
  /\ putPc = "advance" =>
       \A o \in 0..(writeLen - 1) : buf[readTail + o] = Published + o + 1

GetInv ==
  /\ getPc # "idle" => getLen >= 1
  /\ getPc \in {"slice", "copy", "advance"} =>
       readHead = head /\ NumBytesStored(head, tail) >= 1
  /\ getPc \in {"copy", "advance"} =>
       /\ readLen \in 1..getLen
       /\ readHead + readLen <= Capacity
       /\ readLen <= NumBytesStored(head, tail)

RingInv ==
  /\ TypeOK
  /\ StreamInv
  /\ ContentInv
  /\ PutInv
  /\ GetInv
  /\ InOrderDelivery
=============================================================================

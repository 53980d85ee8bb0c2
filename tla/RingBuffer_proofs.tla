------------------------- MODULE RingBuffer_proofs -------------------------
(***************************************************************************)
(* The safety of the ring for every capacity: the invariant RingInv is     *)
(* inductive, and type correctness, in-order delivery, freedom from data   *)
(* races, progress of the slices and the refinement of ByteChannel follow. *)
(***************************************************************************)
EXTENDS RingBuffer, TLAPS

-----------------------------------------------------------------------------
(* Lemmas about the index arithmetic of the ring                           *)

(* The (i + n) % capacity of put_bytes and try_get_bytes wraps at most     *)
(* once, because a slice never crosses the end of the data area.           *)
LEMMA AdvanceWraps ==
  ASSUME NEW i \in Index, NEW n \in Nat, i + n <= Capacity
  PROVE  /\ Advance(i, n) = Wrap(i + n)
         /\ Advance(i, n) \in Index
<1>1. CASE i + n = Capacity
  BY <1>1, CapacityAssumption DEF Advance, Wrap, Index
<1>2. CASE i + n < Capacity
  BY <1>2, CapacityAssumption DEF Advance, Wrap, Index
<1>3. QED
  BY <1>1, <1>2, CapacityAssumption DEF Index

(* The length of a slice: positive and within both of its bounds.          *)
LEMMA MinRange ==
  ASSUME NEW a \in Nat, NEW b \in Nat, a >= 1, b >= 1
  PROVE  Min2(a, b) \in 1..b /\ Min2(a, b) <= a
BY DEF Min2

(* num_bytes_stored is never negative and never the whole capacity.        *)
LEMMA StoredRange ==
  ASSUME NEW h \in Index, NEW t \in Index
  PROVE  NumBytesStored(h, t) \in 0..(Capacity - 1)
BY CapacityAssumption DEF Index, NumBytesStored

(* Moving the tail over n free bytes adds n to what is stored.             *)
LEMMA StoredAfterPut ==
  ASSUME NEW h \in Index, NEW t \in Index, NEW n \in Nat,
         t + n <= Capacity, NumBytesStored(h, t) + n <= Capacity - 1
  PROVE  NumBytesStored(h, Advance(t, n)) = NumBytesStored(h, t) + n
<1>1. Advance(t, n) = Wrap(t + n)
  BY AdvanceWraps
<1>2. QED
  BY <1>1, CapacityAssumption DEF Index, NumBytesStored, Wrap

(* Moving the head over n stored bytes takes n from what is stored.        *)
LEMMA StoredAfterGet ==
  ASSUME NEW h \in Index, NEW t \in Index, NEW n \in Nat,
         h + n <= Capacity, n <= NumBytesStored(h, t)
  PROVE  NumBytesStored(Advance(h, n), t) = NumBytesStored(h, t) - n
<1>1. Advance(h, n) = Wrap(h + n)
  BY AdvanceWraps
<1>2. QED
  BY <1>1, CapacityAssumption DEF Index, NumBytesStored, Wrap

(* contiguous_write_slice_from after the wait for room: at least one byte, *)
(* inside the data area, and one slot stays free.                          *)
LEMMA WriteSliceFits ==
  ASSUME NEW h \in Index, NEW t \in Index,
         NumBytesStored(h, t) <= Capacity - 2
  PROVE  /\ ContiguousWriteLen(h, t) \in Nat
         /\ ContiguousWriteLen(h, t) >= 1
         /\ t + ContiguousWriteLen(h, t) <= Capacity
         /\ NumBytesStored(h, t) + ContiguousWriteLen(h, t) <= Capacity - 1
BY CapacityAssumption DEF Index, NumBytesStored, ContiguousWriteLen

(* contiguous_read_slice_from after the emptiness check: at least one      *)
(* byte, inside the data area, and no more than is stored.                 *)
LEMMA ReadSliceFits ==
  ASSUME NEW h \in Index, NEW t \in Index, NumBytesStored(h, t) >= 1
  PROVE  /\ ContiguousReadLen(t, h) \in Nat
         /\ ContiguousReadLen(t, h) >= 1
         /\ h + ContiguousReadLen(t, h) <= Capacity
         /\ ContiguousReadLen(t, h) <= NumBytesStored(h, t)
BY CapacityAssumption DEF Index, NumBytesStored, ContiguousReadLen

(* A slot with a stored byte is not in the slice put_bytes may write.      *)
LEMMA StoredSlotNotWritten ==
  ASSUME NEW h \in Index, NEW t \in Index, NEW n \in Nat,
         t + n <= Capacity, NumBytesStored(h, t) + n <= Capacity - 1,
         NEW o \in 0..(NumBytesStored(h, t) - 1)
  PROVE  /\ Wrap(h + o) \in Index
         /\ Wrap(h + o) \notin t..(t + n - 1)
BY CapacityAssumption, StoredRange DEF Index, NumBytesStored, Wrap

(* The bytes behind the stored ones are those of the slice just written.   *)
LEMMA NewSlot ==
  ASSUME NEW h \in Index, NEW t \in Index, NEW n \in Nat,
         t + n <= Capacity, NumBytesStored(h, t) + n <= Capacity - 1,
         NEW o \in NumBytesStored(h, t)..(NumBytesStored(h, t) + n - 1)
  PROVE  Wrap(h + o) = t + (o - NumBytesStored(h, t))
BY CapacityAssumption, StoredRange DEF Index, NumBytesStored, Wrap

(* Counting from the moved head is counting from the old one, n further.   *)
LEMMA ShiftedSlot ==
  ASSUME NEW h \in Index, NEW t \in Index, NEW n \in Nat,
         h + n <= Capacity, n <= NumBytesStored(h, t),
         NEW o \in 0..(NumBytesStored(h, t) - n - 1)
  PROVE  Wrap(Advance(h, n) + o) = Wrap(h + (o + n))
<1>1. Advance(h, n) = Wrap(h + n)
  BY AdvanceWraps
<1>2. QED
  BY <1>1, CapacityAssumption DEF Index, NumBytesStored, Wrap

-----------------------------------------------------------------------------
(* RingInv is inductive: one lemma for each end of the ring                *)

(* A freshly created channel satisfies the invariant.                      *)
LEMMA InitRingInv == Init => RingInv
BY CapacityAssumption
   DEF Init, RingInv, TypeOK, StreamInv, ContentInv, PutInv, GetInv,
       InOrderDelivery, Published, Unreleased, NumBytesStored, Index

(* Every step of put_bytes and flush preserves the invariant.              *)
LEMMA PutPreserves ==
  ASSUME RingInv,
         \/ \E n \in 1..MaxLen : PutBytes(n)
         \/ Flush
         \/ PutStep
  PROVE  RingInv'
<1> USE DEF RingInv, getVars, shared
<1>0. NumBytesStored(head, tail) \in 0..(Capacity - 1)
  BY StoredRange DEF TypeOK
<1>1. ASSUME NEW n \in 1..MaxLen, PutBytes(n)
      PROVE  RingInv'
  BY <1>1, BoundsAssumption, CapacityAssumption
     DEF PutBytes, TypeOK, StreamInv, ContentInv, PutInv, GetInv,
         InOrderDelivery, Published, Unreleased
<1>2. CASE Flush
  BY <1>2, CapacityAssumption
     DEF Flush, TypeOK, StreamInv, ContentInv, PutInv, GetInv,
         InOrderDelivery, Published, Unreleased
<1>3. CASE PutWaitNotFull
  BY <1>3, <1>0, CapacityAssumption
     DEF PutWaitNotFull, IsFull, TypeOK, StreamInv, ContentInv, PutInv, GetInv,
         InOrderDelivery, Published, Unreleased
<1>4. CASE PutSlice
  <2>1. /\ readTail = tail
        /\ ContiguousWriteLen(head, tail) \in Nat
        /\ ContiguousWriteLen(head, tail) >= 1
        /\ tail + ContiguousWriteLen(head, tail) <= Capacity
        /\ NumBytesStored(head, tail) + ContiguousWriteLen(head, tail)
             <= Capacity - 1
    BY <1>4, WriteSliceFits DEF PutSlice, PutInv, TypeOK
  <2>2. /\ writeLen' \in 1..putLen
        /\ readTail + writeLen' <= Capacity
        /\ NumBytesStored(head, tail) + writeLen' <= Capacity - 1
    <3>1. /\ putLen \in Nat /\ putLen >= 1 /\ tail \in Int
          /\ writeLen' = Min2(ContiguousWriteLen(head, tail), putLen)
      BY <1>4, <2>1 DEF PutSlice, PutInv, TypeOK, Index
    <3>2. writeLen' \in 1..putLen /\ writeLen' <= ContiguousWriteLen(head, tail)
      BY <2>1, <3>1, MinRange
    <3>3. QED
      BY <1>0, <2>1, <3>1, <3>2, CapacityAssumption
  <2>3. TypeOK'
    BY <1>4, <2>2 DEF PutSlice, TypeOK
  <2>4. StreamInv' /\ ContentInv' /\ GetInv' /\ InOrderDelivery'
    BY <1>4 DEF PutSlice, StreamInv, ContentInv, GetInv, InOrderDelivery,
                Published, Unreleased
  <2>5. PutInv'
    BY <1>4, <2>2 DEF PutSlice, PutInv
  <2>6. QED
    BY <2>3, <2>4, <2>5
<1>5. CASE PutCopy
  <2>1. /\ readTail = tail /\ writeLen \in 1..putLen
        /\ tail + writeLen <= Capacity
        /\ NumBytesStored(head, tail) + writeLen <= Capacity - 1
    BY <1>5 DEF PutCopy, PutInv
  <2>2. TypeOK'
    BY <1>5, <2>1, CapacityAssumption DEF PutCopy, TypeOK, Index, WriteRegion
  <2>3. StreamInv' /\ Published' = Published
    BY <1>5, <2>1 DEF PutCopy, TypeOK, StreamInv, Published, Unreleased
  <2>4. ContentInv'
    <3> SUFFICES ASSUME NEW o \in 0..(NumBytesStored(head, tail) - 1)
                 PROVE  buf'[Wrap(head + o)] = buf[Wrap(head + o)]
      BY <1>5 DEF PutCopy, ContentInv, Unreleased
    <3>1. Wrap(head + o) \in Index /\ Wrap(head + o) \notin WriteRegion
      BY <2>1, StoredSlotNotWritten DEF TypeOK, WriteRegion
    <3>2. QED
      BY <1>5, <3>1 DEF PutCopy
  <2>5. PutInv'
    <3>1. \A o \in 0..(writeLen - 1) : buf'[readTail + o] = Published + o + 1
      BY <1>5, <2>1, CapacityAssumption
         DEF PutCopy, TypeOK, Index, WriteRegion, Published
    <3>2. QED
      BY <1>5, <2>1, <2>3, <3>1 DEF PutCopy, PutInv
  <2>6. GetInv' /\ InOrderDelivery'
    BY <1>5 DEF PutCopy, GetInv, InOrderDelivery
  <2>7. QED
    BY <2>2, <2>3, <2>4, <2>5, <2>6
<1>6. CASE PutAdvance
  <2>1. /\ readTail = tail /\ writeLen \in 1..putLen
        /\ tail + writeLen <= Capacity
        /\ NumBytesStored(head, tail) + writeLen <= Capacity - 1
        /\ \A o \in 0..(writeLen - 1) : buf[tail + o] = Published + o + 1
    BY <1>6 DEF PutAdvance, PutInv
  <2>2. /\ tail' \in Index
        /\ NumBytesStored(head', tail') = NumBytesStored(head, tail) + writeLen
    BY <1>6, <2>1, AdvanceWraps, StoredAfterPut DEF PutAdvance, TypeOK
  <2>3. TypeOK'
    BY <1>6, <2>1, <2>2 DEF PutAdvance, TypeOK
  <2>4. StreamInv'
    <3>1. Published' = Published + writeLen
      BY <1>6, <2>1 DEF PutAdvance, TypeOK, Published
    <3>2. Len(got)' = Len(got) /\ Unreleased' = Unreleased
      BY <1>6 DEF PutAdvance, Unreleased
    <3>3. Len(got) \in Int /\ Unreleased \in Int /\ writeLen \in Int
      BY DEF TypeOK, Unreleased
    <3>4. QED
      BY <1>0, <2>2, <3>1, <3>2, <3>3 DEF StreamInv
  <2>5. ContentInv'
    <3>1. ASSUME NEW o \in 0..(NumBytesStored(head, tail) + writeLen - 1)
          PROVE  buf[Wrap(head + o)] = Len(got) - Unreleased + o + 1
      <4>1. CASE o \in 0..(NumBytesStored(head, tail) - 1)
        BY <4>1 DEF ContentInv
      <4>2. CASE o \in NumBytesStored(head, tail)..
                         (NumBytesStored(head, tail) + writeLen - 1)
        <5>1. Wrap(head + o) = tail + (o - NumBytesStored(head, tail))
          BY <2>1, <4>2, NewSlot DEF TypeOK
        <5>2. o - NumBytesStored(head, tail) \in 0..(writeLen - 1)
          BY <1>0, <2>1, <4>2 DEF TypeOK
        <5>3. buf[Wrap(head + o)] =
                Published + (o - NumBytesStored(head, tail)) + 1
          BY <2>1, <5>1, <5>2
        <5>4. Len(got) \in Int /\ Unreleased \in Int
          BY DEF TypeOK, Unreleased
        <5>5. QED
          BY <1>0, <4>2, <5>3, <5>4 DEF StreamInv
      <4>3. QED
        BY <1>0, <2>1, <4>1, <4>2 DEF TypeOK
    <3>2. /\ buf' = buf /\ head' = head /\ got' = got
          /\ Unreleased' = Unreleased
      BY <1>6 DEF PutAdvance, Unreleased
    <3>3. \A o \in 0..(NumBytesStored(head', tail') - 1) :
            buf'[Wrap(head' + o)] = Len(got') - Unreleased' + o + 1
      <4> SUFFICES ASSUME NEW o \in 0..(NumBytesStored(head', tail') - 1)
                   PROVE  buf'[Wrap(head' + o)] = Len(got') - Unreleased' + o + 1
        OBVIOUS
      <4>1. o \in 0..(NumBytesStored(head, tail) + writeLen - 1)
        BY <1>0, <2>1, <2>2 DEF TypeOK
      <4>2. QED
        BY <3>1, <3>2, <4>1
    <3>4. QED
      BY <3>3 DEF ContentInv
  <2>6. PutInv'
    BY <1>6, <2>1 DEF PutAdvance, PutInv, TypeOK
  <2>7. GetInv' /\ InOrderDelivery'
    BY <1>6, <1>0, <2>1, <2>2 DEF PutAdvance, GetInv, InOrderDelivery, TypeOK
  <2>8. QED
    BY <2>3, <2>4, <2>5, <2>6, <2>7
<1>7. CASE FlushOut
  BY <1>7, CapacityAssumption
     DEF FlushOut, TypeOK, StreamInv, ContentInv, PutInv, GetInv,
         InOrderDelivery, Published, Unreleased
<1>8. QED
  BY <1>1, <1>2, <1>3, <1>4, <1>5, <1>6, <1>7 DEF PutStep

(* Every step of get_bytes preserves the invariant.                        *)
LEMMA GetPreserves ==
  ASSUME RingInv, GetStep
  PROVE  RingInv'
<1> USE DEF RingInv, putVars, shared
<1>0. NumBytesStored(head, tail) \in 0..(Capacity - 1)
  BY StoredRange DEF TypeOK
<1>1. ASSUME NEW n \in 1..MaxLen, GetBytes(n)
      PROVE  RingInv'
  BY <1>1, BoundsAssumption
     DEF GetBytes, TypeOK, StreamInv, ContentInv, PutInv, GetInv,
         InOrderDelivery, Published, Unreleased
<1>2. CASE GetEmpty
  BY <1>2
     DEF GetEmpty, TypeOK, StreamInv, ContentInv, PutInv, GetInv,
         InOrderDelivery, Published, Unreleased
<1>3. CASE GetFlagIdle
  BY <1>3
     DEF GetFlagIdle, TypeOK, StreamInv, ContentInv, PutInv, GetInv,
         InOrderDelivery, Published, Unreleased
<1>4. CASE GetNonEmpty
  <2>1. NumBytesStored(head, tail) >= 1
    BY <1>4, CapacityAssumption
       DEF GetNonEmpty, IsEmpty, NumBytesStored, TypeOK, Index
  <2>2. QED
    BY <1>4, <2>1
       DEF GetNonEmpty, TypeOK, StreamInv, ContentInv, PutInv, GetInv,
           InOrderDelivery, Published, Unreleased
<1>5. CASE GetSlice
  <2>1. /\ readHead = head
        /\ ContiguousReadLen(tail, head) \in Nat
        /\ ContiguousReadLen(tail, head) >= 1
        /\ head + ContiguousReadLen(tail, head) <= Capacity
        /\ ContiguousReadLen(tail, head) <= NumBytesStored(head, tail)
    BY <1>5, ReadSliceFits DEF GetSlice, GetInv, TypeOK
  <2>2. /\ readLen' \in 1..getLen
        /\ readHead + readLen' <= Capacity
        /\ readLen' <= NumBytesStored(head, tail)
    <3>1. /\ getLen \in Nat /\ getLen >= 1 /\ head \in Int
          /\ readLen' = Min2(ContiguousReadLen(tail, head), getLen)
      BY <1>5, <2>1 DEF GetSlice, GetInv, TypeOK, Index
    <3>2. readLen' \in 1..getLen /\ readLen' <= ContiguousReadLen(tail, head)
      BY <2>1, <3>1, MinRange
    <3>3. QED
      BY <1>0, <2>1, <3>1, <3>2, CapacityAssumption
  <2>3. TypeOK'
    BY <1>5, <2>2 DEF GetSlice, TypeOK
  <2>4. StreamInv' /\ ContentInv' /\ PutInv' /\ InOrderDelivery'
    BY <1>5 DEF GetSlice, StreamInv, ContentInv, PutInv, InOrderDelivery,
                Published, Unreleased
  <2>5. GetInv'
    BY <1>5, <2>2 DEF GetSlice, GetInv
  <2>6. QED
    BY <2>3, <2>4, <2>5
<1>6. CASE GetCopy
  <2>1. /\ readHead = head /\ readLen \in 1..getLen
        /\ head + readLen <= Capacity
        /\ readLen <= NumBytesStored(head, tail)
        /\ readLen \in Nat /\ head \in Nat /\ head < Capacity
    BY <1>6, CapacityAssumption DEF GetCopy, GetInv, TypeOK, Index
  <2>2. \A i \in 1..readLen : buf[readHead + i - 1] = Len(got) + i
    <3> SUFFICES ASSUME NEW i \in 1..readLen
                 PROVE  buf[readHead + i - 1] = Len(got) + i
      OBVIOUS
    <3>1. i - 1 \in 0..(NumBytesStored(head, tail) - 1)
      BY <1>0, <2>1
    <3>2. Wrap(head + (i - 1)) = readHead + i - 1
      BY <2>1, CapacityAssumption DEF Wrap
    <3>3. Unreleased = 0 /\ Len(got) \in Nat
      BY <1>6 DEF GetCopy, Unreleased, TypeOK
    <3>4. buf[Wrap(head + (i - 1))] = Len(got) - Unreleased + (i - 1) + 1
      BY <3>1 DEF ContentInv
    <3>5. QED
      BY <3>2, <3>3, <3>4
  <2>3. /\ got' \in Seq(Nat) /\ Len(got') = Len(got) + readLen
        /\ \A i \in 1..Len(got) : got'[i] = got[i]
        /\ \A i \in 1..readLen : got'[Len(got) + i] = buf[readHead + i - 1]
    <3> DEFINE slice == [i \in 1..readLen |-> buf[readHead + i - 1]]
    <3>1. \A i \in 1..readLen : buf[readHead + i - 1] \in Nat
      BY <2>1, CapacityAssumption DEF TypeOK, Index
    <3>2. slice \in Seq(Nat) /\ Len(slice) = readLen
      BY <2>1, <3>1
    <3>3. got \in Seq(Nat) /\ got' = got \o slice
      BY <1>6 DEF GetCopy, TypeOK
    <3>4. \A i \in 1..readLen : slice[i] = buf[readHead + i - 1]
      OBVIOUS
    <3> HIDE DEF slice
    <3>5. Len(got \o slice) = Len(got) + Len(slice) /\ got \o slice \in Seq(Nat)
      BY <3>2, <3>3
    <3>6. \A i \in 1..Len(got) : (got \o slice)[i] = got[i]
      BY <3>2, <3>3
    <3>7. \A i \in 1..Len(slice) : (got \o slice)[Len(got) + i] = slice[i]
      BY <3>2, <3>3
    <3>8. QED
      BY <3>2, <3>3, <3>4, <3>5, <3>6, <3>7
  <2>4. Unreleased = 0 /\ Unreleased' = readLen /\ Published' = Published
    BY <1>6 DEF GetCopy, Unreleased, Published
  <2>5. Len(got') - Unreleased' = Len(got) - Unreleased
    BY <2>1, <2>3, <2>4 DEF TypeOK
  <2>6. TypeOK'
    BY <1>6, <2>3 DEF GetCopy, TypeOK
  <2>7. StreamInv' /\ ContentInv'
    BY <1>6, <2>4, <2>5 DEF GetCopy, StreamInv, ContentInv
  <2>8. PutInv' /\ GetInv'
    BY <1>6, <2>4 DEF GetCopy, PutInv, GetInv
  <2>9. InOrderDelivery'
    <3> SUFFICES ASSUME NEW i \in 1..(Len(got) + readLen)
                 PROVE  got'[i] = i
      BY <2>3 DEF InOrderDelivery
    <3>1. CASE i \in 1..Len(got)
      BY <2>3, <3>1 DEF InOrderDelivery
    <3>2. CASE i \in (Len(got) + 1)..(Len(got) + readLen)
      <4>1. Len(got) \in Nat
        BY DEF TypeOK
      <4>2. i - Len(got) \in 1..readLen /\ Len(got) + (i - Len(got)) = i
        BY <2>1, <3>2, <4>1
      <4>3. got'[i] = Len(got) + (i - Len(got))
        BY <2>2, <2>3, <4>2
      <4>4. QED
        BY <4>2, <4>3
    <3>3. QED
      BY <2>1, <3>1, <3>2 DEF TypeOK
  <2>10. QED
    BY <2>6, <2>7, <2>8, <2>9
<1>7. CASE GetAdvance
  <2>1. /\ readHead = head /\ readLen \in 1..getLen /\ readLen \in Nat
        /\ head + readLen <= Capacity
        /\ readLen <= NumBytesStored(head, tail)
    BY <1>7 DEF GetAdvance, GetInv, TypeOK
  <2>2. /\ head' \in Index
        /\ NumBytesStored(head', tail') = NumBytesStored(head, tail) - readLen
    BY <1>7, <2>1, AdvanceWraps, StoredAfterGet DEF GetAdvance, TypeOK
  <2>3. Unreleased = readLen /\ Unreleased' = 0 /\ Published' = Published
    BY <1>7 DEF GetAdvance, Unreleased, Published
  <2>4. got' = got /\ buf' = buf /\ tail' = tail /\ Len(got) \in Nat
    BY <1>7 DEF GetAdvance, TypeOK
  <2>5. TypeOK'
    BY <1>7, <2>1, <2>2 DEF GetAdvance, TypeOK
  <2>6. StreamInv'
    BY <1>0, <2>1, <2>2, <2>3, <2>4 DEF StreamInv
  <2>7. ContentInv'
    <3>1. \A o \in 0..(NumBytesStored(head', tail') - 1) :
            buf'[Wrap(head' + o)] = Len(got') - Unreleased' + o + 1
      <4> SUFFICES ASSUME NEW o \in 0..(NumBytesStored(head', tail') - 1)
                   PROVE  buf'[Wrap(head' + o)] = Len(got') - Unreleased' + o + 1
        OBVIOUS
      <4>1. o \in 0..(NumBytesStored(head, tail) - readLen - 1)
        BY <1>0, <2>1, <2>2
      <4>2. o + readLen \in 0..(NumBytesStored(head, tail) - 1)
        BY <1>0, <2>1, <4>1
      <4>3. buf[Wrap(head + (o + readLen))]
              = Len(got) - Unreleased + (o + readLen) + 1
        BY <4>2 DEF ContentInv
      <4>4. Wrap(head' + o) = Wrap(head + (o + readLen))
        BY <1>7, <2>1, <4>1, ShiftedSlot DEF GetAdvance, TypeOK
      <4>5. QED
        BY <2>1, <2>3, <2>4, <4>1, <4>3, <4>4
    <3>2. QED
      BY <3>1 DEF ContentInv
  <2>8. PutInv'
    <3>1. /\ NumBytesStored(head', tail') \in Nat
          /\ NumBytesStored(head', tail') <= NumBytesStored(head, tail)
      BY <1>0, <2>1, <2>2
    <3>2. UNCHANGED <<putPc, putLen, readTail, writeLen, buf, tail>>
      BY <1>7 DEF GetAdvance
    <3>3. \A k \in Nat : NumBytesStored(head, tail) + k <= Capacity - 1
                         => NumBytesStored(head', tail') + k <= Capacity - 1
      BY <1>0, <3>1, CapacityAssumption
    <3>4. NumBytesStored(head, tail) <= Capacity - 2
            => NumBytesStored(head', tail') <= Capacity - 2
      BY <1>0, <3>1, CapacityAssumption
    <3>5. QED
      BY <2>3, <3>2, <3>3, <3>4 DEF PutInv, TypeOK
  <2>9. GetInv' /\ InOrderDelivery'
    BY <1>7, <2>1 DEF GetAdvance, GetInv, InOrderDelivery, TypeOK
  <2>10. QED
    BY <2>5, <2>6, <2>7, <2>8, <2>9
<1>8. QED
  BY <1>1, <1>2, <1>3, <1>4, <1>5, <1>6, <1>7 DEF GetStep

-----------------------------------------------------------------------------
(* The theorems                                                            *)

(* In every reachable state of the ring the cursors, the stream and the    *)
(* contents of the data area agree (RingInv).                              *)
THEOREM RingInvariance == Spec => []RingInv
<1>1. RingInv /\ UNCHANGED vars => RingInv'
  BY DEF RingInv, vars, TypeOK, StreamInv, ContentInv, PutInv, GetInv,
         InOrderDelivery, Published, Unreleased
<1>2. RingInv /\ [Next]_vars => RingInv'
  BY <1>1, PutPreserves, GetPreserves DEF Next
<1>3. QED
  BY InitRingInv, <1>2, PTL DEF Spec

(* put_bytes' and try_get_bytes' assertions on their cursors never fail.   *)
THEOREM TypeCorrectness == Spec => []TypeOK
<1>1. RingInv => TypeOK
  BY DEF RingInv
<1>2. QED
  BY <1>1, RingInvariance, PTL

(* get_bytes delivers every byte of put_bytes once, in order, unchanged.   *)
THEOREM Fifo == Spec => []InOrderDelivery
<1>1. RingInv => InOrderDelivery
  BY DEF RingInv
<1>2. QED
  BY <1>1, RingInvariance, PTL

(* The producer's copy and the consumer's copy never touch the same slot.  *)
THEOREM RaceFreedom == Spec => []NoDataRace
<1>1. RingInv => NoDataRace
  <2> SUFFICES ASSUME RingInv, putPc = "copy", getPc = "copy"
               PROVE  WriteRegion \cap ReadRegion = {}
    BY DEF NoDataRace
  <2>1. /\ readTail = tail /\ tail + writeLen <= Capacity /\ writeLen \in Nat
        /\ NumBytesStored(head, tail) + writeLen <= Capacity - 1
    BY DEF RingInv, PutInv, TypeOK
  <2>2. /\ readHead = head /\ head + readLen <= Capacity /\ readLen \in Nat
        /\ readLen <= NumBytesStored(head, tail)
    BY DEF RingInv, GetInv, TypeOK
  <2>3. head \in Index /\ tail \in Index
    BY DEF RingInv, TypeOK
  <2>4. ASSUME NEW i \in ReadRegion
        PROVE  i \notin WriteRegion
    <3>1. i - head \in 0..(NumBytesStored(head, tail) - 1)
      BY <2>2, <2>3, StoredRange, CapacityAssumption DEF ReadRegion, Index
    <3>2. Wrap(head + (i - head)) = i
      BY <2>2, <2>3, CapacityAssumption DEF Wrap, ReadRegion, Index
    <3>3. QED
      BY <2>1, <2>3, <3>1, <3>2, StoredSlotNotWritten DEF WriteRegion
  <2>5. QED
    BY <2>4
<1>2. QED
  BY <1>1, RingInvariance, PTL

(* No turn of either copy loop moves zero bytes.                           *)
THEOREM LoopProgress == Spec => []SlicesNonEmpty
<1>1. RingInv => SlicesNonEmpty
  BY DEF RingInv, PutInv, GetInv, TypeOK, SlicesNonEmpty
<1>2. QED
  BY <1>1, RingInvariance, PTL

(* The ring implements the abstract channel: the publication of a slice is *)
(* a Send, the copy out of a slice is a Receive, and every other step of   *)
(* put_bytes and get_bytes is invisible.                                   *)
THEOREM ChannelRefinement == Spec => RefinesByteChannel
<1>1. Init => Channel!ChanInit
  BY DEF Init, Channel!ChanInit, Published
<1>2. ASSUME RingInv, [Next]_vars
      PROVE  [Channel!ChanNext]_(Channel!chanVars)
  <2>0. /\ NumBytesStored(head, tail) \in 0..(Capacity - 1)
        /\ Len(got) \in Nat /\ writeLen \in Nat /\ readLen \in Nat
        /\ Published = Len(got) - Unreleased + NumBytesStored(head, tail)
        /\ Unreleased \in Nat
    BY <1>2, StoredRange DEF RingInv, StreamInv, TypeOK, Unreleased
  <2>1. CASE PutAdvance
    <3>0. /\ writeLen \in 1..putLen
          /\ NumBytesStored(head, tail) + writeLen <= Capacity - 1
      BY <1>2, <2>1 DEF RingInv, PutInv, PutAdvance
    <3>1. writeLen \in 1..(Capacity - 1)
      BY <2>0, <3>0, CapacityAssumption
    <3>2. Published' = Published + writeLen /\ got' = got
      BY <1>2, <2>1, <3>1
         DEF PutAdvance, getVars, RingInv, TypeOK, Published
    <3>3. Published + writeLen - Len(got) <= Capacity - 1
      BY <2>0, <3>0, CapacityAssumption
    <3>4. QED
      BY <3>1, <3>2, <3>3 DEF Channel!ChanNext, Channel!Send
  <2>2. CASE GetCopy
    <3>1. /\ readLen \in 1..(Capacity - 1) /\ Unreleased = 0
          /\ readLen <= NumBytesStored(head, tail)
      BY <1>2, <2>0, <2>2, CapacityAssumption
         DEF RingInv, GetInv, TypeOK, GetCopy, Unreleased
    <3>2. /\ Published' = Published
          /\ got' = got \o [i \in 1..readLen |-> buf[readHead + i - 1]]
      BY <2>2 DEF GetCopy, putVars, Published
    <3>3. Len(got) + readLen <= Published
      BY <2>0, <3>1
    <3>4. \A i \in 1..readLen : buf[readHead + i - 1] = Len(got) + i
      <4> SUFFICES ASSUME NEW i \in 1..readLen
                   PROVE  buf[readHead + i - 1] = Len(got) + i
        OBVIOUS
      <4>1. i - 1 \in 0..(NumBytesStored(head, tail) - 1)
        BY <2>0, <3>1
      <4>2. /\ readHead = head /\ head \in 0..(Capacity - 1)
            /\ readHead + readLen <= Capacity
        BY <1>2, <2>2 DEF RingInv, GetInv, TypeOK, GetCopy, Index
      <4>3. Wrap(head + (i - 1)) = readHead + i - 1
        BY <2>0, <4>2, CapacityAssumption DEF Wrap
      <4>4. buf[Wrap(head + (i - 1))] = Len(got) - Unreleased + (i - 1) + 1
        BY <1>2, <4>1 DEF RingInv, ContentInv
      <4>5. QED
        BY <2>0, <3>1, <4>3, <4>4
    <3>5. [i \in 1..readLen |-> buf[readHead + i - 1]]
            = [i \in 1..readLen |-> Len(got) + i]
      BY <3>4
    <3>6. QED
      BY <3>1, <3>2, <3>3, <3>5 DEF Channel!ChanNext, Channel!Receive
  <2>3. CASE PutCopy
    BY <1>2, <2>3 DEF PutCopy, getVars, Published, Channel!chanVars,
                      RingInv, TypeOK
  <2>4. CASE \/ \E n \in 1..MaxLen : PutBytes(n)
             \/ Flush \/ FlushOut \/ PutWaitNotFull \/ PutSlice
    BY <2>4 DEF PutBytes, Flush, FlushOut, PutWaitNotFull, PutSlice, getVars,
                Published, Channel!chanVars
  <2>5. CASE \/ \E n \in 1..MaxLen : GetBytes(n)
             \/ GetEmpty \/ GetFlagIdle \/ GetNonEmpty \/ GetSlice \/ GetAdvance
    BY <2>5 DEF GetBytes, GetEmpty, GetFlagIdle, GetNonEmpty, GetSlice,
                GetAdvance, putVars, Published, Channel!chanVars
  <2>6. CASE UNCHANGED vars
    BY <2>6 DEF vars, Published, Channel!chanVars
  <2>7. QED
    BY <1>2, <2>1, <2>2, <2>3, <2>4, <2>5, <2>6 DEF Next, PutStep, GetStep
<1>3. QED
  BY <1>1, <1>2, RingInvariance, PTL
     DEF Spec, RefinesByteChannel, Channel!ChanSpec

=============================================================================

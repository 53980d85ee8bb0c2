-------------------------- MODULE RdmaRing_proofs --------------------------
(***************************************************************************)
(* The RDMA channel for every size of the send queue, every signal         *)
(* interval and every capacity.  The queue pair: types, the bound on       *)
(* posted requests, and the success of every compare-and-swap of the tail. *)
(* The stream: put_bytes keeps what the NIC has still to fetch, and the    *)
(* channel implements ByteChannel.                                         *)
(***************************************************************************)
EXTENDS RdmaRing, TLAPS

-----------------------------------------------------------------------------
(* The inductive invariant                                                 *)

(* Work requests are retired, completed or queued, in the order of their   *)
(* numbers; completions are polled in that order too.  The sender stops to *)
(* poll when it is SignalInterval short of a full queue, counted from      *)
(* last_poll, and may have posted two more by then: the one that made it   *)
(* stop, and, at the very beginning, request 0 that last_poll = 0 already  *)
(* takes for done.                                                         *)
QueueInv ==
  /\ retired <= nextReq - Len(sq)
  /\ lastPoll <= retired
  /\ nextReq <= retired + (MaxSendWr - SignalInterval)
                  + (IF pollFor = NoPoll THEN 1 ELSE 2)
  /\ \A i \in 1..Len(cq) : retired <= cq[i] /\ cq[i] < nextReq - Len(sq)
  /\ \A i, j \in 1..Len(cq) : i < j => cq[i] < cq[j]

(* What is put is within the bound of the behaviour, and a slice that is   *)
(* being read lies in the data area.                                       *)
SliceInv ==
  /\ next - 1 + putLen <= MaxBytes
  /\ getPc \in {"copy", "advance"} =>
       readLen <= getLen /\ readHead + readLen <= Capacity

(* f[i] is the receiver's tail when the i-th queued request is executed.   *)
TailsAhead(f) ==
  /\ f[1] = rtail /\ f[Len(sq) + 1] = lastTail
  /\ \A i \in 1..Len(sq) :
       IF sq[i].op = "cas" THEN f[i] = sq[i].compare /\ f[i + 1] = sq[i].swap
                           ELSE f[i + 1] = f[i]
SwapInv == \E f \in [1..(Len(sq) + 1) -> Index] : TailsAhead(f)

RdmaInv == TypeOK /\ QueueInv /\ SliceInv /\ SwapInv

-----------------------------------------------------------------------------
(* Lemmas                                                                  *)

(* An index stays in the data area.                                        *)
LEMMA AdvanceInIndex ==
  ASSUME NEW i \in Index, NEW n \in Nat
  PROVE  Advance(i, n) \in Index
BY CapacityAssumption DEF Advance, Index

(* contiguous_write_slice_from stays in the data area, whatever head is.   *)
LEMMA WriteSliceInside ==
  ASSUME NEW h \in Index, NEW t \in Index, NEW n \in Nat
  PROVE  /\ Min2(ContiguousWriteLen(h, t), n) \in 0..n
         /\ t + Min2(ContiguousWriteLen(h, t), n) <= Capacity
BY CapacityAssumption DEF ContiguousWriteLen, Min2, Index

(* So does contiguous_read_slice_from.                                     *)
LEMMA ReadSliceInside ==
  ASSUME NEW h \in Index, NEW t \in Index, NEW n \in Nat
  PROVE  /\ Min2(ContiguousReadLen(t, h), n) \in 0..n
         /\ Min2(ContiguousReadLen(t, h), n) <= Capacity
         /\ h + Min2(ContiguousReadLen(t, h), n) <= Capacity
BY CapacityAssumption DEF ContiguousReadLen, Min2, Index

(* The base to which poll_batch's numbers are moved is not above the last  *)
(* one polled.                                                             *)
LEMMA RebaseBelow ==
  ASSUME NEW s \in Nat \ {0}, NEW n \in Nat
  PROVE  s * (n \div s) \in 0..n
OBVIOUS

(* poll_batch has room for at least one completion.                        *)
LEMMA BatchPositive == Batch \in Nat \ {0}
BY RdmaAssumption DEF Batch

(* What Append does to the send queue and to the completion queue.         *)
LEMMA Appended ==
  ASSUME NEW S, NEW q \in Seq(S), NEW x \in S
  PROVE  /\ Append(q, x) \in Seq(S) /\ Len(q) \in Nat
         /\ Len(Append(q, x)) = Len(q) + 1
         /\ \A i \in 1..Len(q) : Append(q, x)[i] = q[i]
         /\ Append(q, x)[Len(q) + 1] = x
OBVIOUS

(* What is left when the oldest request is gone.                           *)
LEMMA OldestGone ==
  ASSUME NEW S, NEW q \in Seq(S), q # <<>>
  PROVE  /\ Tail(q) \in Seq(S) /\ Len(q) \in Nat \ {0}
         /\ Len(Tail(q)) = Len(q) - 1
         /\ Head(q) = q[1]
         /\ \A i \in 1..(Len(q) - 1) : Tail(q)[i] = q[i + 1]
OBVIOUS

(* The types of the queue pair and of the numbers of its requests.         *)
LEMMA QueueTypes ==
  ASSUME TypeOK
  PROVE  /\ sq \in Seq(WorkRequest) /\ cq \in Seq(Nat)
         /\ Len(sq) \in Nat /\ Len(cq) \in Nat
         /\ retired \in Nat /\ nextReq \in Nat /\ lastPoll \in Nat
         /\ pollFor \in Nat \cup {NoPoll}
         /\ rtail \in Index /\ lastTail \in Index /\ ltail \in Index
         /\ \A i \in 1..Len(sq) : sq[i].op = "write" => Slots(sq[i]) \subseteq Index
         /\ \A i \in 1..Len(cq) : cq[i] \in Nat
<1>1. sq \in Seq(WorkRequest) /\ cq \in Seq(Nat)
  BY DEF TypeOK
<1>2. Len(sq) \in Nat /\ Len(cq) \in Nat /\ \A i \in 1..Len(cq) : cq[i] \in Nat
  BY <1>1
<1>3. QED
  BY <1>1, <1>2 DEF TypeOK

(* A freshly created channel satisfies the invariant.                      *)
LEMMA InitRdmaInv == Init => RdmaInv
<1> SUFFICES ASSUME Init PROVE RdmaInv
  OBVIOUS
<1> USE CapacityAssumption, RdmaAssumption
<1>1. TypeOK
  <2>1. 0 \in Index
    BY DEF Index
  <2>2. QED
    BY <2>1 DEF Init, TypeOK
<1>2. QueueInv /\ SliceInv
  BY DEF Init, QueueInv, SliceInv, NoPoll
<1>3. SwapInv
  <2> DEFINE f == [i \in 1..1 |-> 0]
  <2>1. f \in [1..(Len(sq) + 1) -> Index] /\ TailsAhead(f)
    BY DEF Init, TailsAhead, Index
  <2>2. QED
    BY <2>1 DEF SwapInv
<1>4. QED
  BY <1>1, <1>2, <1>3 DEF RdmaInv

(* A posted request: the queue grows by it, its number is the next one,    *)
(* and the sender polls unless there is room.                              *)
LEMMA PostPreserves ==
  ASSUME RdmaInv, NEW wr \in WorkRequest, Post(wr),
         wr.op = "write" => Slots(wr) \subseteq Index,
         pollFor = NoPoll, pollFor' \in Nat \cup {NoPoll},
         pollFor' = NoPoll => nextReq <= lastPoll + (MaxSendWr - SignalInterval),
         rtail' = rtail, lastTail' \in Index,
         IF wr.op = "cas" THEN wr.compare = lastTail /\ wr.swap = lastTail'
                          ELSE lastTail' = lastTail
  PROVE  /\ sq' \in Seq(WorkRequest)
         /\ \A i \in 1..Len(sq') : sq'[i].op = "write" => Slots(sq'[i]) \subseteq Index
         /\ nextReq' \in Nat
         /\ QueueInv' /\ SwapInv'
<1> USE DEF RdmaInv
<1>0. TypeOK /\ QueueInv
  OBVIOUS
<1>1. /\ sq' \in Seq(WorkRequest) /\ Len(sq') = Len(sq) + 1 /\ Len(sq) \in Nat
      /\ \A i \in 1..Len(sq) : sq'[i] = sq[i]
      /\ sq'[Len(sq) + 1] = wr
  BY <1>0, QueueTypes, Appended DEF Post
<1>2. \A i \in 1..Len(sq') : sq'[i].op = "write" => Slots(sq'[i]) \subseteq Index
  <2> SUFFICES ASSUME NEW i \in 1..Len(sq'), sq'[i].op = "write"
               PROVE  Slots(sq'[i]) \subseteq Index
    OBVIOUS
  <2>1. CASE i = Len(sq) + 1
    BY <1>1, <2>1
  <2>2. CASE i \in 1..Len(sq)
    BY <1>0, <1>1, <2>2, QueueTypes
  <2>3. QED
    BY <1>1, <2>1, <2>2
<1>3. nextReq' \in Nat /\ nextReq' = nextReq + 1
  BY <1>0, QueueTypes DEF Post
<1>4. QueueInv'
  <2>1. UNCHANGED <<cq, retired, lastPoll>>
    BY DEF Post
  <2>2. nextReq' - Len(sq') = nextReq - Len(sq)
    BY <1>0, <1>1, <1>3, QueueTypes
  <2>3. nextReq' <= retired' + (MaxSendWr - SignalInterval)
                     + (IF pollFor' = NoPoll THEN 1 ELSE 2)
    BY <1>0, <1>3, <2>1, QueueTypes, RdmaAssumption DEF QueueInv
  <2>4. QED
    BY <1>0, <2>1, <2>2, <2>3 DEF QueueInv
<1>5. SwapInv'
  <2>1. PICK f \in [1..(Len(sq) + 1) -> Index] : TailsAhead(f)
    BY DEF SwapInv
  <2> DEFINE g == [i \in 1..(Len(sq) + 2) |-> IF i = Len(sq) + 2 THEN lastTail' ELSE f[i]]
  <2>2. g \in [1..(Len(sq') + 1) -> Index]
    BY <1>1
  <2>3. g[1] = rtail' /\ g[Len(sq') + 1] = lastTail'
    BY <1>1, <2>1 DEF TailsAhead
  <2>4. ASSUME NEW i \in 1..Len(sq')
        PROVE  IF sq'[i].op = "cas"
               THEN g[i] = sq'[i].compare /\ g[i + 1] = sq'[i].swap
               ELSE g[i + 1] = g[i]
    <3>1. CASE i = Len(sq) + 1
      BY <1>1, <2>1, <3>1 DEF TailsAhead
    <3>2. CASE i \in 1..Len(sq)
      BY <1>1, <2>1, <3>2 DEF TailsAhead
    <3>3. QED
      BY <1>1, <3>1, <3>2
  <2>5. QED
    BY <2>2, <2>3, <2>4 DEF SwapInv, TailsAhead
<1>6. QED
  BY <1>1, <1>2, <1>3, <1>4, <1>5

(* The oldest request is executed and leaves the queue, with or without an *)
(* entry in the completion queue.                                          *)
LEMMA CompletePreserves ==
  ASSUME RdmaInv, sq # <<>>, Complete,
         rtail' = IF Head(sq).op = "cas" THEN Head(sq).swap ELSE rtail
  PROVE  /\ sq' \in Seq(WorkRequest)
         /\ \A i \in 1..Len(sq') : sq'[i].op = "write" => Slots(sq'[i]) \subseteq Index
         /\ cq' \in Seq(Nat)
         /\ QueueInv' /\ SwapInv'
<1> USE DEF RdmaInv
<1>0. TypeOK /\ QueueInv
  OBVIOUS
<1>1. /\ sq' \in Seq(WorkRequest) /\ Len(sq') = Len(sq) - 1
      /\ Len(sq) \in Nat \ {0} /\ Head(sq) = sq[1]
      /\ \A i \in 1..Len(sq') : sq'[i] = sq[i + 1]
  BY <1>0, QueueTypes, OldestGone DEF Complete
<1>2. \A i \in 1..Len(sq') : sq'[i].op = "write" => Slots(sq'[i]) \subseteq Index
  BY <1>0, <1>1, QueueTypes
<1>3. UNCHANGED <<nextReq, lastPoll, lastTail, pollFor, retired>>
  BY DEF Complete, channel
<1>4. cq' \in Seq(Nat) /\ QueueInv'
  <2>1. OldestId \in Nat /\ retired <= OldestId
    BY <1>0, <1>1, QueueTypes DEF OldestId, QueueInv
  <2>2. OldestId = nextReq' - Len(sq') - 1
    BY <1>0, <1>1, <1>3, QueueTypes DEF OldestId
  <2>3. CASE cq' = cq
    BY <1>0, <1>1, <1>3, <2>3, QueueTypes DEF QueueInv
  <2>4. CASE cq' = Append(cq, OldestId)
    <3>1. /\ cq' \in Seq(Nat) /\ Len(cq') = Len(cq) + 1 /\ Len(cq) \in Nat
          /\ \A i \in 1..Len(cq) : cq'[i] = cq[i]
          /\ cq'[Len(cq) + 1] = OldestId
      BY <1>0, <2>1, <2>4, QueueTypes, Appended
    <3>2. \A i \in 1..Len(cq) : retired <= cq[i] /\ cq[i] < OldestId
      BY <1>0 DEF QueueInv, OldestId
    <3>3. \A i \in 1..Len(cq') : retired' <= cq'[i] /\ cq'[i] < nextReq' - Len(sq')
      <4> SUFFICES ASSUME NEW i \in 1..Len(cq')
                   PROVE  retired' <= cq'[i] /\ cq'[i] < nextReq' - Len(sq')
        OBVIOUS
      <4>1. CASE i = Len(cq) + 1
        BY <1>0, <1>1, <1>3, <2>1, <2>2, <3>1, <4>1, QueueTypes
      <4>2. CASE i \in 1..Len(cq)
        <5>1. cq[i] \in Nat
          BY <1>0, <4>2, QueueTypes
        <5>2. cq'[i] = cq[i] /\ retired <= cq[i] /\ cq[i] < OldestId
          BY <3>1, <3>2, <4>2
        <5>3. nextReq' - Len(sq') = OldestId + 1
          BY <1>0, <1>1, <1>3, <2>2, QueueTypes
        <5>4. QED
          BY <1>3, <2>1, <5>1, <5>2, <5>3
      <4>3. QED
        BY <3>1, <4>1, <4>2
    <3>4. \A i, j \in 1..Len(cq') : i < j => cq'[i] < cq'[j]
      <4> SUFFICES ASSUME NEW i \in 1..Len(cq'), NEW j \in 1..Len(cq'), i < j
                   PROVE  cq'[i] < cq'[j]
        OBVIOUS
      <4>1. i \in 1..Len(cq) /\ cq'[i] = cq[i]
        BY <3>1
      <4>2. CASE j = Len(cq) + 1
        BY <3>1, <3>2, <4>1, <4>2
      <4>3. CASE j \in 1..Len(cq)
        BY <1>0, <3>1, <4>1, <4>3 DEF QueueInv
      <4>4. QED
        BY <3>1, <4>2, <4>3
    <3>5. QED
      BY <1>0, <1>1, <1>3, <3>1, <3>3, <3>4, QueueTypes DEF QueueInv
  <2>5. QED
    BY <2>3, <2>4 DEF Complete
<1>5. SwapInv'
  <2>1. PICK f \in [1..(Len(sq) + 1) -> Index] : TailsAhead(f)
    BY DEF SwapInv
  <2> DEFINE g == [i \in 1..Len(sq) |-> f[i + 1]]
  <2>2. g \in [1..(Len(sq') + 1) -> Index]
    BY <1>1
  <2>3. g[1] = rtail' /\ g[Len(sq') + 1] = lastTail'
    BY <1>1, <1>3, <2>1 DEF TailsAhead
  <2>4. ASSUME NEW i \in 1..Len(sq')
        PROVE  IF sq'[i].op = "cas"
               THEN g[i] = sq'[i].compare /\ g[i + 1] = sq'[i].swap
               ELSE g[i + 1] = g[i]
    <3>1. i + 1 \in 1..Len(sq) /\ i \in 1..Len(sq) /\ sq'[i] = sq[i + 1]
      BY <1>1
    <3>2. g[i] = f[i + 1] /\ g[i + 1] = f[(i + 1) + 1]
      BY <3>1
    <3>3. IF sq[i + 1].op = "cas"
          THEN f[i + 1] = sq[i + 1].compare /\ f[(i + 1) + 1] = sq[i + 1].swap
          ELSE f[(i + 1) + 1] = f[i + 1]
      BY <2>1, <3>1 DEF TailsAhead
    <3>4. QED
      BY <3>1, <3>2, <3>3
  <2>5. QED
    BY <2>2, <2>3, <2>4 DEF SwapInv, TailsAhead
<1>6. QED
  BY <1>1, <1>2, <1>4, <1>5

(* poll_batch: whatever it takes from the completion queue is later than   *)
(* what has been retired, so one turn makes room for a request.            *)
LEMMA PollPreserves ==
  ASSUME RdmaInv, PollBatch
  PROVE  RdmaInv'
<1> DEFINE n == Min2(Len(cq), Batch)
           last == cq[n]
           base == SignalInterval * (last \div SignalInterval)
<1>0. TypeOK /\ QueueInv
  BY DEF RdmaInv
<1>1. n \in 1..Len(cq)
  <2>1. Len(cq) \in Nat /\ cq \in Seq(Nat) /\ cq # <<>>
    BY <1>0, QueueTypes DEF PollBatch
  <2>2. Len(cq) >= 1
    BY <2>1
  <2>3. QED
    BY <2>1, <2>2, BatchPositive DEF Min2
<1>2. last \in Nat /\ retired <= last /\ last < nextReq - Len(sq)
  BY <1>0, <1>1, QueueTypes DEF QueueInv
<1>3. base \in 0..last
  <2>1. SignalInterval \in Nat \ {0}
    BY RdmaAssumption
  <2> HIDE DEF last
  <2>2. QED
    BY <1>2, <2>1, RebaseBelow
<1>4. ASSUME NEW i \in 1..(Len(cq) - n)
      PROVE  /\ n + i \in 1..Len(cq) /\ cq[n + i] \in Nat
             /\ last < cq[n + i] /\ cq[n + i] < nextReq - Len(sq)
  <2>1. n + i \in 1..Len(cq) /\ n < n + i
    BY <1>0, <1>1, QueueTypes
  <2>2. QED
    BY <1>0, <1>1, <2>1, QueueTypes DEF QueueInv
<1>5. /\ cq' = [i \in 1..(Len(cq) - n) |-> cq[n + i] - base]
      /\ lastPoll' = last - base /\ retired' = (last + 1) - base
      /\ nextReq' = nextReq - base
      /\ pollFor' = IF last >= pollFor THEN NoPoll ELSE pollFor - base
      /\ pollFor # NoPoll
      /\ UNCHANGED <<sq, lastTail, local, remote, putVars, getVars>>
  BY DEF PollBatch
<1> HIDE DEF n, last, base
<1>6. /\ cq' \in Seq(Nat) /\ Len(cq') = Len(cq) - n
      /\ \A i \in 1..Len(cq') : cq'[i] = cq[n + i] - base
  <2>1. Len(cq) - n \in Nat
    BY <1>0, <1>1, QueueTypes
  <2>2. cq' \in [1..(Len(cq) - n) -> Nat]
    BY <1>2, <1>3, <1>4, <1>5
  <2>3. QED
    BY <1>5, <2>1, <2>2
<1>7. /\ lastPoll' \in Nat /\ retired' \in Nat /\ nextReq' \in Nat
      /\ pollFor' \in Nat \cup {NoPoll}
  <2>1. /\ nextReq \in Nat /\ Len(sq) \in Nat /\ pollFor \in Nat \cup {NoPoll}
        /\ lastPoll' = last - base /\ retired' = (last + 1) - base
        /\ nextReq' = nextReq - base /\ pollFor # NoPoll
        /\ pollFor' = IF last >= pollFor THEN NoPoll ELSE pollFor - base
    BY <1>0, <1>5, QueueTypes
  <2>2. lastPoll' \in Nat /\ retired' \in Nat /\ nextReq' \in Nat
    BY <1>2, <1>3, <2>1
  <2>3. pollFor' \in Nat \cup {NoPoll}
    BY <1>2, <1>3, <2>1
  <2>4. QED
    BY <2>2, <2>3
<1>8. TypeOK'
  BY <1>0, <1>5, <1>6, <1>7 DEF TypeOK, local, remote, putVars, getVars
<1>9. QueueInv'
  <2>1. retired' <= nextReq' - Len(sq') /\ lastPoll' <= retired'
    BY <1>0, <1>2, <1>3, <1>5, QueueTypes
  <2>2. nextReq' <= retired' + (MaxSendWr - SignalInterval)
                     + (IF pollFor' = NoPoll THEN 1 ELSE 2)
    BY <1>0, <1>2, <1>3, <1>5, QueueTypes, RdmaAssumption DEF QueueInv
  <2>3. \A i \in 1..Len(cq') : retired' <= cq'[i] /\ cq'[i] < nextReq' - Len(sq')
    <3> SUFFICES ASSUME NEW i \in 1..Len(cq')
                 PROVE  retired' <= cq'[i] /\ cq'[i] < nextReq' - Len(sq')
      OBVIOUS
    <3>1. /\ cq[n + i] \in Nat /\ last < cq[n + i] /\ cq[n + i] < nextReq - Len(sq)
          /\ cq'[i] = cq[n + i] - base
      BY <1>4, <1>6
    <3>2. /\ retired' = (last + 1) - base /\ nextReq' = nextReq - base /\ sq' = sq
          /\ nextReq \in Nat /\ Len(sq) \in Nat
      BY <1>0, <1>5, QueueTypes
    <3>3. QED
      BY <1>2, <1>3, <3>1, <3>2
  <2>4. ASSUME NEW i \in 1..Len(cq'), NEW j \in 1..Len(cq'), i < j
        PROVE  cq'[i] < cq'[j]
    <3>1. /\ n + i \in 1..Len(cq) /\ n + j \in 1..Len(cq) /\ n + i < n + j
          /\ cq[n + i] \in Nat /\ cq[n + j] \in Nat
      BY <1>1, <1>4, <1>6, <2>4
    <3>2. cq[n + i] < cq[n + j]
      BY <1>0, <3>1 DEF QueueInv
    <3>3. cq'[i] = cq[n + i] - base /\ cq'[j] = cq[n + j] - base
      BY <1>6
    <3>4. base \in Int
      BY <1>2, <1>3
    <3>5. QED
      BY <3>1, <3>2, <3>3, <3>4
  <2>5. QED
    BY <2>1, <2>2, <2>3, <2>4 DEF QueueInv
<1>10. SliceInv' /\ SwapInv'
  BY <1>5 DEF RdmaInv, SliceInv, SwapInv, TailsAhead, remote, putVars, getVars
<1>11. QED
  BY <1>8, <1>9, <1>10 DEF RdmaInv

(* The steps of put_bytes and flush_out that post nothing.                 *)
LEMMA PutPreserves ==
  ASSUME RdmaInv,
         \/ \E n \in 1..MaxLen : PutBytes(n)
         \/ Flush \/ PutFull \/ PutTurn \/ FlushNothing \/ FlushReturn
  PROVE  RdmaInv'
<1>0. TypeOK /\ QueueInv /\ SliceInv /\ SwapInv
  BY DEF RdmaInv
<1>1. UNCHANGED <<remote, queuePair, channel, getVars, lhead>>
  BY DEF PutBytes, Flush, PutFull, PutTurn, FlushNothing, FlushReturn, local
<1>2. QueueInv' /\ SwapInv'
  BY <1>0, <1>1 DEF QueueInv, SwapInv, TailsAhead, queuePair, channel, remote
<1>3. ASSUME ltail' \in Index, lbuf' \in [Index -> Nat],
             putPc' \in {"idle", "turn", "copy", "first", "second", "cas", "wait"},
             putLen' \in 0..MaxLen, inPut' \in BOOLEAN, next' \in 1..(MaxBytes + 1),
             next' - 1 + putLen' <= MaxBytes
      PROVE  RdmaInv'
  <2>1. TypeOK'
    BY <1>0, <1>1, <1>3 DEF TypeOK, queuePair, channel, remote, getVars
  <2>2. SliceInv'
    BY <1>0, <1>1, <1>3 DEF SliceInv, getVars
  <2>3. QED
    BY <1>2, <2>1, <2>2 DEF RdmaInv
<1>4. ASSUME NEW n \in 1..MaxLen, PutBytes(n) PROVE RdmaInv'
  BY <1>0, <1>3, <1>4, RdmaAssumption DEF PutBytes, Sender, TypeOK, SliceInv, local
<1>5. CASE Flush
  BY <1>0, <1>3, <1>5 DEF Flush, Sender, TypeOK, SliceInv, local
<1>6. CASE PutFull
  BY <1>0, <1>3, <1>6 DEF PutFull, Sender, TypeOK, SliceInv, local
<1>7. CASE PutTurn
  <2> DEFINE len == Min2(ContiguousWriteLen(lhead, ltail), putLen)
  <2>0. /\ lhead \in Index /\ ltail \in Index /\ putLen \in Nat /\ putLen \in 0..MaxLen
        /\ MaxLen \in Nat /\ next \in 1..(MaxBytes + 1) /\ MaxBytes \in Nat
        /\ next - 1 + putLen <= MaxBytes
        /\ lbuf \in [Index -> Nat] /\ inPut \in BOOLEAN
    BY <1>0, RdmaAssumption DEF TypeOK, SliceInv
  <2>1. len \in 0..putLen /\ ltail + len <= Capacity
    BY <2>0, WriteSliceInside
  <2>2. /\ putPc' \in {"idle", "turn"} /\ inPut' = inPut
        /\ lbuf' = [i \in Index |-> IF i \in ltail..(ltail + len - 1)
                                    THEN next + (i - ltail) ELSE lbuf[i]]
        /\ ltail' = Advance(ltail, len)
        /\ putLen' = putLen - len /\ next' = next + len
    BY <1>7 DEF PutTurn, Sender
  <2> HIDE DEF len
  <2>3. ltail' \in Index
    BY <2>0, <2>1, <2>2, AdvanceInIndex
  <2>4. lbuf' \in [Index -> Nat]
    <3> SUFFICES ASSUME NEW i \in Index
                 PROVE  (IF i \in ltail..(ltail + len - 1)
                         THEN next + (i - ltail) ELSE lbuf[i]) \in Nat
      BY <2>2
    <3>1. QED
      BY <2>0, <2>1, CapacityAssumption DEF Index
  <2>5. putLen' \in 0..MaxLen /\ next' \in 1..(MaxBytes + 1)
          /\ next' - 1 + putLen' <= MaxBytes
    BY <2>0, <2>1, <2>2
  <2>6. QED
    BY <1>3, <2>0, <2>2, <2>3, <2>4, <2>5
<1>8. CASE FlushNothing
  BY <1>0, <1>3, <1>8 DEF FlushNothing, Sender, TypeOK, SliceInv, local
<1>9. CASE FlushReturn
  BY <1>0, <1>3, <1>9 DEF FlushReturn, Sender, TypeOK, SliceInv, local
<1>10. QED
  BY <1>4, <1>5, <1>6, <1>7, <1>8, <1>9

(* The steps of flush_out that post a request.                             *)
LEMMA FlushPreserves ==
  ASSUME RdmaInv, FlushFirst \/ FlushSecond \/ FlushTail \/ FlushWait
  PROVE  RdmaInv'
<1>0. TypeOK /\ SliceInv /\ pollFor = NoPoll
  BY DEF RdmaInv, FlushFirst, FlushSecond, FlushTail, FlushWait, Sender
<1>1. /\ UNCHANGED <<putLen, inPut, next, local, remote, getVars, cq, retired, lastPoll>>
      /\ putPc' \in {"second", "cas", "wait"}
  BY DEF FlushFirst, FlushSecond, FlushTail, FlushWait, Sender, WriteRemote,
         WriteTailRemote, ReadRemoteHead, Post
<1>2. ASSUME NEW wr \in WorkRequest, Post(wr),
             wr.op = "write" => Slots(wr) \subseteq Index,
             pollFor' \in {PollAfter(nextReq), nextReq}, lastTail' \in Index,
             IF wr.op = "cas" THEN wr.compare = lastTail /\ wr.swap = lastTail'
                              ELSE lastTail' = lastTail
      PROVE  RdmaInv'
  <2>1. /\ pollFor' \in Nat \cup {NoPoll}
        /\ pollFor' = NoPoll => nextReq <= lastPoll + (MaxSendWr - SignalInterval)
    BY <1>0, <1>2, QueueTypes, RdmaAssumption DEF PollAfter, NoPoll
  <2>2. rtail' = rtail
    BY <1>1 DEF remote
  <2>3. /\ sq' \in Seq(WorkRequest)
        /\ \A i \in 1..Len(sq') : sq'[i].op = "write" => Slots(sq'[i]) \subseteq Index
        /\ nextReq' \in Nat
        /\ QueueInv' /\ SwapInv'
    BY <1>0, <1>2, <2>1, <2>2, PostPreserves
  <2>4. TypeOK'
    BY <1>0, <1>1, <1>2, <2>1, <2>3 DEF TypeOK, local, remote, getVars
  <2>5. SliceInv'
    BY <1>0, <1>1 DEF SliceInv, getVars
  <2>6. QED
    BY <2>3, <2>4, <2>5 DEF RdmaInv
<1>3. ASSUME NEW off \in Index, NEW len \in 0..Capacity, off + len <= Capacity,
             WriteRemote(off, len), lastTail' = lastTail
      PROVE  RdmaInv'
  <2> DEFINE wr == [op |-> "write", off |-> off, len |-> len]
  <2>1. wr \in WorkRequest /\ wr.op = "write" /\ Slots(wr) \subseteq Index
    BY <1>3, CapacityAssumption DEF WorkRequest, Slots, Index
  <2>2. Post(wr) /\ pollFor' = PollAfter(nextReq)
    BY <1>3 DEF WriteRemote
  <2>3. lastTail' \in Index
    BY <1>0, <1>3, QueueTypes
  <2> HIDE DEF wr
  <2>4. QED
    BY <1>2, <1>3, <2>1, <2>2, <2>3
<1>4. ltail \in Index /\ lastTail \in Index
  BY <1>0, QueueTypes
<1>5. CASE FlushFirst
  <2> DEFINE len == IF lastTail < ltail THEN ltail - lastTail ELSE Capacity - lastTail
  <2>1. len \in 0..Capacity /\ lastTail + len <= Capacity
    BY <1>4, CapacityAssumption DEF Index
  <2>2. WriteRemote(lastTail, len) /\ lastTail' = lastTail
    BY <1>5 DEF FlushFirst
  <2> HIDE DEF len
  <2>3. QED
    BY <1>3, <1>4, <2>1, <2>2
<1>6. CASE FlushSecond
  <2>1. 0 \in Index /\ ltail \in 0..Capacity /\ 0 + ltail <= Capacity
    BY <1>4, CapacityAssumption DEF Index
  <2>2. WriteRemote(0, ltail) /\ lastTail' = lastTail
    BY <1>6 DEF FlushSecond
  <2>3. QED
    BY <1>3, <2>1, <2>2
<1>7. CASE FlushTail
  <2> DEFINE wr == [op |-> "cas", compare |-> lastTail, swap |-> ltail]
  <2>1. wr \in WorkRequest /\ wr.op = "cas" /\ wr.compare = lastTail /\ wr.swap = ltail
    BY <1>4 DEF WorkRequest
  <2>2. Post(wr) /\ pollFor' = PollAfter(nextReq) /\ lastTail' = ltail
    BY <1>7 DEF FlushTail, WriteTailRemote
  <2> HIDE DEF wr
  <2>3. QED
    BY <1>2, <1>4, <2>1, <2>2
<1>8. CASE FlushWait
  <2> DEFINE wr == [op |-> "read"]
  <2>1. wr \in WorkRequest /\ wr.op = "read"
    BY DEF WorkRequest
  <2>2. Post(wr) /\ pollFor' = nextReq /\ lastTail' = lastTail
    BY <1>8 DEF FlushWait, ReadRemoteHead
  <2> HIDE DEF wr
  <2>3. QED
    BY <1>2, <1>4, <2>1, <2>2
<1>9. QED
  BY <1>5, <1>6, <1>7, <1>8

(* The compare-and-swap that is executed next finds what it expects.       *)
LEMMA OldestSwap ==
  ASSUME RdmaInv, sq # <<>>
  PROVE  Head(sq).op = "cas" => Head(sq).compare = rtail
<1>1. TypeOK /\ SwapInv
  BY DEF RdmaInv
<1>2. 1 \in 1..Len(sq) /\ Head(sq) = sq[1]
  BY <1>1, QueueTypes, OldestGone
<1>3. PICK f \in [1..(Len(sq) + 1) -> Index] : TailsAhead(f)
  BY <1>1 DEF SwapInv
<1>4. f[1] = rtail /\ (sq[1].op = "cas" => f[1] = sq[1].compare)
  BY <1>2, <1>3 DEF TailsAhead
<1>5. QED
  BY <1>2, <1>4

(* The steps of the NIC.                                                   *)
LEMMA NicPreserves ==
  ASSUME RdmaInv, Nic
  PROVE  RdmaInv'
<1>0. TypeOK /\ SliceInv
  BY DEF RdmaInv
<1>1. sq # <<>> /\ Complete
  BY DEF Nic, NicWrite, NicCas, NicRead, Oldest
<1>2. rtail' = IF Head(sq).op = "cas" THEN Head(sq).swap ELSE rtail
  BY <1>1, OldestSwap DEF Nic, NicWrite, NicCas, NicRead, Oldest, remote
<1>3. /\ sq' \in Seq(WorkRequest)
      /\ \A i \in 1..Len(sq') : sq'[i].op = "write" => Slots(sq'[i]) \subseteq Index
      /\ cq' \in Seq(Nat)
      /\ QueueInv' /\ SwapInv'
  BY <1>1, <1>2, CompletePreserves
<1>4. UNCHANGED <<retired, channel, putVars, getVars>>
  BY <1>1 DEF Complete
<1>5. rtail' \in Index
  <2>1. PICK f \in [1..(Len(sq') + 1) -> Index] : f[1] = rtail'
    BY <1>3 DEF SwapInv, TailsAhead
  <2>2. Len(sq') \in Nat
    BY <1>3
  <2>3. QED
    BY <2>1, <2>2
<1>6. /\ lhead' \in Index /\ ltail' = ltail /\ lbuf' = lbuf
      /\ rhead' = rhead /\ rbuf' \in [Index -> Nat]
  <2>1. CASE NicWrite
    BY <1>0, <2>1 DEF NicWrite, TypeOK, local
  <2>2. CASE NicCas
    BY <1>0, <2>2 DEF NicCas, TypeOK, local
  <2>3. CASE NicRead
    BY <1>0, <2>3 DEF NicRead, TypeOK, remote
  <2>4. QED
    BY <2>1, <2>2, <2>3 DEF Nic
<1>7. TypeOK'
  BY <1>0, <1>3, <1>4, <1>5, <1>6 DEF TypeOK, channel, putVars, getVars
<1>8. SliceInv'
  BY <1>0, <1>4 DEF SliceInv, putVars, getVars
<1>9. QED
  BY <1>3, <1>7, <1>8 DEF RdmaInv

(* The steps of get_bytes.                                                 *)
LEMMA GetPreserves ==
  ASSUME RdmaInv, ReceiverStep
  PROVE  RdmaInv'
<1>0. TypeOK /\ SliceInv /\ QueueInv /\ SwapInv
  BY DEF RdmaInv
<1>1. UNCHANGED <<local, rtail, rbuf, queuePair, channel, putVars>>
  BY DEF ReceiverStep, GetBytes, GetSlice, GetCopy, GetAdvance, remote
<1>2. QueueInv' /\ SwapInv'
  BY <1>0, <1>1 DEF QueueInv, SwapInv, TailsAhead, queuePair, channel
<1>3. ASSUME rhead' \in Index, getPc' \in {"idle", "try", "copy", "advance"},
             getLen' \in 0..MaxLen, readHead' \in Index, readLen' \in 0..Capacity,
             got' \in Seq(Nat),
             getPc' \in {"copy", "advance"} =>
               readLen' <= getLen' /\ readHead' + readLen' <= Capacity
      PROVE  RdmaInv'
  <2>1. TypeOK'
    BY <1>0, <1>1, <1>3 DEF TypeOK, local, queuePair, channel, putVars
  <2>2. SliceInv'
    BY <1>0, <1>1, <1>3 DEF SliceInv, putVars
  <2>3. QED
    BY <1>2, <2>1, <2>2 DEF RdmaInv
<1>4. ASSUME NEW n \in 1..MaxLen, GetBytes(n) PROVE RdmaInv'
  BY <1>0, <1>3, <1>4, RdmaAssumption DEF GetBytes, TypeOK, remote
<1>5. CASE GetSlice
  <2> DEFINE len == Min2(ContiguousReadLen(rtail, rhead), getLen)
  <2>0. rhead \in Index /\ rtail \in Index /\ getLen \in Nat /\ getLen \in 0..MaxLen
          /\ got \in Seq(Nat)
    BY <1>0, RdmaAssumption DEF TypeOK
  <2>1. len \in 0..getLen /\ len <= Capacity /\ rhead + len <= Capacity
    BY <2>0, ReadSliceInside
  <2>2. /\ getPc' = "copy" /\ readHead' = rhead /\ readLen' = len
        /\ getLen' = getLen /\ got' = got /\ rhead' = rhead
    BY <1>5 DEF GetSlice, remote
  <2> HIDE DEF len
  <2>3. readLen' \in 0..Capacity
    BY <2>0, <2>1, <2>2, CapacityAssumption
  <2>4. readLen' <= getLen' /\ readHead' + readLen' <= Capacity
    BY <2>0, <2>1, <2>2
  <2>5. QED
    BY <1>3, <2>0, <2>2, <2>3, <2>4
<1>6. CASE GetCopy
  <2>0. /\ readHead \in Index /\ readLen \in 0..Capacity /\ readLen <= getLen
        /\ readHead + readLen <= Capacity /\ rbuf \in [Index -> Nat]
        /\ got \in Seq(Nat)
    BY <1>0, <1>6 DEF GetCopy, TypeOK, SliceInv
  <2>1. [i \in 1..readLen |-> rbuf[readHead + i - 1]] \in Seq(Nat)
    <3>1. ASSUME NEW i \in 1..readLen PROVE rbuf[readHead + i - 1] \in Nat
      <4>1. readHead + i - 1 \in Index
        BY <2>0, CapacityAssumption DEF Index
      <4>2. QED
        BY <2>0, <4>1
    <3>2. readLen \in Nat
      BY <2>0, CapacityAssumption
    <3>3. QED
      BY <3>1, <3>2
  <2>2. got' \in Seq(Nat)
    BY <1>6, <2>0, <2>1 DEF GetCopy
  <2>3. QED
    BY <1>0, <1>3, <1>6, <2>0, <2>2 DEF GetCopy, TypeOK, remote
<1>7. CASE GetAdvance
  <2>0. /\ readHead \in Index /\ readLen \in 0..Capacity /\ readLen <= getLen
        /\ readHead + readLen <= Capacity /\ getLen \in 0..MaxLen
    BY <1>0, <1>7 DEF GetAdvance, TypeOK, SliceInv
  <2>1. rhead' \in Index
    BY <1>7, <2>0, AdvanceInIndex, CapacityAssumption DEF GetAdvance
  <2>2. getLen' \in 0..MaxLen
    BY <1>7, <2>0, RdmaAssumption, CapacityAssumption DEF GetAdvance
  <2>3. QED
    BY <1>0, <1>3, <1>7, <2>0, <2>1, <2>2 DEF GetAdvance, TypeOK
<1>8. QED
  BY <1>4, <1>5, <1>6, <1>7 DEF ReceiverStep

-----------------------------------------------------------------------------
(* Theorems                                                                *)

(* RdmaInv holds in every state of the RDMA channel.                       *)
THEOREM RdmaInvariance == Spec => []RdmaInv
<1>1. ASSUME RdmaInv, [Next]_vars PROVE RdmaInv'
  <2>1. CASE Next
    BY <1>1, <2>1, PutPreserves, FlushPreserves, PollPreserves, NicPreserves,
       GetPreserves DEF Next, SenderStep
  <2>2. CASE UNCHANGED vars
    BY <1>1, <2>2
       DEF vars, local, remote, queuePair, channel, putVars, getVars, RdmaInv,
           TypeOK, QueueInv, SliceInv, SwapInv, TailsAhead
  <2>3. QED
    BY <1>1, <2>1, <2>2
<1>2. QED
  BY <1>1, InitRdmaInv, PTL DEF Spec

(* Types: indices stay in the data area, and every write that is posted    *)
(* lies in the data area of both regions.                                  *)
THEOREM TypeCorrectness == Spec => []TypeOK
<1>1. RdmaInv => TypeOK
  BY DEF RdmaInv
<1>2. QED
  BY <1>1, RdmaInvariance, PTL

(* post_send never overflows the send queue, for every MAX_SEND_WR and     *)
(* every SIGNAL_INTERVAL of at least two that fits into it twice.          *)
THEOREM SendQueueNeverOverflows == Spec => []SendQueueBound
<1>1. RdmaInv => SendQueueBound
  BY QueueTypes, RdmaAssumption DEF RdmaInv, QueueInv, SendQueueBound
<1>2. QED
  BY <1>1, RdmaInvariance, PTL

(* The compare-and-swap that publishes the tail never fails.               *)
THEOREM TailSwapsSucceed == Spec => []TailSwapSucceeds
<1>1. RdmaInv => TailSwapSucceeds
  BY OldestSwap DEF TailSwapSucceeds, Oldest
<1>2. QED
  BY <1>1, RdmaInvariance, PTL

-----------------------------------------------------------------------------
(* The inductive invariant of the stream                                   *)

(* How far a slot is behind the sender's tail, and the byte that belongs   *)
(* there: the sender's tail is where byte next will go.                    *)
Behind(i) == NumBytesStored(i, ltail)
Byte(i) == next - Behind(i)

(* The indices follow each other around the ring: what the sender takes    *)
(* for free the receiver has read, and nothing is published that has not   *)
(* been sent.                                                              *)
OrderInv ==
  /\ Behind(lastTail) <= Behind(rtail) /\ Behind(rtail) <= Behind(rhead)
  /\ Behind(rhead) <= Behind(lhead)

(* The sender has every byte that the receiver may lack, and the receiver  *)
(* what lies between its head and its tail.                                *)
BytesInv ==
  /\ \A i \in Index : 1 <= Behind(i) /\ Behind(i) <= Behind(lhead) => lbuf[i] = Byte(i)
  /\ \A i \in Index : Behind(rtail) < Behind(i) /\ Behind(i) <= Behind(rhead)
                        => rbuf[i] = Byte(i)

(* Byte i has arrived, or one of the first k queued requests brings it.    *)
Arrives(i, k) ==
  rbuf[i] = Byte(i) \/ \E j \in 1..k : sq[j].op = "write" /\ i \in Slots(sq[j])

(* With the tails f ahead, every queued write carries bytes behind the     *)
(* tail that is valid when it is executed, and every compare-and-swap      *)
(* publishes bytes that have arrived by then.                              *)
InFlight(f) ==
  /\ \A i, j \in 1..(Len(sq) + 1) : i <= j => Behind(f[j]) <= Behind(f[i])
  /\ \A k \in 1..Len(sq) : sq[k].op = "write" =>
       \A i \in Slots(sq[k]) : 1 <= Behind(i) /\ Behind(i) <= Behind(f[k])
  /\ \A k \in 1..Len(sq) : sq[k].op = "cas" =>
       \A i \in Index : Behind(f[k + 1]) < Behind(i) /\ Behind(i) <= Behind(f[k])
                          => Arrives(i, k - 1)
FlightInv == \E f \in [1..(Len(sq) + 1) -> Index] : TailsAhead(f) /\ InFlight(f)

(* What flush_out has posted before the tail.                              *)
FlushInv ==
  /\ putPc = "second" =>
       ltail < lastTail /\ \A i \in Index : i >= lastTail => Arrives(i, Len(sq))
  /\ putPc = "cas" =>
       \A i \in Index : 1 <= Behind(i) /\ Behind(i) <= Behind(lastTail)
                          => Arrives(i, Len(sq))

(* The receiver has read the stream up to its head, or up to the end of    *)
(* the slice by which it will advance; the slice is of published bytes.    *)
GotInv ==
  /\ \A k \in 1..Len(got) : got[k] = k
  /\ Len(got) = Covered(rhead) + (IF getPc = "advance" THEN readLen ELSE 0)
  /\ getPc \in {"copy", "advance"} =>
       readHead = rhead /\ readLen <= Behind(rhead) - Behind(rtail)

StreamInv == OrderInv /\ BytesInv /\ FlightInv /\ FlushInv /\ GotInv

(* num_bytes_stored of two indices.                                        *)
LEMMA StoredRange ==
  ASSUME NEW h \in Index, NEW t \in Index
  PROVE  NumBytesStored(h, t) \in 0..(Capacity - 1) /\ NumBytesStored(h, t) \in Nat
BY CapacityAssumption DEF NumBytesStored, Index

(* Distances are less than the capacity, and tell slots apart.             *)
LEMMA BehindFacts ==
  ASSUME TypeOK
  PROVE  /\ \A i \in Index : Behind(i) \in 0..(Capacity - 1)
         /\ Behind(ltail) = 0
         /\ \A i \in Index : Behind(i) = 0 => i = ltail
         /\ next \in Nat \ {0} /\ Capacity \in Nat \ {0, 1}
<1>1. ltail \in Index /\ next \in Nat \ {0} /\ Capacity \in Nat \ {0, 1}
  BY CapacityAssumption, RdmaAssumption DEF TypeOK
<1>2. ASSUME NEW i \in Index
      PROVE  Behind(i) \in 0..(Capacity - 1) /\ (Behind(i) = 0 => i = ltail)
  BY <1>1 DEF Behind, NumBytesStored, Index
<1>3. Behind(ltail) = 0
  BY <1>1 DEF Behind, NumBytesStored, Index
<1> QED BY <1>1, <1>2, <1>3

(* An index is moved by no more than what is left of the data area.        *)
LEMMA AdvanceOnce ==
  ASSUME NEW i \in Index, NEW n \in Nat, i + n <= Capacity
  PROVE  Advance(i, n) = IF i + n = Capacity THEN 0 ELSE i + n
<1>1. Capacity \in Nat \ {0} /\ i \in 0..(Capacity - 1)
  BY CapacityAssumption DEF Index
<1>2. CASE i + n = Capacity
  <2>1. Capacity % Capacity = 0
    BY <1>1
  <2> QED BY <1>2, <2>1 DEF Advance
<1>3. CASE i + n # Capacity
  <2>1. i + n \in 0..(Capacity - 1)
    BY <1>1, <1>3
  <2>2. (i + n) % Capacity = i + n
    BY <1>1, <2>1
  <2> QED BY <1>3, <2>2 DEF Advance
<1> QED BY <1>2, <1>3

(* How far the slots of a slice are behind, and the index after it.        *)
LEMMA SliceBehind ==
  ASSUME TypeOK, NEW h \in Index, NEW n \in Nat, n <= Behind(h), h + n <= Capacity
  PROVE  /\ Behind(Advance(h, n)) = Behind(h) - n /\ Advance(h, n) \in Index
         /\ \A m \in 0..(n - 1) : h + m \in Index /\ Behind(h + m) = Behind(h) - m
<1>1. /\ Capacity \in Nat /\ Capacity >= 2 /\ h \in 0..(Capacity - 1)
      /\ ltail \in 0..(Capacity - 1)
  BY CapacityAssumption DEF TypeOK, Index
<1>2. Advance(h, n) = IF h + n = Capacity THEN 0 ELSE h + n
  BY AdvanceOnce
<1> QED BY <1>1, <1>2 DEF Behind, NumBytesStored, Index

(* What put_bytes may write is what lies behind no index that matters.     *)
LEMMA RoomBehind ==
  ASSUME TypeOK, NEW n \in Nat, n <= ContiguousWriteLen(lhead, ltail)
  PROVE  Behind(lhead) + n <= Capacity - 1 /\ ltail + n <= Capacity
<1>1. /\ Capacity \in Nat /\ Capacity >= 2 /\ lhead \in 0..(Capacity - 1)
      /\ ltail \in 0..(Capacity - 1)
  BY CapacityAssumption DEF TypeOK, Index
<1> QED BY <1>1 DEF Behind, NumBytesStored, ContiguousWriteLen

(* The sender's tail moves: everything within reach is that much further   *)
(* behind, and its bytes stay what they are.  The slots passed over get    *)
(* the next bytes.                                                         *)
LEMMA TailMoves ==
  ASSUME TypeOK, NEW n \in Nat, Behind(lhead) + n <= Capacity - 1,
         ltail + n <= Capacity, ltail' = Advance(ltail, n), next' = next + n
  PROVE  /\ \A i \in Index : Behind(i) <= Behind(lhead) =>
              Behind(i)' = Behind(i) + n /\ Byte(i)' = Byte(i)
         /\ \A i \in Index : i \in ltail..(ltail + n - 1) =>
              /\ Behind(i) = 0 \/ Behind(lhead) + 1 < Behind(i)
              /\ next + (i - ltail) = Byte(i)'
         /\ \A i \in Index : Behind(i)' <= Behind(lhead) + n /\ 1 <= Behind(i)' =>
              i \in ltail..(ltail + n - 1) \/ Behind(i)' = Behind(i) + n
<1>1. /\ Capacity \in Nat /\ Capacity >= 2 /\ lhead \in 0..(Capacity - 1)
      /\ ltail \in 0..(Capacity - 1) /\ next \in Nat
  <2>1. lhead \in Index /\ ltail \in Index
    BY DEF TypeOK
  <2>2. next \in Nat
    BY BehindFacts
  <2> QED BY ONLY <2>1, <2>2, CapacityAssumption DEF Index
<1>2. ltail' = IF ltail + n = Capacity THEN 0 ELSE ltail + n
  BY <1>1, AdvanceOnce DEF Index
<1>3. ASSUME NEW i \in Index
      PROVE  Behind(i)' = IF Behind(i) + n < Capacity THEN Behind(i) + n
                          ELSE Behind(i) + n - Capacity
  BY <1>1, <1>2 DEF Behind, NumBytesStored, Index
<1>4. ASSUME NEW i \in Index
      PROVE  /\ Behind(i) \in 0..(Capacity - 1) /\ Behind(lhead) \in 0..(Capacity - 1)
             /\ i \in ltail..(ltail + n - 1) <=> Behind(i)' \in 1..n
             /\ i \in ltail..(ltail + n - 1) =>
                  (Behind(i) = 0 \/ Behind(i) = Capacity - (i - ltail))
                  /\ Behind(i)' = n - (i - ltail)
  BY <1>1, <1>2 DEF Behind, NumBytesStored, Index
<1> QED BY <1>1, <1>3, <1>4 DEF Byte

(* A step of the sender that touches no byte, no index and no request.     *)
LEMMA StreamSame ==
  ASSUME StreamInv, UNCHANGED <<local, remote, sq, lastTail, next, getVars>>,
         putPc' = putPc \/ putPc' \notin {"second", "cas"} \/ FlushInv'
  PROVE  StreamInv'
<1>1. /\ lhead' = lhead /\ ltail' = ltail /\ lbuf' = lbuf /\ rhead' = rhead
      /\ rtail' = rtail /\ rbuf' = rbuf /\ sq' = sq /\ lastTail' = lastTail
      /\ next' = next /\ getPc' = getPc /\ readHead' = readHead /\ readLen' = readLen
      /\ got' = got
  BY DEF local, remote, getVars
<1>2. OrderInv' /\ BytesInv'
  BY <1>1 DEF StreamInv, OrderInv, BytesInv, Behind, Byte
<1>3. FlightInv'
  <2>1. PICK f \in [1..(Len(sq) + 1) -> Index] : TailsAhead(f) /\ InFlight(f)
    BY DEF StreamInv, FlightInv
  <2>2. f \in [1..(Len(sq') + 1) -> Index] /\ TailsAhead(f)' /\ InFlight(f)'
    BY <1>1, <2>1 DEF TailsAhead, InFlight, Arrives, Behind, Byte
  <2> QED BY <2>2 DEF FlightInv
<1>4. FlushInv'
  <2>1. CASE putPc' = putPc
    BY <1>1, <2>1 DEF StreamInv, FlushInv, Arrives, Behind, Byte
  <2>2. CASE putPc' \notin {"second", "cas"}
    BY <2>2 DEF FlushInv
  <2> QED BY <2>1, <2>2
<1>5. GotInv'
  BY <1>1 DEF StreamInv, GotInv, Covered, Behind
<1> QED BY <1>2, <1>3, <1>4, <1>5 DEF StreamInv

(* put_bytes begins or waits, flush begins or ends, or poll_batch polls.   *)
LEMMA QuietStreams ==
  ASSUME RdmaInv, StreamInv,
         \/ \E n \in 1..MaxLen : PutBytes(n)
         \/ Flush \/ PutFull \/ FlushNothing \/ FlushReturn \/ PollBatch
  PROVE  StreamInv'
<1>1. UNCHANGED <<local, remote, sq, lastTail, next, getVars>>
  BY DEF PutBytes, Flush, PutFull, FlushNothing, FlushReturn, PollBatch, queuePair,
         channel, putVars
<1>2. CASE ~FlushNothing
  <2>1. putPc' = putPc \/ putPc' \notin {"second", "cas"}
    BY <1>2 DEF PutBytes, Flush, PutFull, FlushReturn, PollBatch, putVars, Sender
  <2> QED BY <1>1, <2>1, StreamSame
<1>3. CASE FlushNothing
  <2>1. lastTail = ltail /\ putPc' = "cas" /\ ltail' = ltail /\ lastTail' = lastTail
    BY <1>3 DEF FlushNothing, Sender, local, channel
  <2>2. Behind(lastTail)' = 0
    <3>1. Behind(ltail) = 0
      BY BehindFacts DEF RdmaInv
    <3> QED BY <2>1, <3>1 DEF Behind
  <2>3. \A i \in Index : Behind(i)' \in Int
    <3>1. \A i \in Index : Behind(i) \in 0..(Capacity - 1)
      BY BehindFacts DEF RdmaInv
    <3> QED BY <2>1, <3>1 DEF Behind
  <2>4. FlushInv'
    BY <2>1, <2>2, <2>3 DEF FlushInv
  <2> QED BY <1>1, <2>4, StreamSame
<1> QED BY <1>2, <1>3

(* Nothing that matters is further behind than the sender's head.          *)
LEMMA WithinReach ==
  ASSUME RdmaInv, StreamInv, NEW f \in [1..(Len(sq) + 1) -> Index],
         TailsAhead(f), InFlight(f)
  PROVE  /\ \A k \in 1..(Len(sq) + 1) : f[k] \in Index /\ Behind(f[k]) <= Behind(rtail)
                                        /\ Behind(f[k]) <= Behind(lhead)
         /\ \A k \in 1..Len(sq) : sq[k].op = "write" =>
              \A i \in Slots(sq[k]) : i \in Index /\ Behind(i) <= Behind(lhead)
         /\ Behind(rtail) <= Behind(lhead) /\ Behind(rhead) <= Behind(lhead)
         /\ Behind(lastTail) <= Behind(lhead)
         /\ lhead \in Index /\ rhead \in Index /\ rtail \in Index /\ lastTail \in Index
<1>1. TypeOK /\ OrderInv
  BY DEF RdmaInv, StreamInv
<1>2. lhead \in Index /\ rhead \in Index /\ rtail \in Index /\ lastTail \in Index
  BY <1>1 DEF TypeOK
<1>3. \A i \in Index : Behind(i) \in Int
  BY <1>1, BehindFacts
<1>4. /\ Behind(rtail) <= Behind(lhead) /\ Behind(rhead) <= Behind(lhead)
      /\ Behind(lastTail) <= Behind(lhead)
  BY <1>1, <1>2, <1>3 DEF OrderInv
<1>5. Len(sq) \in Nat
  BY <1>1, QueueTypes
<1>6. ASSUME NEW k \in 1..(Len(sq) + 1)
      PROVE  /\ f[k] \in Index /\ Behind(f[k]) <= Behind(rtail)
             /\ Behind(f[k]) <= Behind(lhead)
  <2>1. 1 \in 1..(Len(sq) + 1) /\ 1 <= k
    BY <1>5
  <2>2. Behind(f[k]) <= Behind(f[1]) /\ f[1] = rtail
    BY <2>1 DEF InFlight, TailsAhead
  <2>3. f[k] \in Index
    OBVIOUS
  <2> QED BY <1>2, <1>3, <1>4, <2>2, <2>3
<1>7. ASSUME NEW k \in 1..Len(sq), sq[k].op = "write", NEW i \in Slots(sq[k])
      PROVE  i \in Index /\ Behind(i) <= Behind(lhead)
  <2>1. k \in 1..(Len(sq) + 1)
    BY <1>5
  <2>2. Behind(i) <= Behind(f[k])
    BY <1>7 DEF InFlight
  <2>3. i \in Index
    BY <1>1, <1>7, QueueTypes
  <2> QED BY <1>2, <1>3, <1>6, <2>1, <2>2, <2>3
<1> QED BY <1>2, <1>4, <1>6, <1>7

(* The facts of a turn of put_bytes.                                       *)
LEMMA TurnFacts ==
  ASSUME RdmaInv, StreamInv, PutTurn
  PROVE  \E n \in Nat :
           /\ Behind(lhead) + n <= Capacity - 1 /\ ltail + n <= Capacity
           /\ ltail' = Advance(ltail, n) /\ next' = next + n
           /\ lbuf' = [i \in Index |-> IF i \in ltail..(ltail + n - 1)
                                       THEN next + (i - ltail) ELSE lbuf[i]]
<1> DEFINE n == Min2(ContiguousWriteLen(lhead, ltail), putLen)
<1>1. TypeOK
  BY DEF RdmaInv
<1>2. lhead \in Index /\ ltail \in Index /\ putLen \in Nat
  BY <1>1, RdmaAssumption DEF TypeOK
<1>3. n \in Nat
  BY <1>2, WriteSliceInside
<1>4. n <= ContiguousWriteLen(lhead, ltail)
  BY <1>2, CapacityAssumption DEF Min2, ContiguousWriteLen, Index
<1>5. Behind(lhead) + n <= Capacity - 1 /\ ltail + n <= Capacity
  <2> HIDE DEF n
  <2> QED BY <1>1, <1>3, <1>4, RoomBehind
<1>6. /\ ltail' = Advance(ltail, n) /\ next' = next + n
      /\ lbuf' = [i \in Index |-> IF i \in ltail..(ltail + n - 1)
                                  THEN next + (i - ltail) ELSE lbuf[i]]
  BY DEF PutTurn
<1> HIDE DEF n
<1> WITNESS n \in Nat
<1> QED BY <1>5, <1>6

(* One turn of put_bytes.                                                  *)
LEMMA PutTurnStreams ==
  ASSUME RdmaInv, StreamInv, PutTurn
  PROVE  StreamInv'
<1>1. PICK n \in Nat :
        /\ Behind(lhead) + n <= Capacity - 1 /\ ltail + n <= Capacity
        /\ ltail' = Advance(ltail, n) /\ next' = next + n
        /\ lbuf' = [i \in Index |-> IF i \in ltail..(ltail + n - 1)
                                    THEN next + (i - ltail) ELSE lbuf[i]]
  BY TurnFacts
<1>2. /\ lhead' = lhead /\ rhead' = rhead /\ rtail' = rtail /\ rbuf' = rbuf /\ sq' = sq
      /\ lastTail' = lastTail /\ getPc' = getPc /\ readHead' = readHead
      /\ readLen' = readLen /\ got' = got /\ putPc' \notin {"second", "cas"}
  BY DEF PutTurn, Sender, remote, queuePair, channel, getVars
<1>3. TypeOK /\ OrderInv /\ BytesInv /\ GotInv
  BY DEF RdmaInv, StreamInv
<1>4. PICK f \in [1..(Len(sq) + 1) -> Index] : TailsAhead(f) /\ InFlight(f)
  BY DEF StreamInv, FlightInv
<1>5. /\ \A k \in 1..(Len(sq) + 1) : f[k] \in Index /\ Behind(f[k]) <= Behind(rtail)
                                     /\ Behind(f[k]) <= Behind(lhead)
      /\ \A k \in 1..Len(sq) : sq[k].op = "write" =>
           \A i \in Slots(sq[k]) : i \in Index /\ Behind(i) <= Behind(lhead)
      /\ Behind(rtail) <= Behind(lhead) /\ Behind(rhead) <= Behind(lhead)
      /\ Behind(lastTail) <= Behind(lhead)
      /\ lhead \in Index /\ rhead \in Index /\ rtail \in Index /\ lastTail \in Index
  BY <1>4, WithinReach
<1>6. /\ \A i \in Index : Behind(i) <= Behind(lhead) =>
           Behind(i)' = Behind(i) + n /\ Byte(i)' = Byte(i)
      /\ \A i \in Index : i \in ltail..(ltail + n - 1) =>
           /\ Behind(i) = 0 \/ Behind(lhead) + 1 < Behind(i)
           /\ next + (i - ltail) = Byte(i)'
      /\ \A i \in Index : Behind(i)' <= Behind(lhead) + n /\ 1 <= Behind(i)' =>
           i \in ltail..(ltail + n - 1) \/ Behind(i)' = Behind(i) + n
  BY <1>1, <1>3, TailMoves
<1>7. \A i \in Index : Behind(i) \in Nat
  BY <1>3, BehindFacts
<1>8. TypeOK'
  BY PutPreserves DEF RdmaInv
<1>9. \A i \in Index : Behind(i)' \in Nat
  <2>1. \A i \in Index : NumBytesStored(i, ltail') \in Nat
    <3>1. ltail' \in Index
      BY <1>8 DEF TypeOK
    <3> QED BY <3>1, StoredRange
  <2> QED BY <2>1 DEF Behind
<1>10. ASSUME NEW i \in Index
       PROVE  i \in ltail..(ltail + n - 1) => lbuf'[i] = Byte(i)'
  BY <1>1, <1>6, <1>10
<1>11. ASSUME NEW i \in Index
       PROVE  i \notin ltail..(ltail + n - 1) => lbuf'[i] = lbuf[i]
  BY <1>1
<1>12. /\ Behind(lhead)' = Behind(lhead) + n /\ Behind(rhead)' = Behind(rhead) + n
       /\ Behind(rtail)' = Behind(rtail) + n /\ Behind(lastTail)' = Behind(lastTail) + n
  <2>1. /\ Behind(lhead) <= Behind(lhead)
    BY <1>5, <1>7
  <2>2. ASSUME NEW i \in Index, Behind(i) <= Behind(lhead)
        PROVE  NumBytesStored(i, ltail') = Behind(i) + n
    BY <1>6, <2>2 DEF Behind
  <2> QED BY <1>2, <1>5, <2>1, <2>2 DEF Behind
<1>13. OrderInv'
  BY <1>3, <1>5, <1>7, <1>12 DEF OrderInv
<1>14. BytesInv'
  <2>1. ASSUME NEW i \in Index, 1 <= Behind(i)', Behind(i)' <= Behind(lhead)'
        PROVE  lbuf'[i] = Byte(i)'
    <3>1. CASE i \in ltail..(ltail + n - 1)
      BY <1>10, <3>1
    <3>2. CASE i \notin ltail..(ltail + n - 1)
      <4>1. Behind(i)' = Behind(i) + n
        BY <1>6, <1>12, <2>1, <3>2
      <4>2. Behind(i) <= Behind(lhead)
        BY <1>5, <1>7, <1>12, <2>1, <4>1
      <4>3. i # ltail \/ n = 0
        <5>1. ltail \in Int
          BY <1>3, CapacityAssumption DEF TypeOK, Index
        <5> QED BY <3>2, <5>1
      <4>4. 1 <= Behind(i)
        <5>1. Behind(i) # 0
          BY <1>3, <1>7, <2>1, <4>1, <4>3, BehindFacts
        <5> QED BY <1>7, <5>1
      <4>5. lbuf[i] = Byte(i)
        BY <1>3, <4>2, <4>4 DEF BytesInv
      <4> QED BY <1>6, <1>11, <3>2, <4>2, <4>5
    <3> QED BY <3>1, <3>2
  <2>2. ASSUME NEW i \in Index, Behind(rtail)' < Behind(i)', Behind(i)' <= Behind(rhead)'
        PROVE  rbuf'[i] = Byte(i)'
    <3>1. 1 <= Behind(i)' /\ Behind(i)' <= Behind(lhead) + n
      BY <1>5, <1>7, <1>9, <1>12, <2>2
    <3>2. i \notin ltail..(ltail + n - 1)
      <4> SUFFICES ASSUME i \in ltail..(ltail + n - 1) PROVE FALSE
        OBVIOUS
      <4>1. Byte(i)' = next + (i - ltail) /\ Byte(i)' = next' - Behind(i)'
        BY <1>6 DEF Byte
      <4>2. next \in Int /\ ltail \in Int /\ i \in Int
        BY <1>3, CapacityAssumption, RdmaAssumption DEF TypeOK, Index
      <4>3. Behind(i)' <= n
        <5>1. next' = next + n /\ Behind(i)' \in Nat /\ i >= ltail
          BY <1>1, <1>9, <4>2
        <5> QED BY <4>1, <4>2, <5>1
      <4>4. /\ Behind(rtail) \in Nat /\ Behind(i)' \in Nat
            /\ Behind(rtail)' = Behind(rtail) + n
        BY <1>5, <1>7, <1>9, <1>12
      <4>5. Behind(rtail)' < Behind(i)'
        BY <2>2
      <4> QED BY <4>3, <4>4, <4>5
    <3>3. Behind(i)' = Behind(i) + n
      BY <1>6, <3>1, <3>2
    <3>4. /\ Behind(rtail) < Behind(i) /\ Behind(i) <= Behind(rhead)
          /\ Behind(i) <= Behind(lhead)
      BY <1>5, <1>7, <1>12, <2>2, <3>3
    <3>5. rbuf[i] = Byte(i)
      BY <1>3, <3>4 DEF BytesInv
    <3> QED BY <1>2, <1>6, <3>4, <3>5
  <2> QED BY <2>1, <2>2 DEF BytesInv
<1>15. FlightInv'
  <2>1. ASSUME NEW i \in Index, NEW a \in Index, NEW b \in Index,
               Behind(a) <= Behind(lhead), Behind(b) <= Behind(lhead),
               Behind(a)' < Behind(i)', Behind(i)' <= Behind(b)'
        PROVE  /\ Behind(a) < Behind(i) /\ Behind(i) <= Behind(b)
               /\ Byte(i)' = Byte(i)
    <3>1. Behind(a)' = Behind(a) + n /\ Behind(b)' = Behind(b) + n
      BY <1>6, <2>1
    <3>2. 1 <= Behind(i)' /\ Behind(i)' <= Behind(lhead) + n
      <4>1. /\ Behind(b) \in Nat /\ Behind(lhead) \in Nat
            /\ Behind(a)' \in Nat /\ Behind(i)' \in Nat
        BY <1>5, <1>7, <1>9
      <4>2. Behind(a)' < Behind(i)' /\ Behind(i)' <= Behind(b) + n
        BY <2>1, <3>1
      <4> QED BY <2>1, <4>1, <4>2
    <3>3. i \notin ltail..(ltail + n - 1)
      <4> SUFFICES ASSUME i \in ltail..(ltail + n - 1) PROVE FALSE
        OBVIOUS
      <4>1. Byte(i)' = next + (i - ltail) /\ Byte(i)' = next' - Behind(i)'
        BY <1>6 DEF Byte
      <4>2. next \in Int /\ ltail \in Int /\ i \in Int
        BY <1>3, CapacityAssumption, RdmaAssumption DEF TypeOK, Index
      <4>3. Behind(i)' <= n
        <5>1. next' = next + n /\ Behind(i)' \in Nat /\ i >= ltail
          BY <1>1, <1>9, <4>2
        <5> QED BY <4>1, <4>2, <5>1
      <4> QED BY <1>7, <1>9, <2>1, <3>1, <4>3
    <3>4. Behind(i)' = Behind(i) + n
      BY <1>6, <3>2, <3>3
    <3>5. Behind(a) < Behind(i) /\ Behind(i) <= Behind(b) /\ Behind(i) <= Behind(lhead)
      BY <1>5, <1>7, <2>1, <3>1, <3>4
    <3> QED BY <1>6, <3>5
  <2>2. TailsAhead(f)'
    BY <1>2, <1>4 DEF TailsAhead
  <2>3. ASSUME NEW i \in 1..(Len(sq) + 1), NEW j \in 1..(Len(sq) + 1), i <= j
        PROVE  Behind(f[j])' <= Behind(f[i])'
    <3>1. Behind(f[j]) <= Behind(f[i])
      BY <1>4, <2>3 DEF InFlight
    <3>2. Behind(f[j])' = Behind(f[j]) + n /\ Behind(f[i])' = Behind(f[i]) + n
      BY <1>5, <1>6
    <3> QED BY <1>5, <1>7, <3>1, <3>2
  <2>4. ASSUME NEW k \in 1..Len(sq), sq[k].op = "write", NEW i \in Slots(sq[k])
        PROVE  1 <= Behind(i)' /\ Behind(i)' <= Behind(f[k])'
    <3>1. k \in 1..(Len(sq) + 1)
      BY <1>3, QueueTypes
    <3>2. 1 <= Behind(i) /\ Behind(i) <= Behind(f[k])
      BY <1>4, <2>4 DEF InFlight
    <3>3. Behind(i)' = Behind(i) + n /\ Behind(f[k])' = Behind(f[k]) + n
      BY <1>5, <1>6, <2>4, <3>1
    <3>4. i \in Index /\ f[k] \in Index
      BY <1>5, <2>4, <3>1
    <3> QED BY <1>7, <3>2, <3>3, <3>4
  <2>5. ASSUME NEW k \in 1..Len(sq), sq[k].op = "cas", NEW i \in Index,
               Behind(f[k + 1])' < Behind(i)', Behind(i)' <= Behind(f[k])'
        PROVE  Arrives(i, k - 1)'
    <3>1. k \in 1..(Len(sq) + 1) /\ k + 1 \in 1..(Len(sq) + 1)
      BY <1>3, QueueTypes
    <3>2. /\ Behind(f[k + 1]) < Behind(i) /\ Behind(i) <= Behind(f[k])
          /\ Byte(i)' = Byte(i)
      BY <1>5, <2>1, <2>5, <3>1
    <3>3. Arrives(i, k - 1)
      BY <1>4, <2>5, <3>2 DEF InFlight
    <3> QED BY <1>2, <3>2, <3>3 DEF Arrives
  <2>6. InFlight(f)'
    BY <1>2, <2>3, <2>4, <2>5 DEF InFlight
  <2>7. f \in [1..(Len(sq') + 1) -> Index]
    BY <1>2
  <2> QED BY <2>2, <2>6, <2>7 DEF FlightInv
<1>16. FlushInv'
  BY <1>2 DEF FlushInv
<1>17. GotInv'
  <2>1. next \in Int
    BY <1>3, RdmaAssumption DEF TypeOK
  <2>2. Covered(rhead)' = Covered(rhead)
    <3>1. Covered(rhead) = next - 1 - Behind(rhead)
      BY DEF Covered, Behind
    <3>2. Covered(rhead)' = next' - 1 - Behind(rhead)'
      BY DEF Covered, Behind
    <3> QED BY <1>1, <1>5, <1>7, <1>12, <2>1, <3>1, <3>2
  <2>3. Behind(rhead)' - Behind(rtail)' = Behind(rhead) - Behind(rtail)
    BY <1>5, <1>7, <1>12
  <2> QED BY <1>2, <1>3, <2>2, <2>3 DEF GotInv
<1> QED BY <1>13, <1>14, <1>15, <1>16, <1>17 DEF StreamInv

(* A request is posted: what arrives, arrives after it too, and so does    *)
(* what it carries.                                                        *)
LEMMA ArrivesPosted ==
  ASSUME TypeOK, NEW wr \in WorkRequest, sq' = Append(sq, wr),
         UNCHANGED <<local, remote, next>>
  PROVE  /\ Len(sq) \in Nat /\ Len(sq') = Len(sq) + 1 /\ sq'[Len(sq) + 1] = wr
         /\ \A i \in 1..Len(sq) : sq'[i] = sq[i]
         /\ \A i \in Index : Behind(i)' = Behind(i) /\ Byte(i)' = Byte(i)
         /\ \A i \in Index, k \in 0..Len(sq) : Arrives(i, k) => Arrives(i, k)'
         /\ \A i \in Index : Arrives(i, Len(sq)) => Arrives(i, Len(sq))'
         /\ \A i \in Index : wr.op = "write" /\ i \in Slots(wr) => Arrives(i, Len(sq))'
<1>1. /\ Len(sq) \in Nat /\ Len(sq') = Len(sq) + 1 /\ sq'[Len(sq) + 1] = wr
      /\ \A i \in 1..Len(sq) : sq'[i] = sq[i]
  BY QueueTypes, Appended
<1>2. ltail' = ltail /\ rbuf' = rbuf /\ next' = next
  BY DEF local, remote
<1>3. \A i \in Index : Behind(i)' = Behind(i) /\ Byte(i)' = Byte(i)
  BY <1>2 DEF Behind, Byte
<1>4. ASSUME NEW i \in Index, NEW k \in 0..Len(sq), Arrives(i, k)
      PROVE  Arrives(i, k)' /\ Arrives(i, Len(sq))'
  <2>1. CASE rbuf[i] = Byte(i)
    BY <1>2, <1>3, <2>1 DEF Arrives
  <2>2. CASE \E j \in 1..k : sq[j].op = "write" /\ i \in Slots(sq[j])
    <3>1. PICK j \in 1..k : sq[j].op = "write" /\ i \in Slots(sq[j])
      BY <2>2
    <3>2. j \in 1..Len(sq) /\ j \in 1..Len(sq') /\ sq'[j] = sq[j]
      BY <1>1, <3>1
    <3> QED BY <3>1, <3>2 DEF Arrives
  <2> QED BY <1>4, <2>1, <2>2 DEF Arrives
<1>5. \A i \in Index : wr.op = "write" /\ i \in Slots(wr) => Arrives(i, Len(sq))'
  <2>1. Len(sq) + 1 \in 1..Len(sq')
    BY <1>1
  <2> QED BY <1>1, <2>1 DEF Arrives
<1>6. \A i \in Index : Arrives(i, Len(sq)) => Arrives(i, Len(sq))'
  <2>1. Len(sq) \in 0..Len(sq)
    BY <1>1
  <2> QED BY <1>4, <2>1
<1> QED BY <1>1, <1>3, <1>4, <1>5, <1>6

(* A posted write carries bytes that are not published yet, a posted tail  *)
(* publishes what has arrived when it is executed.                         *)
LEMMA PostStreams ==
  ASSUME RdmaInv, StreamInv, NEW wr \in WorkRequest, sq' = Append(sq, wr),
         UNCHANGED <<local, remote, next, getVars>>,
         NEW c \in Index, lastTail' = c, Behind(c) <= Behind(lastTail),
         IF wr.op = "cas" THEN wr.compare = lastTail /\ wr.swap = c ELSE c = lastTail,
         wr.op = "write" =>
           \A i \in Slots(wr) :
             i \in Index /\ 1 <= Behind(i) /\ Behind(i) <= Behind(lastTail),
         wr.op = "cas" =>
           \A i \in Index : Behind(c) < Behind(i) /\ Behind(i) <= Behind(lastTail)
                              => Arrives(i, Len(sq)),
         FlushInv'
  PROVE  StreamInv'
<1>1. TypeOK /\ OrderInv /\ BytesInv /\ GotInv
  BY DEF RdmaInv, StreamInv
<1>2. /\ lhead' = lhead /\ ltail' = ltail /\ lbuf' = lbuf /\ rhead' = rhead
      /\ rtail' = rtail /\ rbuf' = rbuf
      /\ next' = next /\ getPc' = getPc /\ readHead' = readHead /\ readLen' = readLen
      /\ got' = got
  BY DEF local, remote, getVars
<1>3. /\ Len(sq) \in Nat /\ Len(sq') = Len(sq) + 1 /\ sq'[Len(sq) + 1] = wr
      /\ \A i \in 1..Len(sq) : sq'[i] = sq[i]
      /\ \A i \in Index : Behind(i)' = Behind(i) /\ Byte(i)' = Byte(i)
      /\ \A i \in Index, k \in 0..Len(sq) : Arrives(i, k) => Arrives(i, k)'
  BY <1>1, ArrivesPosted
<1>4. PICK f \in [1..(Len(sq) + 1) -> Index] : TailsAhead(f) /\ InFlight(f)
  BY DEF StreamInv, FlightInv
<1>5. PICK N \in Nat : N = Len(sq) + 1
  BY <1>3
<1>5a. PICK g \in [1..(N + 1) -> Index] : g[N + 1] = c /\ \A i \in 1..N : g[i] = f[i]
  <2> DEFINE h == [i \in 1..(N + 1) |-> IF i = N + 1 THEN c ELSE f[i]]
  <2>1. \A i \in 1..(N + 1) : i # N + 1 => i \in 1..(Len(sq) + 1)
    BY <1>5
  <2>2. h \in [1..(N + 1) -> Index] /\ h[N + 1] = c /\ \A i \in 1..N : h[i] = f[i]
    BY <1>5, <2>1
  <2> QED BY <2>2
<1>5b. /\ g \in [1..(Len(sq') + 1) -> Index] /\ g[N + 1] = c
       /\ \A i \in 1..N : g[i] = f[i] /\ f[i] \in Index /\ g[i] \in Index
       /\ \A i \in 1..(N + 1) : g[i] \in Index
  BY <1>3, <1>5, <1>5a
<1>6. /\ f[1] = rtail /\ f[N] = lastTail /\ N \in 1..N /\ N \in Nat
  BY <1>3, <1>4, <1>5 DEF TailsAhead
<1>7. \A i \in Index : Behind(i) \in Int
  BY <1>1, BehindFacts
<1>8. TailsAhead(g)'
  <2>1. g[1] = rtail' /\ g[Len(sq') + 1] = lastTail'
    BY <1>2, <1>3, <1>5, <1>5b, <1>6
  <2>2. ASSUME NEW i \in 1..Len(sq')
        PROVE  IF sq'[i].op = "cas"
               THEN g[i] = sq'[i].compare /\ g[i + 1] = sq'[i].swap
               ELSE g[i + 1] = g[i]
    <3>1. CASE i = N
      BY <1>3, <1>5, <1>5b, <1>6, <3>1
    <3>2. CASE i \in 1..Len(sq)
      <4>1. i \in 1..N /\ i + 1 \in 1..N /\ sq'[i] = sq[i]
        BY <1>3, <1>5, <3>2
      <4>2. IF sq[i].op = "cas" THEN f[i] = sq[i].compare /\ f[i + 1] = sq[i].swap
                                ELSE f[i + 1] = f[i]
        BY <1>4, <3>2 DEF TailsAhead
      <4> QED BY <1>5, <1>5b, <4>1, <4>2
    <3> QED BY <1>3, <1>5, <3>1, <3>2
  <2> QED BY <2>1, <2>2 DEF TailsAhead
<1>9. InFlight(g)'
  <2>1. ASSUME NEW i \in 1..(Len(sq') + 1), NEW j \in 1..(Len(sq') + 1), i <= j
        PROVE  Behind(g[j])' <= Behind(g[i])'
    <3>1. g[i] \in Index /\ g[j] \in Index
      BY <1>3, <1>5, <1>5b
    <3>2. Behind(g[j]) <= Behind(g[i])
      <4>1. CASE j \in 1..N
        <5>1. i \in 1..N
          BY <1>6, <2>1, <4>1
        <5> QED BY <1>4, <1>5, <1>5b, <2>1, <4>1, <5>1 DEF InFlight
      <4>2. CASE j = N + 1 /\ i = N + 1
        BY <1>7, <3>1, <4>2
      <4>3. CASE j = N + 1 /\ i \in 1..N
        <5>1. i <= N
          BY <1>6, <4>3
        <5>2. Behind(lastTail) <= Behind(f[i])
          BY <1>4, <1>6, <4>3, <5>1 DEF InFlight
        <5>3. lastTail \in Index /\ g[j] = c /\ g[i] = f[i] /\ f[i] \in Index
          BY <1>1, <1>5, <1>5b, <4>3 DEF TypeOK
        <5> QED BY <1>7, <5>2, <5>3
      <4> QED BY <1>3, <1>5, <1>6, <4>1, <4>2, <4>3
    <3> QED BY <1>3, <1>5, <3>1, <3>2
  <2>2. ASSUME NEW k \in 1..Len(sq'), sq'[k].op = "write", NEW i \in Slots(sq'[k])
        PROVE  1 <= Behind(i)' /\ Behind(i)' <= Behind(g[k])'
    <3>1. CASE k = N
      <4>1. i \in Index /\ 1 <= Behind(i) /\ Behind(i) <= Behind(lastTail)
        BY <1>3, <1>5, <2>2, <3>1
      <4>2. g[k] = lastTail /\ g[k] \in Index
        BY <1>5, <1>5b, <1>6, <3>1
      <4>3. Behind(g[k])' = Behind(g[k]) /\ Behind(i)' = Behind(i)
        BY <1>3, <4>1, <4>2
      <4> QED BY <4>1, <4>2, <4>3
    <3>2. CASE k \in 1..Len(sq)
      <4>1. sq'[k] = sq[k] /\ k \in 1..N
        BY <1>3, <1>5, <3>2
      <4>2. i \in Index /\ g[k] = f[k] /\ f[k] \in Index
        BY <1>1, <1>5, <1>5b, <2>2, <3>2, <4>1, QueueTypes
      <4>3. 1 <= Behind(i) /\ Behind(i) <= Behind(f[k])
        BY <1>4, <2>2, <3>2, <4>1 DEF InFlight
      <4> QED BY <1>3, <4>2, <4>3
    <3> QED BY <1>3, <1>5, <3>1, <3>2
  <2>3. ASSUME NEW k \in 1..Len(sq'), sq'[k].op = "cas", NEW i \in Index,
               Behind(g[k + 1])' < Behind(i)', Behind(i)' <= Behind(g[k])'
        PROVE  Arrives(i, k - 1)'
    <3>1. CASE k = N
      <4>1. g[k + 1] = c /\ g[k] = lastTail /\ lastTail \in Index /\ sq'[k] = wr
        BY <1>1, <1>3, <1>5, <1>5b, <1>6, <3>1 DEF TypeOK
      <4>2. Behind(c)' < Behind(i)' /\ Behind(i)' <= Behind(g[k])'
        BY <2>3, <4>1
      <4>3. Behind(c) < Behind(i) /\ Behind(i) <= Behind(lastTail)
        BY <1>3, <4>1, <4>2
      <4>4. Arrives(i, Len(sq)) /\ k - 1 = Len(sq) /\ Len(sq) \in 0..Len(sq)
        BY <1>3, <1>5, <2>3, <3>1, <4>1, <4>3
      <4>5. k - 1 \in 0..Len(sq) /\ Arrives(i, k - 1)
        BY <4>4
      <4> QED BY <1>3, <4>5
    <3>2. CASE k \in 1..Len(sq)
      <4>1. sq'[k] = sq[k] /\ k \in 1..N /\ k + 1 \in 1..N /\ k - 1 \in 0..Len(sq)
        BY <1>3, <1>5, <3>2
      <4>2. g[k] = f[k] /\ f[k] \in Index /\ g[k + 1] = f[k + 1] /\ f[k + 1] \in Index
        BY <1>5, <1>5b, <4>1
      <4>3. Behind(f[k + 1]) < Behind(i) /\ Behind(i) <= Behind(f[k])
        BY <1>3, <2>3, <4>2
      <4>4. Arrives(i, k - 1)
        BY <1>4, <2>3, <3>2, <4>1, <4>3 DEF InFlight
      <4> QED BY <1>3, <4>1, <4>4
    <3> QED BY <1>3, <1>5, <3>1, <3>2
  <2> QED BY <2>1, <2>2, <2>3 DEF InFlight
<1>10. FlightInv'
  BY <1>5, <1>5b, <1>8, <1>9 DEF FlightInv
<1>11. OrderInv'
  <2>1. lastTail \in Index /\ rtail \in Index /\ rhead \in Index /\ lhead \in Index
    BY <1>1 DEF TypeOK
  <2>2. Behind(c) <= Behind(rtail)
    BY <1>1, <1>7, <2>1 DEF OrderInv
  <2> QED BY <1>1, <1>2, <2>1, <2>2 DEF OrderInv, Behind
<1>12. BytesInv'
  BY <1>1, <1>2 DEF BytesInv, Behind, Byte
<1>13. GotInv'
  BY <1>1, <1>2 DEF GotInv, Covered, Behind
<1> QED BY <1>10, <1>11, <1>12, <1>13 DEF StreamInv

(* The bytes that flush_out posts are those behind the tail, back to       *)
(* last_tail: one slice, or two if the tail has wrapped.                   *)
LEMMA UnsentSlots ==
  ASSUME TypeOK
  PROVE  /\ lastTail < ltail => \A i \in Index :
              1 <= Behind(i) /\ Behind(i) <= Behind(lastTail) <=>
                i \in lastTail..(ltail - 1)
         /\ ltail < lastTail => \A i \in Index :
              1 <= Behind(i) /\ Behind(i) <= Behind(lastTail) <=>
                i \in lastTail..(Capacity - 1) \/ i \in 0..(ltail - 1)
<1>1. /\ Capacity \in Nat /\ lastTail \in 0..(Capacity - 1) /\ ltail \in 0..(Capacity - 1)
  BY CapacityAssumption DEF TypeOK, Index
<1> QED BY <1>1 DEF Behind, NumBytesStored, Index

(* The first write of flush_out.                                           *)
LEMMA FlushFirstStreams ==
  ASSUME RdmaInv, StreamInv, FlushFirst
  PROVE  StreamInv'
<1>1. TypeOK
  BY DEF RdmaInv
<1>2. /\ Capacity \in Nat /\ lastTail \in 0..(Capacity - 1) /\ ltail \in 0..(Capacity - 1)
      /\ lastTail # ltail /\ lastTail \in Index
  BY <1>1, CapacityAssumption DEF TypeOK, Index, FlushFirst
<1>3. PICK len \in 1..Capacity :
        /\ len = IF lastTail < ltail THEN ltail - lastTail ELSE Capacity - lastTail
        /\ sq' = Append(sq, [op |-> "write", off |-> lastTail, len |-> len])
  BY <1>2 DEF FlushFirst, WriteRemote, Post
<1>4. PICK wr \in WorkRequest :
        wr.op = "write" /\ wr.off = lastTail /\ wr.len = len /\ sq' = Append(sq, wr)
  <2>1. [op |-> "write", off |-> lastTail, len |-> len] \in WorkRequest
    BY <1>2, <1>3, CapacityAssumption DEF WorkRequest
  <2> QED BY <1>3, <2>1
<1>5. Slots(wr) = lastTail..(lastTail + len - 1)
  BY <1>4 DEF Slots
<1>6. UNCHANGED <<local, remote, next, getVars>> /\ lastTail' = lastTail
  BY DEF FlushFirst
<1>7. ltail' = ltail /\ putPc' = IF lastTail < ltail THEN "cas" ELSE "second"
  BY <1>6 DEF local, FlushFirst, Sender
<1>8. /\ Len(sq) \in Nat /\ Len(sq') = Len(sq) + 1
      /\ \A i \in Index : Behind(i)' = Behind(i)
      /\ \A i \in Index : i \in Slots(wr) => Arrives(i, Len(sq))'
  BY <1>1, <1>4, <1>6, ArrivesPosted
<1>9. ASSUME NEW i \in Slots(wr)
      PROVE  i \in Index /\ 1 <= Behind(i) /\ Behind(i) <= Behind(lastTail)
  <2>1. i \in Index
    BY <1>2, <1>3, <1>5 DEF Index
  <2>2. CASE lastTail < ltail
    BY <1>1, <1>2, <1>3, <1>5, <2>1, <2>2, UnsentSlots
  <2>3. CASE ltail < lastTail
    BY <1>1, <1>2, <1>3, <1>5, <2>1, <2>3, UnsentSlots
  <2> QED BY <1>2, <2>1, <2>2, <2>3
<1>10. FlushInv'
  <2>1. CASE lastTail < ltail
    <3>1. \A i \in Index : 1 <= Behind(i) /\ Behind(i) <= Behind(lastTail)
                             => i \in Slots(wr)
      BY <1>1, <1>2, <1>3, <1>5, <2>1, UnsentSlots
    <3>2. Behind(lastTail)' = Behind(lastTail)
      BY <1>6, <1>7 DEF Behind
    <3> QED BY <1>7, <1>8, <2>1, <3>1, <3>2 DEF FlushInv
  <2>2. CASE ltail < lastTail
    <3>1. \A i \in Index : i >= lastTail => i \in Slots(wr)
      BY <1>2, <1>3, <1>5, <2>2 DEF Index
    <3>2. putPc' = "second" /\ ltail' < lastTail'
      BY <1>2, <1>6, <1>7, <2>2
    <3> QED BY <1>6, <1>8, <3>1, <3>2 DEF FlushInv
  <2> QED BY <1>2, <2>1, <2>2
<1>11. Behind(lastTail) <= Behind(lastTail)
  BY <1>1, <1>2, BehindFacts
<1> QED BY <1>2, <1>4, <1>6, <1>9, <1>10, <1>11, PostStreams

(* The second one.                                                         *)
LEMMA FlushSecondStreams ==
  ASSUME RdmaInv, StreamInv, FlushSecond
  PROVE  StreamInv'
<1>1. TypeOK /\ FlushInv
  BY DEF RdmaInv, StreamInv
<1>2. /\ Capacity \in Nat /\ Capacity >= 2 /\ lastTail \in 0..(Capacity - 1)
      /\ ltail \in 0..(Capacity - 1) /\ lastTail \in Index
  BY <1>1, CapacityAssumption DEF TypeOK, Index
<1>3. ltail < lastTail /\ \A i \in Index : i >= lastTail => Arrives(i, Len(sq))
  BY <1>1 DEF FlushInv, FlushSecond, Sender
<1>4. PICK wr \in WorkRequest :
        wr.op = "write" /\ wr.off = 0 /\ wr.len = ltail /\ sq' = Append(sq, wr)
  <2>1. [op |-> "write", off |-> 0, len |-> ltail] \in WorkRequest
    BY <1>2 DEF WorkRequest, Index
  <2> QED BY <2>1 DEF FlushSecond, WriteRemote, Post
<1>5. Slots(wr) = 0..(ltail - 1)
  BY <1>2, <1>4 DEF Slots
<1>6. UNCHANGED <<local, remote, next, getVars>> /\ lastTail' = lastTail
  BY DEF FlushSecond
<1>7. ltail' = ltail /\ putPc' = "cas"
  BY <1>6 DEF local, FlushSecond, Sender
<1>8. /\ Len(sq) \in Nat /\ Len(sq') = Len(sq) + 1
      /\ \A i \in Index : Behind(i)' = Behind(i)
      /\ \A i \in Index : Arrives(i, Len(sq)) => Arrives(i, Len(sq))'
      /\ \A i \in Index : i \in Slots(wr) => Arrives(i, Len(sq))'
  BY <1>1, <1>4, <1>6, ArrivesPosted
<1>9. ASSUME NEW i \in Slots(wr)
      PROVE  i \in Index /\ 1 <= Behind(i) /\ Behind(i) <= Behind(lastTail)
  <2>1. i \in Index
    BY <1>2, <1>5 DEF Index
  <2> QED BY <1>1, <1>3, <1>5, <2>1, UnsentSlots
<1>10. FlushInv'
  <2>1. \A i \in Index : 1 <= Behind(i) /\ Behind(i) <= Behind(lastTail)
                           => i \in Slots(wr) \/ i >= lastTail
    BY <1>1, <1>2, <1>3, <1>5, UnsentSlots
  <2>2. Behind(lastTail)' = Behind(lastTail)
    BY <1>6, <1>7 DEF Behind
  <2> QED BY <1>3, <1>7, <1>8, <2>1, <2>2 DEF FlushInv
<1>11. Behind(lastTail) <= Behind(lastTail)
  BY <1>1, <1>2, BehindFacts
<1> QED BY <1>2, <1>4, <1>6, <1>9, <1>10, <1>11, PostStreams

(* The tail, and the wait for the receiver's head.                         *)
LEMMA FlushTailStreams ==
  ASSUME RdmaInv, StreamInv, FlushTail \/ FlushWait
  PROVE  StreamInv'
<1>1. TypeOK /\ FlushInv
  BY DEF RdmaInv, StreamInv
<1>2. lastTail \in Index /\ ltail \in Index
  BY <1>1 DEF TypeOK
<1>3. Behind(ltail) = 0 /\ \A i \in Index : Behind(i) \in Nat
  BY <1>1, BehindFacts
<1>4. putPc' = "wait" /\ UNCHANGED <<local, remote, next, getVars>>
  BY DEF FlushTail, FlushWait, Sender
<1>5. FlushInv'
  BY <1>4 DEF FlushInv
<1>6. CASE FlushTail
  <2>1. putPc = "cas" /\ lastTail' = ltail
    BY <1>6 DEF FlushTail, Sender
  <2>2. PICK wr \in WorkRequest :
          /\ wr.op = "cas" /\ wr.compare = lastTail /\ wr.swap = ltail
          /\ sq' = Append(sq, wr)
    <3>1. [op |-> "cas", compare |-> lastTail, swap |-> ltail] \in WorkRequest
      BY <1>2 DEF WorkRequest
    <3> QED BY <1>6, <3>1 DEF FlushTail, WriteTailRemote, Post
  <2>3. ASSUME NEW i \in Index, Behind(ltail) < Behind(i), Behind(i) <= Behind(lastTail)
        PROVE  Arrives(i, Len(sq))
    <3>1. 1 <= Behind(i)
      BY <1>3, <2>3
    <3> QED BY <1>1, <2>1, <2>3, <3>1 DEF FlushInv
  <2>4. Behind(ltail) <= Behind(lastTail)
    BY <1>2, <1>3
  <2> QED BY <1>2, <1>4, <1>5, <2>1, <2>2, <2>3, <2>4, PostStreams
<1>7. CASE FlushWait
  <2>1. lastTail' = lastTail
    BY <1>7 DEF FlushWait
  <2>2. PICK wr \in WorkRequest : wr.op = "read" /\ sq' = Append(sq, wr)
    <3>1. [op |-> "read"] \in WorkRequest
      BY DEF WorkRequest
    <3> QED BY <1>7, <3>1 DEF FlushWait, ReadRemoteHead, Post
  <2>3. Behind(lastTail) <= Behind(lastTail)
    BY <1>2, <1>3
  <2> QED BY <1>2, <1>4, <1>5, <2>1, <2>2, <2>3, PostStreams
<1> QED BY <1>6, <1>7

(* The oldest request is executed and leaves the queue: what arrived with  *)
(* it is there, and the others are one place further.                      *)
LEMMA ArrivesExecuted ==
  ASSUME TypeOK, sq # <<>>, sq' = Tail(sq), UNCHANGED <<ltail, next>>,
         \A i \in Index : rbuf[i] = Byte(i) \/ (sq[1].op = "write" /\ i \in Slots(sq[1]))
                            => rbuf'[i] = Byte(i)
  PROVE  /\ Len(sq) \in Nat \ {0} /\ Len(sq') = Len(sq) - 1
         /\ \A i \in 1..(Len(sq) - 1) : sq'[i] = sq[i + 1]
         /\ \A i \in Index : Behind(i)' = Behind(i) /\ Byte(i)' = Byte(i)
         /\ \A i \in Index, k \in 1..Len(sq) : Arrives(i, k) => Arrives(i, k - 1)'
         /\ \A i \in Index : Arrives(i, Len(sq)) => Arrives(i, Len(sq))'
<1>1. /\ Len(sq) \in Nat \ {0} /\ Len(sq') = Len(sq) - 1
      /\ \A i \in 1..(Len(sq) - 1) : sq'[i] = sq[i + 1]
  BY QueueTypes, OldestGone
<1>2. \A i \in Index : Behind(i)' = Behind(i) /\ Byte(i)' = Byte(i)
  BY DEF Behind, Byte
<1>3. ASSUME NEW i \in Index, NEW k \in 1..Len(sq), Arrives(i, k)
      PROVE  Arrives(i, k - 1)'
  <2>1. CASE rbuf[i] = Byte(i) \/ (sq[1].op = "write" /\ i \in Slots(sq[1]))
    BY <1>2, <2>1 DEF Arrives
  <2>2. CASE \E j \in 2..k : sq[j].op = "write" /\ i \in Slots(sq[j])
    <3>1. PICK j \in 2..k : sq[j].op = "write" /\ i \in Slots(sq[j])
      BY <2>2
    <3>2. j - 1 \in 1..(k - 1) /\ j - 1 \in 1..(Len(sq) - 1) /\ (j - 1) + 1 = j
      BY <1>1, <3>1
    <3>3. sq'[j - 1] = sq[j]
      BY <1>1, <3>2
    <3> QED BY <3>1, <3>2, <3>3 DEF Arrives
  <2>3. \A j \in 1..k : j = 1 \/ j \in 2..k
    BY <1>1
  <2> QED BY <1>3, <2>1, <2>2, <2>3 DEF Arrives
<1>4. ASSUME NEW i \in Index, Arrives(i, Len(sq))
      PROVE  Arrives(i, Len(sq))'
  <2>1. Len(sq) \in 1..Len(sq)
    BY <1>1
  <2>2. PICK k \in 1..Len(sq) : k = Len(sq)
    BY <2>1
  <2>3. Arrives(i, k) /\ k - 1 = Len(sq')
    BY <1>1, <1>4, <2>2
  <2>4. Arrives(i, k - 1)'
    BY <1>3, <2>3
  <2> QED BY <2>3, <2>4 DEF Arrives
<1> QED BY <1>1, <1>2, <1>3, <1>4

(* Whatever the oldest request is, with what it does to the two regions.   *)
LEMMA ExecuteStreams ==
  ASSUME RdmaInv, StreamInv, NEW f \in [1..(Len(sq) + 1) -> Index],
         TailsAhead(f), InFlight(f),
         sq # <<>>, sq' = Tail(sq), rtail' = f[2], lhead' \in {lhead, rhead},
         UNCHANGED <<ltail, next, lbuf, rhead, lastTail, putPc, getVars>>,
         \A i \in Index : rbuf[i] = Byte(i) \/ (sq[1].op = "write" /\ i \in Slots(sq[1]))
                            => rbuf'[i] = Byte(i)
  PROVE  StreamInv'
<1>1. TypeOK /\ OrderInv /\ BytesInv /\ GotInv /\ FlushInv
  BY DEF RdmaInv, StreamInv
<1>2. /\ ltail' = ltail /\ lbuf' = lbuf /\ rhead' = rhead /\ lastTail' = lastTail
      /\ putPc' = putPc /\ next' = next /\ getPc' = getPc /\ readHead' = readHead
      /\ readLen' = readLen /\ got' = got
  BY DEF getVars
<1>3. /\ Len(sq) \in Nat \ {0} /\ Len(sq') = Len(sq) - 1
      /\ \A i \in 1..(Len(sq) - 1) : sq'[i] = sq[i + 1]
      /\ \A i \in Index : Behind(i)' = Behind(i) /\ Byte(i)' = Byte(i)
      /\ \A i \in Index, k \in 1..Len(sq) : Arrives(i, k) => Arrives(i, k - 1)'
      /\ \A i \in Index : Arrives(i, Len(sq)) => Arrives(i, Len(sq))'
  BY <1>1, ArrivesExecuted
<1>4. PICK N \in Nat \ {0} : N = Len(sq)
  BY <1>3
<1>5. PICK g \in [1..N -> Index] : \A i \in 1..N : g[i] = f[i + 1] /\ f[i + 1] \in Index
  <2> DEFINE h == [i \in 1..N |-> f[i + 1]]
  <2>1. \A i \in 1..N : i + 1 \in 1..(Len(sq) + 1)
    BY <1>4
  <2>2. h \in [1..N -> Index] /\ \A i \in 1..N : h[i] = f[i + 1] /\ f[i + 1] \in Index
    BY <2>1
  <2> QED BY <2>2
<1>6. /\ lhead \in Index /\ rhead \in Index /\ rtail \in Index /\ lastTail \in Index
      /\ f[1] \in Index /\ f[2] \in Index /\ f[1] = rtail /\ f[N + 1] = lastTail
      /\ 1 \in 1..(Len(sq) + 1) /\ 2 \in 1..(Len(sq) + 1) /\ 1 \in 1..Len(sq)
      /\ N + 1 \in 1..(Len(sq) + 1)
  <2>1. 1 \in 1..(Len(sq) + 1) /\ 2 \in 1..(Len(sq) + 1) /\ 1 \in 1..Len(sq)
    BY <1>3
  <2>2. f[1] = rtail /\ f[N + 1] = lastTail /\ N + 1 \in 1..(Len(sq) + 1)
    BY <1>4 DEF TailsAhead
  <2>3. f[1] \in Index /\ f[2] \in Index
    BY <2>1
  <2>4. lhead \in Index /\ rhead \in Index /\ rtail \in Index /\ lastTail \in Index
    BY <1>1 DEF TypeOK
  <2> QED BY <2>1, <2>2, <2>3, <2>4
<1>7. \A i \in Index : Behind(i) \in Nat
  BY <1>1, BehindFacts
<1>8. /\ Behind(f[2]) <= Behind(rtail) /\ Behind(lastTail) <= Behind(f[2])
      /\ lhead' \in Index /\ Behind(rhead) <= Behind(lhead')
      /\ Behind(lhead') <= Behind(lhead)
  <2>1. Behind(f[2]) <= Behind(f[1])
    BY <1>6 DEF InFlight
  <2>2. Behind(f[N + 1]) <= Behind(f[2])
    <3>1. 2 <= N + 1
      BY <1>4
    <3> QED BY <1>6, <3>1 DEF InFlight
  <2> QED BY <1>1, <1>6, <1>7, <2>1, <2>2 DEF OrderInv
<1>9. OrderInv'
  <2>1. /\ Behind(lastTail)' = Behind(lastTail) /\ Behind(rtail)' = Behind(f[2])
        /\ Behind(rhead)' = Behind(rhead) /\ Behind(lhead)' = Behind(lhead')
    BY <1>2 DEF Behind
  <2>2. Behind(rtail) <= Behind(rhead)
    BY <1>1 DEF OrderInv
  <2> QED BY <1>6, <1>7, <1>8, <2>1, <2>2 DEF OrderInv
<1>10. BytesInv'
  <2>1. ASSUME NEW i \in Index, 1 <= Behind(i)', Behind(i)' <= Behind(lhead)'
        PROVE  lbuf'[i] = Byte(i)'
    <3>1. Behind(i)' = Behind(i) /\ Behind(lhead)' = Behind(lhead')
      BY <1>2 DEF Behind
    <3>2. 1 <= Behind(i) /\ Behind(i) <= Behind(lhead)
      BY <1>6, <1>7, <1>8, <2>1, <3>1
    <3> QED BY <1>1, <1>2, <1>3, <3>2 DEF BytesInv
  <2>2. ASSUME NEW i \in Index, Behind(rtail)' < Behind(i)', Behind(i)' <= Behind(rhead)'
        PROVE  rbuf'[i] = Byte(i)'
    <3>1. Behind(f[2]) < Behind(i) /\ Behind(i) <= Behind(rhead)
      BY <1>2, <2>2 DEF Behind
    <3>2. CASE Behind(rtail) < Behind(i)
      BY <1>1, <1>3, <3>1, <3>2 DEF BytesInv
    <3>3. CASE Behind(i) <= Behind(f[1])
      <4>1. sq[1].op = "cas"
        <5>1. CASE f[1 + 1] = f[1]
          BY <1>6, <1>7, <3>1, <3>3, <5>1
        <5> QED BY <1>6, <5>1 DEF TailsAhead
      <4>2. Arrives(i, 1 - 1)
        BY <1>6, <3>1, <3>3, <4>1 DEF InFlight
      <4>3. rbuf[i] = Byte(i)
        BY <4>2 DEF Arrives
      <4> QED BY <1>3, <4>3
    <3> QED BY <1>6, <1>7, <3>2, <3>3
  <2> QED BY <2>1, <2>2 DEF BytesInv
<1>11. FlightInv'
  <2>1. g \in [1..(Len(sq') + 1) -> Index]
    BY <1>3, <1>4, <1>5
  <2>2. TailsAhead(g)'
    <3>1. g[1] = rtail' /\ g[Len(sq') + 1] = lastTail'
      BY <1>2, <1>3, <1>4, <1>5, <1>6
    <3>2. ASSUME NEW i \in 1..Len(sq')
          PROVE  IF sq'[i].op = "cas"
                 THEN g[i] = sq'[i].compare /\ g[i + 1] = sq'[i].swap
                 ELSE g[i + 1] = g[i]
      <4>1. /\ i \in 1..N /\ i + 1 \in 1..N /\ i + 1 \in 1..Len(sq)
            /\ i \in 1..(Len(sq) - 1)
        BY <1>3, <1>4
      <4>2. g[i] = f[i + 1] /\ g[i + 1] = f[(i + 1) + 1] /\ sq'[i] = sq[i + 1]
        BY <1>3, <1>5, <4>1
      <4> QED BY <4>1, <4>2 DEF TailsAhead
    <3> QED BY <3>1, <3>2 DEF TailsAhead
  <2>3. ASSUME NEW i \in 1..(Len(sq') + 1), NEW j \in 1..(Len(sq') + 1), i <= j
        PROVE  Behind(g[j])' <= Behind(g[i])'
    <3>1. i + 1 \in 1..(Len(sq) + 1) /\ j + 1 \in 1..(Len(sq) + 1) /\ i + 1 <= j + 1
      BY <1>3, <2>3
    <3>2. i \in 1..N /\ j \in 1..N
      BY <1>3, <1>4
    <3>3. Behind(f[j + 1]) <= Behind(f[i + 1])
      BY <3>1 DEF InFlight
    <3> QED BY <1>3, <1>5, <3>2, <3>3
  <2>4. ASSUME NEW k \in 1..Len(sq'), sq'[k].op = "write", NEW i \in Slots(sq'[k])
        PROVE  1 <= Behind(i)' /\ Behind(i)' <= Behind(g[k])'
    <3>1. k + 1 \in 1..Len(sq) /\ k \in 1..N /\ k \in 1..(Len(sq) - 1)
      BY <1>3, <1>4
    <3>2. sq'[k] = sq[k + 1] /\ g[k] = f[k + 1] /\ g[k] \in Index
      BY <1>3, <1>5, <3>1
    <3>3. 1 <= Behind(i) /\ Behind(i) <= Behind(f[k + 1])
      BY <2>4, <3>1, <3>2 DEF InFlight
    <3>4. i \in Index
      BY <1>1, <2>4, <3>1, <3>2, QueueTypes
    <3> QED BY <1>3, <3>2, <3>3, <3>4
  <2>5. ASSUME NEW k \in 1..Len(sq'), sq'[k].op = "cas", NEW i \in Index,
               Behind(g[k + 1])' < Behind(i)', Behind(i)' <= Behind(g[k])'
        PROVE  Arrives(i, k - 1)'
    <3>1. /\ k + 1 \in 1..Len(sq) /\ k \in 1..N /\ k + 1 \in 1..N
          /\ k \in 1..(Len(sq) - 1) /\ k \in 1..Len(sq) /\ (k + 1) - 1 = k
      BY <1>3, <1>4
    <3>2. /\ sq'[k] = sq[k + 1] /\ g[k] = f[k + 1] /\ g[k + 1] = f[(k + 1) + 1]
          /\ g[k] \in Index /\ g[k + 1] \in Index
      BY <1>3, <1>5, <3>1
    <3>3. /\ Behind(g[k + 1])' = Behind(g[k + 1]) /\ Behind(g[k])' = Behind(g[k])
          /\ Behind(i)' = Behind(i)
      BY <1>3, <3>2
    <3>4. Behind(f[(k + 1) + 1]) < Behind(i) /\ Behind(i) <= Behind(f[k + 1])
      BY <2>5, <3>2, <3>3
    <3>5. Arrives(i, (k + 1) - 1)
      BY <2>5, <3>1, <3>2, <3>4 DEF InFlight
    <3>6. Arrives(i, k)
      BY <3>1, <3>5
    <3> QED BY <1>3, <3>1, <3>6
  <2> QED BY <2>1, <2>2, <2>3, <2>4, <2>5 DEF FlightInv, InFlight
<1>12. FlushInv'
  <2>1. Behind(lastTail)' = Behind(lastTail)
    BY <1>2 DEF Behind
  <2> QED BY <1>1, <1>2, <1>3, <2>1 DEF FlushInv
<1>13. GotInv'
  <2>1. /\ Behind(rhead)' = Behind(rhead) /\ Behind(rtail)' = Behind(f[2])
        /\ Covered(rhead)' = Covered(rhead)
    BY <1>2 DEF Behind, Covered
  <2>2. readLen \in Nat
    BY <1>1, CapacityAssumption DEF TypeOK
  <2>3. readLen <= Behind(rhead) - Behind(rtail) => readLen <= Behind(rhead) - Behind(f[2])
    BY <1>6, <1>7, <1>8, <2>2
  <2> QED BY <1>1, <1>2, <2>1, <2>3 DEF GotInv
<1> QED BY <1>9, <1>10, <1>11, <1>12, <1>13 DEF StreamInv

(* The NIC executes a request.                                             *)
LEMMA NicStreams ==
  ASSUME RdmaInv, StreamInv, Nic
  PROVE  StreamInv'
<1>1. TypeOK /\ OrderInv /\ BytesInv
  BY DEF RdmaInv, StreamInv
<1>2. PICK f \in [1..(Len(sq) + 1) -> Index] : TailsAhead(f) /\ InFlight(f)
  BY DEF StreamInv, FlightInv
<1>3. sq # <<>> /\ sq' = Tail(sq)
  BY DEF Nic, NicWrite, NicCas, NicRead, Oldest, Complete
<1>4. Len(sq) \in Nat \ {0} /\ Head(sq) = sq[1] /\ 1 \in 1..Len(sq)
  <2>1. Len(sq) \in Nat \ {0} /\ Head(sq) = sq[1]
    BY <1>1, <1>3, QueueTypes, OldestGone
  <2> QED BY <2>1
<1>5. f[1] = rtail /\ IF sq[1].op = "cas" THEN f[1] = sq[1].compare /\ f[2] = sq[1].swap
                                          ELSE f[2] = f[1]
  <2>1. IF sq[1].op = "cas" THEN f[1] = sq[1].compare /\ f[1 + 1] = sq[1].swap
                            ELSE f[1 + 1] = f[1]
    BY <1>2, <1>4 DEF TailsAhead
  <2> QED BY <1>2, <2>1 DEF TailsAhead
<1>6. UNCHANGED <<ltail, next, lbuf, rhead, lastTail, putPc, getVars>>
  BY DEF Nic, NicWrite, NicCas, NicRead, Complete, local, remote, channel, putVars
<1>7. CASE NicWrite
  <2>1. sq[1].op = "write" /\ rtail' = f[2] /\ lhead' = lhead
    BY <1>4, <1>5, <1>7 DEF NicWrite, Oldest, local
  <2>2. ASSUME NEW i \in Index,
               rbuf[i] = Byte(i) \/ (sq[1].op = "write" /\ i \in Slots(sq[1]))
        PROVE  rbuf'[i] = Byte(i)
    <3>1. rbuf'[i] = IF i \in Slots(sq[1]) THEN lbuf[i] ELSE rbuf[i]
      BY <1>4, <1>7 DEF NicWrite
    <3>2. CASE i \in Slots(sq[1])
      <4>1. 1 <= Behind(i) /\ Behind(i) <= Behind(f[1])
        BY <1>2, <1>4, <2>1, <3>2 DEF InFlight
      <4>2. Behind(rtail) <= Behind(lhead)
        BY <1>2, WithinReach
      <4>3. Behind(i) \in Nat /\ Behind(rtail) \in Nat /\ Behind(lhead) \in Nat
        <5>1. rtail \in Index /\ lhead \in Index
          BY <1>1 DEF TypeOK
        <5> QED BY <1>1, <5>1, BehindFacts
      <4>4. Behind(i) <= Behind(lhead)
        BY <1>5, <4>1, <4>2, <4>3
      <4>5. lbuf[i] = Byte(i)
        BY <1>1, <4>1, <4>4 DEF BytesInv
      <4> QED BY <3>1, <3>2, <4>5
    <3> QED BY <2>2, <3>1, <3>2
  <2> QED BY <1>2, <1>3, <1>6, <2>1, <2>2, ExecuteStreams
<1>8. CASE NicCas
  <2>1. rtail' = f[2] /\ lhead' = lhead /\ rbuf' = rbuf /\ sq[1].op = "cas"
    BY <1>4, <1>5, <1>8 DEF NicCas, Oldest, local
  <2>2. sq[1].op # "write"
    BY <2>1
  <2> QED BY <1>2, <1>3, <1>6, <2>1, <2>2, ExecuteStreams
<1>9. CASE NicRead
  <2>1. rtail' = f[2] /\ lhead' = rhead /\ rbuf' = rbuf /\ sq[1].op = "read"
    BY <1>4, <1>5, <1>9 DEF NicRead, Oldest, remote
  <2>2. sq[1].op # "write"
    BY <2>1
  <2> QED BY <1>2, <1>3, <1>6, <2>1, <2>2, ExecuteStreams
<1> QED BY <1>7, <1>8, <1>9 DEF Nic

(* The slice that get_bytes takes is of published bytes.                   *)
LEMMA ReadSliceBehind ==
  ASSUME TypeOK, Behind(rtail) <= Behind(rhead), NEW n \in Nat
  PROVE  Min2(ContiguousReadLen(rtail, rhead), n) <= Behind(rhead) - Behind(rtail)
<1>1. /\ Capacity \in Nat /\ Capacity >= 2 /\ rhead \in 0..(Capacity - 1)
      /\ rtail \in 0..(Capacity - 1) /\ ltail \in 0..(Capacity - 1)
  BY CapacityAssumption DEF TypeOK, Index
<1>2. ContiguousReadLen(rtail, rhead) <= Behind(rhead) - Behind(rtail)
  BY <1>1 DEF ContiguousReadLen, Behind, NumBytesStored
<1>3. /\ ContiguousReadLen(rtail, rhead) \in Int
      /\ Behind(rhead) - Behind(rtail) \in Int
  BY <1>1 DEF ContiguousReadLen, Behind, NumBytesStored
<1> QED BY <1>2, <1>3 DEF Min2

(* What the receiver does leaves the sender and the requests alone.        *)
LEMMA ReceiverStreams ==
  ASSUME RdmaInv, StreamInv, GotInv', Behind(rhead') <= Behind(rhead),
         Behind(rtail) <= Behind(rhead'), rhead' \in Index,
         UNCHANGED <<local, rtail, rbuf, sq, lastTail, next, putPc>>
  PROVE  StreamInv'
<1>1. TypeOK /\ OrderInv /\ BytesInv /\ FlushInv
  BY DEF RdmaInv, StreamInv
<1>2. /\ lhead' = lhead /\ ltail' = ltail /\ lbuf' = lbuf /\ rtail' = rtail
      /\ rbuf' = rbuf /\ sq' = sq /\ lastTail' = lastTail /\ next' = next
      /\ putPc' = putPc
  BY DEF local
<1>3. \A i \in Index : Behind(i) \in Nat
  BY <1>1, BehindFacts
<1>4. lhead \in Index /\ rhead \in Index
  BY <1>1 DEF TypeOK
<1>5. OrderInv'
  <2>1. /\ Behind(lastTail)' = Behind(lastTail) /\ Behind(rtail)' = Behind(rtail)
        /\ Behind(rhead)' = Behind(rhead') /\ Behind(lhead)' = Behind(lhead)
    BY <1>2 DEF Behind
  <2> QED BY <1>1, <1>3, <1>4, <2>1 DEF OrderInv
<1>6. BytesInv'
  <2>1. ASSUME NEW i \in Index, Behind(i) <= Behind(rhead')
        PROVE  Behind(i) <= Behind(rhead)
    BY <1>3, <1>4, <2>1
  <2>2. /\ \A i \in Index : Behind(i)' = Behind(i) /\ Byte(i)' = Byte(i)
        /\ Behind(rhead)' = Behind(rhead') /\ Behind(rtail)' = Behind(rtail)
        /\ Behind(lhead)' = Behind(lhead)
    BY <1>2 DEF Behind, Byte
  <2> QED BY <1>1, <1>2, <2>1, <2>2 DEF BytesInv
<1>7. FlightInv'
  <2>1. PICK f \in [1..(Len(sq) + 1) -> Index] : TailsAhead(f) /\ InFlight(f)
    BY DEF StreamInv, FlightInv
  <2>2. f \in [1..(Len(sq') + 1) -> Index] /\ TailsAhead(f)' /\ InFlight(f)'
    BY <1>2, <2>1 DEF TailsAhead, InFlight, Arrives, Behind, Byte
  <2> QED BY <2>2 DEF FlightInv
<1>8. FlushInv'
  BY <1>1, <1>2 DEF FlushInv, Arrives, Behind, Byte
<1> QED BY <1>5, <1>6, <1>7, <1>8 DEF StreamInv

(* The bytes that get_bytes copies are the next ones of the stream, and    *)
(* published.                                                              *)
LEMMA CopyFacts ==
  ASSUME RdmaInv, StreamInv, GetCopy
  PROVE  /\ got' = got \o [i \in 1..readLen |-> Len(got) + i]
         /\ Len(got) + readLen <= Covered(rtail) /\ readLen \in 0..(Capacity - 1)
<1>1. TypeOK /\ SliceInv /\ OrderInv /\ BytesInv /\ GotInv
  BY DEF RdmaInv, StreamInv
<1>2. /\ readHead = rhead /\ readLen <= Behind(rhead) - Behind(rtail)
      /\ rhead + readLen <= Capacity /\ Len(got) = Covered(rhead)
  <2>1. getPc = "copy"
    BY DEF GetCopy
  <2>2. readHead = rhead /\ readLen <= Behind(rhead) - Behind(rtail)
    BY <1>1, <2>1 DEF GotInv
  <2>3. readHead + readLen <= Capacity
    BY <1>1, <2>1 DEF SliceInv
  <2>4. Len(got) = Covered(rhead) + 0
    BY <1>1, <2>1 DEF GotInv
  <2>5. Covered(rhead) \in Int
    BY <1>1, CapacityAssumption, RdmaAssumption
       DEF TypeOK, Covered, NumBytesStored, Index
  <2> QED BY <2>2, <2>3, <2>4, <2>5
<1>3. /\ rhead \in Index /\ rtail \in Index /\ readLen \in Nat /\ next \in Nat
      /\ Behind(rhead) \in 0..(Capacity - 1) /\ Behind(rtail) \in 0..(Capacity - 1)
      /\ Capacity \in Nat
  <2>1. rhead \in Index /\ rtail \in Index /\ readLen \in Nat /\ next \in Nat
    BY <1>1, CapacityAssumption, RdmaAssumption DEF TypeOK
  <2> QED BY <1>1, <2>1, BehindFacts, CapacityAssumption
<1>4. \A m \in 0..(readLen - 1) :
        rhead + m \in Index /\ Behind(rhead + m) = Behind(rhead) - m
  <2>1. readLen <= Behind(rhead)
    BY <1>2, <1>3
  <2> QED BY <1>1, <1>2, <1>3, <2>1, SliceBehind
<1>5. Covered(rhead) = next - 1 - Behind(rhead) /\ Covered(rtail) = next - 1 - Behind(rtail)
  BY DEF Covered, Behind
<1>6. ASSUME NEW i \in 1..readLen
      PROVE  rbuf[readHead + i - 1] = Len(got) + i
  <2>1. PICK m \in 0..(readLen - 1) : m = i - 1
    BY <1>3
  <2>2. readHead + i - 1 = rhead + m
    BY <1>2, <1>3, <2>1 DEF Index
  <2>3. /\ rhead + m \in Index /\ Behind(rhead + m) = Behind(rhead) - m
        /\ Behind(rtail) < Behind(rhead + m) /\ Behind(rhead + m) <= Behind(rhead)
    BY <1>2, <1>3, <1>4
  <2>4. rbuf[rhead + m] = Byte(rhead + m)
    BY <1>1, <2>3 DEF BytesInv
  <2>5. Byte(rhead + m) = next - (Behind(rhead) - m)
    BY <2>3 DEF Byte
  <2> QED BY <1>2, <1>3, <1>5, <2>1, <2>2, <2>4, <2>5
<1>7. [i \in 1..readLen |-> rbuf[readHead + i - 1]] = [i \in 1..readLen |-> Len(got) + i]
  BY <1>6
<1>8. got' = got \o [i \in 1..readLen |-> rbuf[readHead + i - 1]]
  BY DEF GetCopy
<1>9. Len(got) + readLen <= Covered(rtail) /\ readLen \in 0..(Capacity - 1)
  BY <1>2, <1>3, <1>5
<1> QED BY <1>7, <1>8, <1>9

(* Bytes that follow a prefix of the stream in its order.                  *)
LEMMA PrefixGrows ==
  ASSUME NEW g \in Seq(Nat), NEW n \in Nat, \A k \in 1..Len(g) : g[k] = k
  PROVE  LET h == g \o [i \in 1..n |-> Len(g) + i]
         IN  Len(h) = Len(g) + n /\ \A k \in 1..Len(h) : h[k] = k
<1> DEFINE e == [i \in 1..n |-> Len(g) + i]
<1>0. e \in Seq(Nat)
  OBVIOUS
<1>1. Len(e) = n /\ Len(g) \in Nat /\ \A i \in 1..n : e[i] = Len(g) + i
  OBVIOUS
<1> HIDE DEF e
<1>2. Len(g \o e) = Len(g) + n
  <2>1. Len(g \o e) = Len(g) + Len(e)
    BY <1>0
  <2> QED BY <1>1, <2>1
<1>3. ASSUME NEW k \in 1..(Len(g) + n)
      PROVE  (g \o e)[k] = k
  <2>1. CASE k \in 1..Len(g)
    BY <1>0, <2>1
  <2>2. CASE k \notin 1..Len(g)
    <3>1. k - Len(g) \in 1..n /\ k > Len(g)
      BY <1>1, <2>2
    <3>2. (g \o e)[k] = e[k - Len(g)]
      BY <1>0, <1>1, <3>1
    <3> QED BY <1>1, <3>1, <3>2
  <2> QED BY <2>1, <2>2
<1>4. Len(g \o e) = Len(g) + n /\ \A k \in 1..Len(g \o e) : (g \o e)[k] = k
  BY <1>2, <1>3
<1> QED BY <1>4 DEF e

(* The steps of get_bytes.                                                 *)
LEMMA GetStreams ==
  ASSUME RdmaInv, StreamInv, ReceiverStep
  PROVE  StreamInv'
<1>1. TypeOK /\ SliceInv /\ OrderInv /\ GotInv
  BY DEF RdmaInv, StreamInv
<1>2. /\ rhead \in Index /\ rtail \in Index /\ readLen \in Nat /\ next \in Nat
      /\ getLen \in Nat /\ got \in Seq(Nat)
  BY <1>1, CapacityAssumption, RdmaAssumption DEF TypeOK
<1>3. /\ Behind(rhead) \in Nat /\ Behind(rtail) \in Nat
      /\ Behind(rtail) <= Behind(rhead) /\ Behind(rhead) <= Behind(rhead)
  BY <1>1, <1>2, BehindFacts DEF OrderInv
<1>4. UNCHANGED <<local, rtail, rbuf, sq, lastTail, next, putPc>>
  BY DEF ReceiverStep, GetBytes, GetSlice, GetCopy, GetAdvance, remote, queuePair,
         channel, putVars
<1>5. ltail' = ltail /\ next' = next /\ rtail' = rtail
  BY <1>4 DEF local
<1>6. CASE \E n \in 1..MaxLen : GetBytes(n)
  <2>1. getPc = "idle" /\ getPc' = "try" /\ got' = got /\ rhead' = rhead
    BY <1>6 DEF GetBytes, remote
  <2>2. GotInv'
    BY <1>1, <1>5, <2>1 DEF GotInv, Covered
  <2> QED BY <1>2, <1>3, <1>4, <2>1, <2>2, ReceiverStreams
<1>7. CASE GetSlice
  <2>1. /\ getPc = "try" /\ getPc' = "copy" /\ got' = got /\ rhead' = rhead
        /\ readHead' = rhead /\ readLen' = Min2(ContiguousReadLen(rtail, rhead), getLen)
    BY <1>7 DEF GetSlice, remote
  <2>2. readLen' <= Behind(rhead) - Behind(rtail)
    BY <1>1, <1>2, <1>3, <2>1, ReadSliceBehind
  <2>3. GotInv'
    <3>1. Behind(rhead)' = Behind(rhead) /\ Behind(rtail)' = Behind(rtail)
      BY <1>5, <2>1 DEF Behind
    <3>2. Covered(rhead)' = Covered(rhead)
      BY <1>5, <2>1 DEF Covered
    <3> QED BY <1>1, <2>1, <2>2, <3>1, <3>2 DEF GotInv
  <2> QED BY <1>2, <1>3, <1>4, <2>1, <2>3, ReceiverStreams
<1>8. CASE GetCopy
  <2>1. /\ getPc = "copy" /\ getPc' = "advance" /\ rhead' = rhead
        /\ readHead' = readHead /\ readLen' = readLen
    BY <1>8 DEF GetCopy, remote
  <2>2. got' = got \o [i \in 1..readLen |-> Len(got) + i]
    BY <1>8, CopyFacts
  <2>3. Len(got') = Len(got) + readLen /\ \A k \in 1..Len(got') : got'[k] = k
    <3>1. \A k \in 1..Len(got) : got[k] = k
      BY <1>1 DEF GotInv
    <3> QED BY <1>2, <2>2, <3>1, PrefixGrows
  <2>4. GotInv'
    <3>1. Behind(rhead)' = Behind(rhead) /\ Behind(rtail)' = Behind(rtail)
      BY <1>5, <2>1 DEF Behind
    <3>2. Covered(rhead)' = Covered(rhead)
      BY <1>5, <2>1 DEF Covered
    <3>3. Len(got) = Covered(rhead) + 0 /\ Covered(rhead) \in Int
      <4>1. Covered(rhead) = next - 1 - Behind(rhead)
        BY DEF Covered, Behind
      <4> QED BY <1>1, <1>2, <1>3, <2>1, <4>1 DEF GotInv
    <3>4. Len(got') = Covered(rhead) + readLen
      BY <1>2, <2>3, <3>3
    <3>5. readHead = rhead /\ readLen <= Behind(rhead) - Behind(rtail)
      BY <1>1, <2>1 DEF GotInv
    <3> QED BY <2>1, <2>3, <3>1, <3>2, <3>4, <3>5 DEF GotInv
  <2> QED BY <1>2, <1>3, <1>4, <2>1, <2>4, ReceiverStreams
<1>9. CASE GetAdvance
  <2>1. /\ getPc = "advance" /\ getPc' \in {"idle", "try"} /\ got' = got
        /\ rhead' = Advance(readHead, readLen)
    BY <1>9 DEF GetAdvance
  <2>2. /\ readHead = rhead /\ readLen <= Behind(rhead) - Behind(rtail)
        /\ rhead + readLen <= Capacity
    BY <1>1, <2>1 DEF GotInv, SliceInv
  <2>3. Behind(rhead') = Behind(rhead) - readLen /\ rhead' \in Index
    <3>1. readLen <= Behind(rhead)
      BY <1>2, <1>3, <2>2
    <3>2. /\ Behind(Advance(rhead, readLen)) = Behind(rhead) - readLen
          /\ Advance(rhead, readLen) \in Index
      BY <1>1, <1>2, <2>2, <3>1, SliceBehind
    <3> QED BY <2>1, <2>2, <3>2
  <2>4. Behind(rhead') <= Behind(rhead) /\ Behind(rtail) <= Behind(rhead')
    BY <1>2, <1>3, <2>2, <2>3
  <2>5. GotInv'
    <3>1. Covered(rhead)' = next - 1 - Behind(rhead')
      BY <1>5 DEF Covered, Behind
    <3>2. Covered(rhead) = next - 1 - Behind(rhead)
      BY DEF Covered, Behind
    <3>3. Len(got) = Covered(rhead) + readLen
      BY <1>1, <2>1 DEF GotInv
    <3>4. Len(got') = Covered(rhead)' + 0
      BY <1>2, <1>3, <2>1, <2>3, <3>1, <3>2, <3>3
    <3> QED BY <1>1, <2>1, <3>4 DEF GotInv
  <2> QED BY <1>4, <2>3, <2>4, <2>5, ReceiverStreams
<1> QED BY <1>6, <1>7, <1>8, <1>9 DEF ReceiverStep

-----------------------------------------------------------------------------
(* The theorems about the stream                                           *)

(* A freshly created channel has sent nothing.                             *)
LEMMA InitStreamInv == Init => StreamInv
<1> SUFFICES ASSUME Init PROVE StreamInv
  OBVIOUS
<1>1. /\ lhead = 0 /\ ltail = 0 /\ rhead = 0 /\ rtail = 0 /\ lastTail = 0
      /\ sq = <<>> /\ Len(sq) = 0 /\ next = 1 /\ putPc = "idle" /\ getPc = "idle"
      /\ got = <<>> /\ Len(got) = 0 /\ 0 \in Index
  BY CapacityAssumption DEF Init, Index
<1>2. \A i \in Index : Behind(i) \in Nat
  BY <1>1, CapacityAssumption DEF Behind, NumBytesStored, Index
<1>3. Behind(0) = 0 /\ Covered(0) = 0
  BY <1>1 DEF Behind, NumBytesStored, Covered
<1>4. OrderInv /\ BytesInv
  BY <1>1, <1>2, <1>3 DEF OrderInv, BytesInv
<1>5. FlightInv
  <2> DEFINE f == [i \in 1..1 |-> 0]
  <2>1. f \in [1..(Len(sq) + 1) -> Index] /\ TailsAhead(f) /\ f[1] = 0
    BY <1>1 DEF TailsAhead
  <2> HIDE DEF f
  <2>2. InFlight(f)
    BY <1>1, <1>3, <2>1 DEF InFlight
  <2> QED BY <2>1, <2>2 DEF FlightInv
<1>6. FlushInv /\ GotInv
  BY <1>1, <1>3 DEF FlushInv, GotInv
<1> QED BY <1>4, <1>5, <1>6 DEF StreamInv

(* Every step keeps the stream.                                            *)
LEMMA NextStreams ==
  ASSUME RdmaInv, StreamInv, [Next]_vars
  PROVE  StreamInv'
<1>1. CASE \/ \E n \in 1..MaxLen : PutBytes(n)
           \/ Flush \/ PutFull \/ FlushNothing \/ FlushReturn \/ PollBatch
  BY <1>1, QuietStreams
<1>2. CASE PutTurn
  BY <1>2, PutTurnStreams
<1>3. CASE FlushFirst
  BY <1>3, FlushFirstStreams
<1>4. CASE FlushSecond
  BY <1>4, FlushSecondStreams
<1>5. CASE FlushTail \/ FlushWait
  BY <1>5, FlushTailStreams
<1>6. CASE Nic
  BY <1>6, NicStreams
<1>7. CASE ReceiverStep
  BY <1>7, GetStreams
<1>8. CASE UNCHANGED vars
  <2>1. /\ UNCHANGED <<local, remote, sq, lastTail, next, getVars>>
        /\ putPc' = putPc
    BY <1>8 DEF vars, queuePair, channel, putVars
  <2> QED BY <2>1, StreamSame
<1> QED BY <1>1, <1>2, <1>3, <1>4, <1>5, <1>6, <1>7, <1>8 DEF Next, SenderStep

(* Whatever is queued, in flight or read, every byte of the stream is      *)
(* where put_bytes, flush_out, the NIC and get_bytes expect it.            *)
THEOREM StreamInvariance == Spec => [](RdmaInv /\ StreamInv)
<1>1. Init => StreamInv
  BY InitStreamInv
<1>2. RdmaInv /\ StreamInv /\ [Next]_vars => StreamInv'
  BY NextStreams
<1>3. QED
  BY <1>1, <1>2, RdmaInvariance, PTL DEF Spec

(* Only put_bytes writes the sender's data area, and what it writes over   *)
(* is not within reach of a queued write.                                  *)
LEMMA PendingKept ==
  ASSUME RdmaInv, StreamInv, [Next]_vars,
         NEW i \in Index, NEW w \in 1..Len(sq), sq[w].op = "write", i \in Slots(sq[w])
  PROVE  lbuf'[i] = lbuf[i]
<1>1. TypeOK
  BY DEF RdmaInv
<1>2. CASE PutTurn
  <2>1. PICK n \in Nat :
          /\ Behind(lhead) + n <= Capacity - 1 /\ ltail + n <= Capacity
          /\ ltail' = Advance(ltail, n) /\ next' = next + n
          /\ lbuf' = [k \in Index |-> IF k \in ltail..(ltail + n - 1)
                                      THEN next + (k - ltail) ELSE lbuf[k]]
    BY <1>2, TurnFacts
  <2>2. PICK f \in [1..(Len(sq) + 1) -> Index] : TailsAhead(f) /\ InFlight(f)
    BY DEF StreamInv, FlightInv
  <2>3. Behind(i) <= Behind(lhead) /\ lhead \in Index
    BY <2>2, WithinReach
  <2>4. 1 <= Behind(i)
    BY <2>2 DEF InFlight
  <2>5. i \in ltail..(ltail + n - 1) => Behind(i) = 0 \/ Behind(lhead) + 1 < Behind(i)
    BY <1>1, <2>1, TailMoves
  <2>6. Behind(i) \in Nat /\ Behind(lhead) \in Nat
    BY <1>1, <2>3, BehindFacts
  <2>7. i \notin ltail..(ltail + n - 1)
    BY <2>3, <2>4, <2>5, <2>6
  <2> QED BY <2>1, <2>7
<1>3. CASE ~PutTurn
  BY <1>3 DEF Next, SenderStep, Nic, ReceiverStep, vars, PutBytes, Flush, PutFull,
     FlushNothing, FlushReturn, PollBatch, FlushFirst, FlushSecond, FlushTail, FlushWait,
     NicWrite, NicCas, NicRead, GetBytes, GetSlice, GetCopy, GetAdvance, local
<1> QED BY <1>2, <1>3

(* put_bytes never overwrites a byte that the NIC has still to fetch.      *)
THEOREM PendingBytesSafe == Spec => PendingBytesKept
<1>1. RdmaInv /\ StreamInv /\ [Next]_vars =>
        [\A i \in Index, w \in 1..Len(sq) :
           sq[w].op = "write" /\ i \in Slots(sq[w]) => lbuf'[i] = lbuf[i]]_vars
  BY PendingKept
<1>2. QED
  BY <1>1, StreamInvariance, PTL DEF Spec, PendingBytesKept

-----------------------------------------------------------------------------
(* The bounded in-order channel                                            *)

(* The bytes published lie between those read and the capacity.            *)
LEMMA CoveredBounds ==
  ASSUME RdmaInv, StreamInv
  PROVE  /\ Covered(rtail) \in Int /\ Len(got) \in Nat
         /\ \A i \in Index : Covered(i) = next - 1 - Behind(i)
         /\ next - 1 - Len(got) <= Capacity - 1
<1>1. TypeOK /\ GotInv
  BY DEF RdmaInv, StreamInv
<1>2. \A i \in Index : Covered(i) = next - 1 - Behind(i)
  BY DEF Covered, Behind
<1>3. /\ rtail \in Index /\ rhead \in Index /\ next \in Nat /\ readLen \in Nat
      /\ Len(got) \in Nat /\ Capacity \in Nat
  BY <1>1, CapacityAssumption, RdmaAssumption DEF TypeOK
<1>4. Behind(rtail) \in 0..(Capacity - 1) /\ Behind(rhead) \in 0..(Capacity - 1)
  BY <1>1, <1>3, BehindFacts
<1>5. Len(got) >= Covered(rhead)
  <2>1. Len(got) = Covered(rhead) + (IF getPc = "advance" THEN readLen ELSE 0)
    BY <1>1 DEF GotInv
  <2>2. Covered(rhead) \in Int
    BY <1>2, <1>3, <1>4
  <2> QED BY <1>3, <2>1, <2>2
<1> QED BY <1>2, <1>3, <1>4, <1>5

(* A step that leaves the receiver's tail, the count of what was put and   *)
(* what was read alone.                                                    *)
LEMMA ChannelSame ==
  ASSUME UNCHANGED <<rtail, ltail, next, got>>
  PROVE  UNCHANGED <<Covered(rtail), got>>
BY DEF Covered

(* put_bytes alone publishes nothing.                                      *)
LEMMA PutTurnHidden ==
  ASSUME RdmaInv, StreamInv, PutTurn
  PROVE  UNCHANGED <<Covered(rtail), got>>
<1>1. TypeOK
  BY DEF RdmaInv
<1>2. PICK n \in Nat :
        /\ Behind(lhead) + n <= Capacity - 1 /\ ltail + n <= Capacity
        /\ ltail' = Advance(ltail, n) /\ next' = next + n
  BY TurnFacts
<1>3. Behind(rtail) <= Behind(lhead) /\ rtail \in Index
  BY WithinReach DEF StreamInv, FlightInv
<1>4. Behind(rtail) \in Nat /\ next \in Nat
  BY <1>1, <1>3, BehindFacts
<1>5. NumBytesStored(rtail, ltail') = Behind(rtail) + n
  BY <1>1, <1>2, <1>3, TailMoves DEF Behind
<1>6. rtail' = rtail /\ got' = got
  BY DEF PutTurn, remote, getVars
<1>7. Covered(rtail)' = next' - 1 - (Behind(rtail) + n)
  BY <1>5, <1>6 DEF Covered
<1>8. Covered(rtail) = next - 1 - Behind(rtail)
  BY DEF Covered, Behind
<1> QED BY <1>2, <1>4, <1>6, <1>7, <1>8

(* A compare-and-swap of the tail publishes bytes, if any are new.         *)
LEMMA NicCasSends ==
  ASSUME RdmaInv, StreamInv, NicCas
  PROVE  \/ UNCHANGED <<Covered(rtail), got>>
         \/ \E n \in 1..(Capacity - 1) : Channel!Send(n)
<1>1. TypeOK /\ OrderInv
  BY DEF RdmaInv, StreamInv
<1>2. RdmaInv' /\ StreamInv'
  BY NicPreserves, NicStreams DEF Nic
<1>3. /\ ltail' = ltail /\ next' = next /\ got' = got
  BY DEF NicCas, Complete, local, putVars, getVars
<1>4. PICK f \in [1..(Len(sq) + 1) -> Index] : TailsAhead(f) /\ InFlight(f)
  BY DEF StreamInv, FlightInv
<1>5. rtail' = f[2] /\ 2 \in 1..(Len(sq) + 1)
  <2>1. sq # <<>> /\ Head(sq).op = "cas"
    BY DEF NicCas, Oldest
  <2>2. Len(sq) \in Nat \ {0} /\ Head(sq) = sq[1]
    BY <1>1, <2>1, QueueTypes, OldestGone
  <2>3. 1 \in 1..Len(sq) /\ 2 \in 1..(Len(sq) + 1)
    BY <2>2
  <2>4. f[1] = rtail /\ f[1] = sq[1].compare /\ f[1 + 1] = sq[1].swap
    BY <1>4, <2>1, <2>2, <2>3 DEF TailsAhead
  <2> QED BY <2>2, <2>3, <2>4 DEF NicCas
<1>6. f[2] \in Index /\ Behind(f[2]) <= Behind(rtail) /\ rtail \in Index
  BY <1>4, <1>5, WithinReach
<1>7. /\ Behind(f[2]) \in 0..(Capacity - 1) /\ Behind(rtail) \in 0..(Capacity - 1)
      /\ Capacity \in Nat /\ next \in Nat
  BY <1>1, <1>6, BehindFacts
<1>8. /\ Covered(rtail) = next - 1 - Behind(rtail)
      /\ Covered(rtail)' = next - 1 - Behind(f[2])
  BY <1>3, <1>5 DEF Covered, Behind
<1>9. /\ Len(got) \in Nat /\ next - 1 - Len(got) <= Capacity - 1
      /\ Covered(rtail) \in Int
  BY CoveredBounds
<1>10. CASE Behind(f[2]) = Behind(rtail)
  BY <1>3, <1>8, <1>10
<1>11. CASE Behind(f[2]) # Behind(rtail)
  <2>1. PICK n \in 1..(Capacity - 1) : n = Behind(rtail) - Behind(f[2])
    BY <1>6, <1>7, <1>11
  <2>2. Covered(rtail)' = Covered(rtail) + n
    BY <1>7, <1>8, <2>1
  <2>3. Covered(rtail) + n - Len(got) <= Capacity - 1
    <3>1. Covered(rtail) + n = next - 1 - Behind(f[2])
      BY <1>7, <1>8, <2>1
    <3>2. Behind(f[2]) \in Nat
      BY <1>7
    <3>3. next - 1 - Behind(f[2]) - Len(got) <= Capacity - 1
      BY <1>7, <1>9, <3>2
    <3> QED BY <1>7, <1>9, <3>1, <3>2, <3>3
  <2> QED BY <1>3, <2>2, <2>3 DEF Channel!Send
<1> QED BY <1>10, <1>11

(* get_bytes receives when it copies its slice.                            *)
LEMMA GetCopyReceives ==
  ASSUME RdmaInv, StreamInv, GetCopy
  PROVE  \/ UNCHANGED <<Covered(rtail), got>>
         \/ \E n \in 1..(Capacity - 1) : Channel!Receive(n)
<1>1. /\ got' = got \o [i \in 1..readLen |-> Len(got) + i]
      /\ Len(got) + readLen <= Covered(rtail) /\ readLen \in 0..(Capacity - 1)
  BY CopyFacts
<1>2. got \in Seq(Nat)
  BY DEF RdmaInv, TypeOK
<1>3. Covered(rtail)' = Covered(rtail)
  BY DEF GetCopy, remote, local, putVars, Covered
<1>4. CASE readLen = 0
  <2>1. [i \in 1..readLen |-> Len(got) + i] = <<>>
    BY <1>4
  <2>2. got \o <<>> = got
    BY <1>2
  <2>3. got' = got
    BY <1>1, <2>1, <2>2
  <2> QED BY <1>3, <2>3
<1>5. CASE readLen # 0
  <2>1. readLen \in 1..(Capacity - 1)
    BY <1>1, <1>5, CapacityAssumption
  <2>2. Channel!Receive(readLen)
    BY <1>1, <1>3 DEF Channel!Receive
  <2> QED BY <2>1, <2>2
<1> QED BY <1>4, <1>5

(* The ring over RDMA implements the bounded in-order channel: the         *)
(* compare-and-swap of the tail sends, copying a slice receives, and all   *)
(* other steps are internal.                                               *)
THEOREM RdmaImplementsByteChannel == Spec => RefinesByteChannel
<1>1. Init => Channel!ChanInit
  BY DEF Init, Channel!ChanInit, Covered, NumBytesStored
<1>2. RdmaInv /\ StreamInv /\ [Next]_vars => [Channel!ChanNext]_(Channel!chanVars)
  <2> SUFFICES ASSUME RdmaInv, StreamInv, [Next]_vars
               PROVE  \/ UNCHANGED <<Covered(rtail), got>>
                      \/ \E n \in 1..(Capacity - 1) : Channel!Send(n)
                      \/ \E n \in 1..(Capacity - 1) : Channel!Receive(n)
    BY DEF Channel!ChanNext, Channel!chanVars
  <2>1. CASE PutTurn
    BY <2>1, PutTurnHidden
  <2>2. CASE NicCas
    BY <2>2, NicCasSends
  <2>3. CASE GetCopy
    BY <2>3, GetCopyReceives
  <2>4. CASE ~PutTurn /\ ~NicCas /\ ~GetCopy
    <3>1. UNCHANGED <<rtail, ltail, next, got>>
      BY <2>4 DEF Next, SenderStep, Nic, ReceiverStep, vars, PutBytes, Flush, PutFull,
         FlushNothing, FlushReturn, PollBatch, FlushFirst, FlushSecond, FlushTail,
         FlushWait, NicWrite, NicRead, GetBytes, GetSlice, GetAdvance, Complete,
         local, remote, putVars, getVars
    <3> QED BY <3>1, ChannelSame
  <2> QED BY <2>1, <2>2, <2>3, <2>4
<1>3. QED
  BY <1>1, <1>2, StreamInvariance, PTL DEF Spec, RefinesByteChannel, Channel!ChanSpec
=============================================================================

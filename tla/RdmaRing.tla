------------------------------ MODULE RdmaRing ------------------------------
(***************************************************************************)
(* The ring over RDMA (network/src/ringbufferchannel/rdma.rs).  Each end   *)
(* has a memory region of its own.  put_bytes works on the sender's region *)
(* alone; flush_out posts work requests that copy the new bytes and then   *)
(* the tail into the receiver's region, and reads the receiver's head back *)
(* while the sender's ring is full.  The NIC executes the requests in the  *)
(* order they were posted, at any later time, and reads the sender's       *)
(* region when it does.  As in RingBuffer a byte is its position in the    *)
(* stream.                                                                 *)
(*                                                                         *)
(* Only every SignalInterval-th request (and every read) leaves an entry   *)
(* in the completion queue; polling one retires all requests up to it, and *)
(* at most MaxSendWr may be posted and not retired.  Requests are numbered *)
(* one by one, so the numbers of those in the send queue are the last ones *)
(* given out.  Numbers are only compared with one another and taken modulo *)
(* SignalInterval, so they are kept relative to the last poll (Rebase).    *)
(***************************************************************************)
EXTENDS RingIndex, Sequences

CONSTANTS MaxSendWr, SignalInterval,
          MaxLen,     \* bound: longest src / dst of one call
          MaxBytes    \* bound: bytes sent in a whole behaviour

ASSUME RdmaAssumption ==
  /\ MaxSendWr \in Nat /\ SignalInterval \in Nat
  /\ SignalInterval >= 2 /\ MaxSendWr >= 2 * SignalInterval
  /\ MaxLen \in Nat /\ MaxBytes \in Nat

NoPoll == -1

VARIABLES lhead, ltail, lbuf,               \* the sender's region
          rhead, rtail, rbuf,               \* the receiver's region
          sq, cq, retired,                  \* the queue pair
          nextReq, lastPoll, lastTail,      \* the sender's RDMAChannel
          pollFor,                          \* the wr_id poll_batch waits for
          putPc, putLen, inPut, next,       \* put_bytes and flush_out
          getPc, getLen, readHead, readLen, got      \* get_bytes

local == <<lhead, ltail, lbuf>>
remote == <<rhead, rtail, rbuf>>
queuePair == <<sq, cq, retired>>
channel == <<nextReq, lastPoll, lastTail, pollFor>>
putVars == <<putPc, putLen, inPut, next>>
getVars == <<getPc, getLen, readHead, readLen, got>>
vars == <<local, remote, queuePair, channel, putVars, getVars>>

Init ==
  /\ lhead = 0 /\ ltail = 0 /\ lbuf = [i \in Index |-> 0]
  /\ rhead = 0 /\ rtail = 0 /\ rbuf = [i \in Index |-> 0]
  /\ sq = <<>> /\ cq = <<>> /\ retired = 0
  /\ nextReq = 0 /\ lastPoll = 0 /\ lastTail = 0 /\ pollFor = NoPoll
  /\ putPc = "idle" /\ putLen = 0 /\ inPut = FALSE /\ next = 1
  /\ getPc = "idle" /\ getLen = 0 /\ readHead = 0 /\ readLen = 0 /\ got = <<>>

-----------------------------------------------------------------------------
(* put_bytes, on the sender's own region                                   *)

(* The sending thread goes from one place to the next, outside poll_batch. *)
Sender(from, to) == putPc = from /\ pollFor = NoPoll /\ putPc' = to

PutBytes(n) ==
  /\ next - 1 + n <= MaxBytes
  /\ Sender("idle", "turn")
  /\ putLen' = n /\ inPut' = TRUE
  /\ UNCHANGED <<next, local, remote, queuePair, channel, getVars>>

(* The top of the loop finds the ring full, as far as the sender knows.    *)
PutFull ==
  /\ IsFull(lhead, ltail)
  /\ Sender("turn", "first")
  /\ UNCHANGED <<putLen, inPut, next, local, remote, queuePair, channel, getVars>>

(* One turn of the loop.  Nobody else writes the sender's region here:     *)
(* lhead only changes inside read_remote.                                  *)
PutTurn ==
  LET len == Min2(ContiguousWriteLen(lhead, ltail), putLen)
  IN  /\ putPc = "turn" => ~IsFull(lhead, ltail)
      /\ \E from \in {"turn", "copy"} :
           Sender(from, IF putLen = len THEN "idle" ELSE "turn")
      /\ lbuf' = [i \in Index |-> IF i \in ltail..(ltail + len - 1)
                                  THEN next + (i - ltail) ELSE lbuf[i]]
      /\ ltail' = Advance(ltail, len)
      /\ putLen' = putLen - len /\ next' = next + len
      /\ UNCHANGED <<lhead, inPut, remote, queuePair, channel, getVars>>

(* SendChannel::flush at the end of a send session.                        *)
Flush ==
  /\ Sender("idle", "first")
  /\ inPut' = FALSE
  /\ UNCHANGED <<putLen, next, local, remote, queuePair, channel, getVars>>

-----------------------------------------------------------------------------
(* Posting and polling                                                     *)

(* Mutant: one signaled request per length of the queue.                   *)
Signaled_Seldom(wr, id) == wr.op = "read" \/ id % MaxSendWr = 0

Signaled(wr, id) == wr.op = "read" \/ id % SignalInterval = 0

(* Mutant: the queue is thought to have room for all of its requests.      *)
PollAfter_Late(id) == IF lastPoll + MaxSendWr < id THEN lastPoll ELSE NoPoll

(* What write_remote and write_tail_remote wait for after posting id.      *)
PollAfter(id) ==
  IF lastPoll + (MaxSendWr - SignalInterval) < id THEN lastPoll ELSE NoPoll

Post(wr) ==
  /\ sq' = Append(sq, wr)
  /\ nextReq' = nextReq + 1
  /\ UNCHANGED <<cq, retired, lastPoll>>

(* write_remote of len bytes of the data area from offset off.             *)
WriteRemote(off, len) ==
  /\ Post([op |-> "write", off |-> off, len |-> len])
  /\ pollFor' = PollAfter(nextReq)

(* Mutant: last_tail is set before it is used.                             *)
WriteTailRemote_SetsFirst(tail) ==
  /\ Post([op |-> "cas", compare |-> tail, swap |-> tail])
  /\ pollFor' = PollAfter(nextReq)

(* write_tail_remote: compare-and-swap of the receiver's tail.             *)
WriteTailRemote(tail) ==
  /\ Post([op |-> "cas", compare |-> lastTail, swap |-> tail])
  /\ pollFor' = PollAfter(nextReq)

(* read_remote of the receiver's head: signaled, and waited for.           *)
ReadRemoteHead ==
  /\ Post([op |-> "read"])
  /\ pollFor' = nextReq

Batch == MaxSendWr \div SignalInterval

(* poll_batch: take what is in the completion queue, up to a batch, until  *)
(* the wanted request is among it.                                         *)
PollBatch ==
  LET n    == Min2(Len(cq), Batch)
      last == cq[n]
      base == SignalInterval * (last \div SignalInterval)
      Rebase(id) == id - base
  IN  /\ pollFor # NoPoll /\ cq # <<>>
      /\ cq' = [i \in 1..(Len(cq) - n) |-> Rebase(cq[n + i])]
      /\ lastPoll' = Rebase(last) /\ retired' = Rebase(last + 1)
      /\ nextReq' = Rebase(nextReq)
      /\ pollFor' = IF last >= pollFor THEN NoPoll ELSE Rebase(pollFor)
      /\ UNCHANGED <<sq, lastTail, local, remote, putVars, getVars>>

-----------------------------------------------------------------------------
(* flush_out                                                               *)

(* Mutant: a ring that has wrapped is sent from last_tail on only.         *)
FlushFirst_NoSecond ==
  /\ lastTail # ltail
  /\ Sender("first", "cas")
  /\ WriteRemote(lastTail, IF lastTail < ltail THEN ltail - lastTail
                                               ELSE Capacity - lastTail)
  /\ UNCHANGED <<lastTail, putLen, inPut, next, local, remote, getVars>>

(* The new bytes, as far as they are contiguous.                           *)
FlushFirst ==
  /\ lastTail # ltail
  /\ Sender("first", IF lastTail < ltail THEN "cas" ELSE "second")
  /\ WriteRemote(lastTail, IF lastTail < ltail THEN ltail - lastTail
                                               ELSE Capacity - lastTail)
  /\ UNCHANGED <<lastTail, putLen, inPut, next, local, remote, getVars>>

FlushNothing ==
  /\ lastTail = ltail
  /\ Sender("first", "cas")
  /\ UNCHANGED <<putLen, inPut, next, local, remote, queuePair, channel, getVars>>

(* The rest of them, possibly none, from the start of the data area.       *)
FlushSecond ==
  /\ Sender("second", "cas")
  /\ WriteRemote(0, ltail)
  /\ UNCHANGED <<lastTail, putLen, inPut, next, local, remote, getVars>>

(* Mutant: the tail is taken for sent.                                     *)
FlushTail_SkipsTail ==
  /\ Sender("cas", "wait")
  /\ lastTail' = ltail
  /\ UNCHANGED <<nextReq, lastPoll, pollFor, queuePair, putLen, inPut, next,
                 local, remote, getVars>>

FlushTail ==
  /\ Sender("cas", "wait")
  /\ WriteTailRemote(ltail)
  /\ lastTail' = ltail
  /\ UNCHANGED <<putLen, inPut, next, local, remote, getVars>>

(* while self.is_full() { read_remote(HEAD_OFF) }                          *)
FlushWait ==
  /\ IsFull(lhead, ltail)
  /\ Sender("wait", "wait")
  /\ ReadRemoteHead
  /\ UNCHANGED <<lastTail, putLen, inPut, next, local, remote, getVars>>

(* flush_out returns, to put_bytes with its slice still to take.           *)
FlushReturn ==
  /\ ~IsFull(lhead, ltail)
  /\ Sender("wait", IF inPut THEN "copy" ELSE "idle")
  /\ UNCHANGED <<putLen, inPut, next, local, remote, queuePair, channel, getVars>>

-----------------------------------------------------------------------------
(* The NIC executes the oldest request                                     *)

OldestId == nextReq - Len(sq)

Complete ==
  /\ sq' = Tail(sq)
  /\ cq' = IF Signaled(Head(sq), OldestId) THEN Append(cq, OldestId) ELSE cq
  /\ UNCHANGED <<retired, channel, putVars, getVars>>

Oldest(op) == sq # <<>> /\ Head(sq).op = op

Slots(wr) == wr.off..(wr.off + wr.len - 1)

NicWrite ==
  /\ Oldest("write")
  /\ rbuf' = [i \in Index |-> IF i \in Slots(Head(sq)) THEN lbuf[i] ELSE rbuf[i]]
  /\ Complete
  /\ UNCHANGED <<local, rhead, rtail>>

NicCas ==
  /\ Oldest("cas")
  /\ rtail' = IF rtail = Head(sq).compare THEN Head(sq).swap ELSE rtail
  /\ Complete
  /\ UNCHANGED <<local, rhead, rbuf>>

NicRead ==
  /\ Oldest("read")
  /\ lhead' = rhead
  /\ Complete
  /\ UNCHANGED <<ltail, lbuf, remote>>

-----------------------------------------------------------------------------
(* get_bytes, on the receiver's own region                                 *)

GetBytes(n) ==
  /\ getPc = "idle"
  /\ getPc' = "try" /\ getLen' = n
  /\ UNCHANGED <<readHead, readLen, got, local, remote, queuePair, channel, putVars>>

(* try_get_bytes finds bytes, and takes a slice of them.                   *)
GetSlice ==
  /\ getPc = "try" /\ ~IsEmpty(rhead, rtail)
  /\ getPc' = "copy"
  /\ readHead' = rhead /\ readLen' = Min2(ContiguousReadLen(rtail, rhead), getLen)
  /\ UNCHANGED <<getLen, got, local, remote, queuePair, channel, putVars>>

GetCopy ==
  /\ getPc = "copy"
  /\ getPc' = "advance"
  /\ got' = got \o [i \in 1..readLen |-> rbuf[readHead + i - 1]]
  /\ UNCHANGED <<getLen, readHead, readLen, local, remote, queuePair, channel,
                 putVars>>

GetAdvance ==
  /\ getPc = "advance"
  /\ getPc' = IF getLen = readLen THEN "idle" ELSE "try"
  /\ getLen' = getLen - readLen
  /\ rhead' = Advance(readHead, readLen)
  /\ UNCHANGED <<readHead, readLen, got, local, rtail, rbuf, queuePair, channel,
                 putVars>>

-----------------------------------------------------------------------------
SenderStep ==
  \/ PutFull \/ PutTurn \/ PollBatch
  \/ FlushFirst \/ FlushNothing \/ FlushSecond \/ FlushTail \/ FlushWait
  \/ FlushReturn

Nic == NicWrite \/ NicCas \/ NicRead

ReceiverStep ==
  GetSlice \/ GetCopy \/ GetAdvance \/ \E n \in 1..MaxLen : GetBytes(n)

Next ==
  \/ \E n \in 1..MaxLen : PutBytes(n)
  \/ Flush
  \/ SenderStep \/ Nic \/ ReceiverStep

Spec == Init /\ [][Next]_vars

(* A thread inside put_bytes or flush_out keeps running, the NIC works off *)
(* its queue, and the receiving loop asks for the next bytes.              *)
FairSpec ==
  Spec /\ WF_vars(SenderStep) /\ WF_vars(Nic) /\ WF_vars(ReceiverStep)

-----------------------------------------------------------------------------
(* Properties                                                              *)

WorkRequest == [op : {"write"}, off : Index, len : 0..Capacity]
                 \cup [op : {"cas"}, compare : Index, swap : Index]
                 \cup [op : {"read"}]

(* Every variable has its type, and every write stays in the data area.    *)
TypeOK ==
  /\ lhead \in Index /\ ltail \in Index /\ lbuf \in [Index -> Nat]
  /\ rhead \in Index /\ rtail \in Index /\ rbuf \in [Index -> Nat]
  /\ sq \in Seq(WorkRequest) /\ cq \in Seq(Nat) /\ retired \in Nat
  /\ \A i \in 1..Len(sq) : sq[i].op = "write" => Slots(sq[i]) \subseteq Index
  /\ nextReq \in Nat /\ lastPoll \in Nat /\ lastTail \in Index
  /\ pollFor \in Nat \cup {NoPoll}
  /\ putPc \in {"idle", "turn", "copy", "first", "second", "cas", "wait"}
  /\ putLen \in 0..MaxLen /\ inPut \in BOOLEAN /\ next \in 1..(MaxBytes + 1)
  /\ getPc \in {"idle", "try", "copy", "advance"} /\ getLen \in 0..MaxLen
  /\ readHead \in Index /\ readLen \in 0..Capacity /\ got \in Seq(Nat)

(* post_send never finds the send queue full, which would end the process  *)
(* in an unwrap: although most requests leave no completion and reads are  *)
(* posted without a look at last_poll, at most MaxSendWr requests are      *)
(* posted and not yet known to be done.                                    *)
SendQueueBound == nextReq - retired <= MaxSendWr

(* The compare-and-swap of the tail, executed long after last_tail was     *)
(* read for it, never fails.                                               *)
TailSwapSucceeds ==
  Oldest("cas") => rtail = Head(sq).compare

(* put_bytes never overwrites a byte that the NIC has still to fetch: what *)
(* the stale copy of head says is free has really left.                    *)
PendingBytesKept ==
  [][\A i \in Index, w \in 1..Len(sq) :
       sq[w].op = "write" /\ i \in Slots(sq[w]) => lbuf'[i] = lbuf[i]]_vars

(* How many bytes the tails cover, counted back from what put_bytes took.  *)
Covered(tail) == next - 1 - NumBytesStored(tail, ltail)

(* Seen from the receiver the channel is the same bounded in-order channel *)
(* as over shared memory: no byte is published before it has arrived.      *)
Channel == INSTANCE ByteChannel WITH sent <- Covered(rtail)
RefinesByteChannel == Channel!ChanSpec

(* Every byte that was flushed out is eventually received.                 *)
FlushedDelivered == \A k \in 1..MaxBytes : Covered(lastTail) >= k ~> Len(got) >= k

(* put_bytes and flush return: neither the wait for a completion nor the   *)
(* wait for room lasts forever.                                            *)
PutReturns == putPc # "idle" ~> putPc = "idle"
=============================================================================

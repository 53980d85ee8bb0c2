---------------------------- MODULE ByteChannel ----------------------------
(***************************************************************************)
(* What a communication channel promises its two ends (the SendChannel and *)
(* RecvChannel traits, network/src/type_impl/mod.rs): a bounded stream of  *)
(* bytes that arrive once each, in order and unchanged.  Only the position *)
(* of a byte in the stream is kept: the k-th byte handed to put_bytes is   *)
(* the number k.                                                           *)
(***************************************************************************)
EXTENDS Integers, Sequences

CONSTANT Capacity    \* length of the ring the bytes wait in

VARIABLES sent,      \* how many bytes have been published
          got        \* the bytes the receiving end has taken out, in order

chanVars == <<sent, got>>

ChanInit == sent = 0 /\ got = <<>>

(* put_bytes publishes n more bytes; a ring of Capacity holds Capacity-1.  *)
Send(n) ==
  /\ sent + n - Len(got) <= Capacity - 1
  /\ sent' = sent + n
  /\ got' = got

(* get_bytes takes out the n oldest bytes that are still in the channel.   *)
Receive(n) ==
  /\ Len(got) + n <= sent
  /\ got' = got \o [i \in 1..n |-> Len(got) + i]
  /\ sent' = sent

ChanNext == \E n \in 1..(Capacity - 1) : Send(n) \/ Receive(n)

ChanSpec == ChanInit /\ [][ChanNext]_chanVars
=============================================================================

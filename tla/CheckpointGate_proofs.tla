----------------------- MODULE CheckpointGate_proofs -----------------------
(***************************************************************************)
(* The checkpoint protocol of a worker for any number of threads, calls    *)
(* and arguments: a dump finds every client between two calls, no lock is  *)
(* left behind, a snapshot survives until it is used, and a checkpoint     *)
(* implements StopTheWorld.                                                *)
(***************************************************************************)
EXTENDS CheckpointGate, FiniteSetTheorems, TLAPS

-----------------------------------------------------------------------------
(* The inductive invariant                                                 *)

(* Chunks of one request.                                                  *)
K == NArgs + 1

(* Where a server thread that takes part in the protocol, or may again, is.*)
Live == Receiving \cup Guarded \cup
        {"none", "start", "attach", "handles", "replay", "ckpt", "detached",
         "panic_buffer"}
Serving == {"args", "argsFlag", "exec"}
InACall == {"send", "wait", "after"}

(* The chunks a client has sent, and its server thread received, so far.   *)
Sent(t) == K * issued[t] + (IF client[t] = "send" THEN K - toSend[t] ELSE 0)
Got(t) == K * executed[t] + (IF server[t] \in {"args", "argsFlag"}
                             THEN K - toRecv[t]
                             ELSE IF server[t] = "exec" THEN K ELSE 0)

(* The position of the proc_id of the call with results that the client is *)
(* sending or waiting for; -1 if there is none.                            *)
SyncStart(t) ==
  IF client[t] = "send" /\ kind[t] = "sync" THEN K * issued[t]
  ELSE IF client[t] = "wait" THEN K * (issued[t] - 1) ELSE -1

Left(t) == client[t] \in {"gone", "killed"}

(* The ring holds the chunks from position got up to sent, and at most a   *)
(* farewell behind them.  A proc_id is where a request begins, and one of  *)
(* a call with results only at position sync.                              *)
Stream(s, sent, got, sync, left) ==
  /\ got <= sent
  /\ \/ Len(s) = sent - got
     \/ Len(s) = sent - got + 1 /\ left
  /\ \A i \in 1..Len(s) :
       /\ s[i] = "exit" <=> i = sent - got + 1
       /\ s[i] = "arg" => \A j \in Nat : got + i - 1 # K * j
       /\ s[i] = "sync" => got + i - 1 = sync

(* The flag and the rings agree with where client and server are: the bit  *)
(* IN_USE is set from before_call to after_call, and a result is there     *)
(* only for a client that waits for it.                                    *)
CallInv(t) ==
  server[t] \in Live =>
    /\ IN_USE \in flag[t] <=> client[t] \in InACall
    /\ Stream(ctos[t], Sent(t), Got(t), SyncStart(t), Left(t))
    /\ \/ stoc[t] = <<>>
       \/ client[t] = "wait" /\ Len(stoc[t]) = 1 /\ issued[t] = executed[t]
    /\ server[t] \in Serving /\ call[t] = "sync"
         => K * executed[t] = SyncStart(t)

CountInv(t) ==
  /\ client[t] \in {"before", "send"} => issued[t] < MaxCalls
  /\ client[t] = "wait" => issued[t] > 0
  /\ client[t] = "send" => toSend[t] > 0
  /\ server[t] \in {"args", "argsFlag"} => toRecv[t] > 0

(* Stopped between two calls: from the second look at the empty ring to    *)
(* the end of the checkpoint, and while detached until the attach.         *)
Parked(t) ==
  \/ server[t] \in {"recv2Flag", "ckpt", "wait1", "dump", "wait2",
                    "detached", "attach", "panic_buffer"}
  \/ server[t] = "start" /\ attached[t]

(* A parked thread has its client locked out, between two calls.           *)
LockInv(t) ==
  /\ server[t] = "none" =>
       flag[t] = {} /\ client[t] \in {"none", "killed"} /\ ~attached[t]
  /\ server[t] = "start" /\ ~attached[t] => WRITE_DISABLED \notin flag[t]
  /\ server[t] = "recv2" => Locked(t)
  /\ Parked(t) => Locked(t) /\ Quiet(t)

(* The rings hold a snapshot from the dump to the attach.                  *)
HoldsSnapshot(t) ==
  \/ server[t] \in {"detached", "attach"}
  \/ server[t] = "start" /\ attached[t]
  \/ server[t] = "wait2" /\ mode = "Detach"

SnapInv(t) ==
  /\ HoldsSnapshot(t) => client[t] = "gone" \/ snap[t] = "valid"
  /\ server[t] \in {"detached", "attach", "handles", "replay"} \/ attached[t]
     => Threads = {Main}

Alive(t) == server[t] \notin Finished

(* The lock is off, and the thread not on its way into a checkpoint.       *)
Open(t) ==
  /\ server[t] \notin {"recv2", "recv2Flag", "ckpt", "wait1", "dump"}
  /\ server[t] \in Receiving => WRITE_DISABLED \notin flag[t]

(* Parties of the barrier that are at a wait: threads, and the control     *)
(* task.                                                                   *)
Here(place) == {t \in parties : server[t] = place}
               \cup (IF ctl = place THEN {Control} ELSE {})

(* Between checkpoints.                                                    *)
Idle ==
  /\ gen \in {0, 2}
  /\ \A t \in Threads : /\ Alive(t) => t \in threads
                        /\ Open(t) /\ server[t] # "wait2"

(* The worker process has ended.                                           *)
Over == gen \in {0, 2} /\ \A t \in Threads : server[t] = "finished"

(* The three phases of a checkpoint: before the barrier opens for the      *)
(* first time, between its two openings, and after the second.             *)
Gathering ==
  /\ ctl \in {"flags", "wait1"} /\ gen = 0
  /\ arrived = Here("wait1")
  /\ \A t \in Threads : server[t] \notin {"dump", "wait2"}

Frozen ==
  /\ ctl \in {"wait1", "dump", "wait2"} /\ gen = 1
  /\ arrived = Here("wait2")
  /\ \A t \in parties : server[t] \in Guarded \cup {"panic_buffer"}

Leaving ==
  /\ ctl = "wait2" /\ gen = 2
  /\ \A t \in Threads : Open(t)

Round ==
  /\ parties # {} /\ parties \subseteq threads
  /\ \A t \in Threads : Alive(t) => t \in parties
  /\ ctl # "flags" => flags = parties
  /\ Gathering \/ Frozen \/ Leaving

CtlInv ==
  /\ mode = "Detach" => Threads = {Main}
  /\ \A t \in flags : server[t] \notin {"none", "start"}
  /\ ctl \in {"idle", "wait1", "dump", "wait2"} => toLock = {}
  /\ ctl = "idle" => Idle
  /\ ctl \in {"gone", "panicked"} => Over
  /\ ctl \in {"flags", "wait1", "dump", "wait2"} => Round

ThreadInv(t) == CallInv(t) /\ CountInv(t) /\ LockInv(t) /\ SnapInv(t)

GateInv == TypeOK /\ (\A t \in Threads : ThreadInv(t)) /\ CtlInv

-----------------------------------------------------------------------------
(* Lemmas: multiples of K, the stream of chunks, the barrier               *)

(* The types of the constants.                                             *)
LEMMA ConstantTypes ==
  /\ NArgs \in Nat /\ MaxCalls \in Nat /\ MaxCkpts \in Nat
  /\ Kinds \subseteq {"sync", "async"}
  /\ Modes \subseteq {"Kill", "LeaveRunning", "Detach"}
BY GateAssumption

(* A request has at least its proc_id.                                     *)
LEMMA KPositive == K \in Nat /\ K > 0
BY GateAssumption DEF K

(* Multiples of K are ordered as their factors, and K apart.               *)
LEMMA Multiples ==
  ASSUME NEW a \in Nat, NEW b \in Nat
  PROVE  /\ K * a \in Nat
         /\ a < b => K * a + K <= K * b
         /\ K * (a + 1) = K * a + K
<1>1. K \in Nat /\ K > 0
  BY KPositive
<1> HIDE DEF K
<1>2. K * (a + 1) = K * a + K
  BY <1>1
<1>3. ASSUME a < b PROVE K * a + K <= K * b
  <2>1. PICK d \in Nat : b = a + 1 + d
    <3>1. b - a - 1 \in Nat /\ b = a + 1 + (b - a - 1)
      BY <1>3
    <3> QED BY <3>1
  <2>2. K * b = K * a + K + K * d
    BY <1>1, <2>1
  <2>3. K * d >= 0 /\ K * d \in Int /\ K * a \in Int
    BY <1>1
  <2> QED BY <1>1, <2>2, <2>3
<1>4. K * a \in Nat
  BY <1>1
<1> QED BY <1>2, <1>3, <1>4

(* The chunks of the requests before the current one cannot be confused    *)
(* with part of it.                                                        *)
LEMMA SameRequest ==
  ASSUME NEW a \in Nat, NEW b \in Nat, NEW m \in 0..(K - 1), NEW n \in 0..(K - 1),
         K * a + m = K * b + n
  PROVE  a = b /\ m = n
<1>1. K \in Nat /\ K > 0
  BY KPositive
<1>2. /\ K * a \in Nat /\ K * b \in Nat
      /\ a < b => K * a + K <= K * b
      /\ b < a => K * b + K <= K * a
  BY Multiples
<1> HIDE DEF K
<1>3. a = b
  BY <1>1, <1>2
<1> QED BY <1>1, <1>2, <1>3

(* A sequence of length 0 is empty.                                        *)
LEMMA EmptySequence ==
  ASSUME NEW S, NEW s \in Seq(S), Len(s) = 0
  PROVE  s = <<>>
OBVIOUS

(* Nothing is left of a sequence of length 1.                              *)
LEMMA SingletonTail ==
  ASSUME NEW S, NEW s \in Seq(S), Len(s) = 1
  PROVE  Tail(s) = <<>>
<1>1. s # <<>>
  OBVIOUS
<1>2. Tail(s) \in Seq(S) /\ Len(Tail(s)) = 0
  BY <1>1
<1> QED BY <1>2, EmptySequence

(* Receiving a chunk of a request.                                         *)
LEMMA StreamTail ==
  ASSUME NEW S, NEW s \in Seq(S), NEW sent \in Nat, NEW got \in Nat,
         NEW sync \in Int, NEW left,
         Stream(s, sent, got, sync, left), s # <<>>, Head(s) # "exit"
  PROVE  Stream(Tail(s), sent, got + 1, sync, left)
<1>1. /\ Len(s) \in Nat /\ Len(s) > 0 /\ Len(Tail(s)) = Len(s) - 1
      /\ Head(s) = s[1]
      /\ \A i \in 1..Len(Tail(s)) : Tail(s)[i] = s[i + 1]
  OBVIOUS
<1>2. got + 1 <= sent
  BY <1>1 DEF Stream
<1>3. \/ Len(Tail(s)) = sent - (got + 1)
      \/ Len(Tail(s)) = sent - (got + 1) + 1 /\ left
  BY <1>1 DEF Stream
<1>4. ASSUME NEW i \in 1..Len(Tail(s))
      PROVE  /\ Tail(s)[i] = "exit" <=> i = sent - (got + 1) + 1
             /\ Tail(s)[i] = "arg" => \A j \in Nat : got + 1 + i - 1 # K * j
             /\ Tail(s)[i] = "sync" => got + 1 + i - 1 = sync
  <2>1. i + 1 \in 1..Len(s) /\ Tail(s)[i] = s[i + 1]
    BY <1>1
  <2>2. /\ s[i + 1] = "exit" <=> i + 1 = sent - got + 1
        /\ s[i + 1] = "arg" => \A j \in Nat : got + (i + 1) - 1 # K * j
        /\ s[i + 1] = "sync" => got + (i + 1) - 1 = sync
    BY <2>1 DEF Stream
  <2>3. got + (i + 1) - 1 = got + 1 + i - 1
    OBVIOUS
  <2> QED BY <2>1, <2>2, <2>3
<1> QED BY <1>2, <1>3, <1>4 DEF Stream

(* Sending a chunk of a request.                                           *)
LEMMA StreamAppend ==
  ASSUME NEW S, NEW s \in Seq(S), NEW c \in S, NEW sent \in Nat, NEW got \in Nat,
         NEW sync \in Int, NEW left,
         Stream(s, sent, got, sync, FALSE), c # "exit",
         c = "arg" => \A j \in Nat : sent # K * j,
         c = "sync" => sent = sync
  PROVE  Stream(Append(s, c), sent + 1, got, sync, left)
<1>1. /\ Len(s) \in Nat /\ Len(Append(s, c)) = Len(s) + 1
      /\ Append(s, c)[Len(s) + 1] = c
      /\ \A i \in 1..Len(s) : Append(s, c)[i] = s[i]
  OBVIOUS
<1>2. Len(s) = sent - got /\ got <= sent
  BY DEF Stream
<1>3. ASSUME NEW i \in 1..Len(Append(s, c))
      PROVE  /\ Append(s, c)[i] = "exit" <=> i = (sent + 1) - got + 1
             /\ Append(s, c)[i] = "arg" => \A j \in Nat : got + i - 1 # K * j
             /\ Append(s, c)[i] = "sync" => got + i - 1 = sync
  <2>1. CASE i \in 1..Len(s)
    <3>1. Append(s, c)[i] = s[i] /\ i # (sent + 1) - got + 1 /\ i # sent - got + 1
      BY <1>1, <1>2, <2>1
    <3> QED BY <2>1, <3>1 DEF Stream
  <2>2. CASE i = Len(s) + 1
    <3>1. Append(s, c)[i] = c /\ i # (sent + 1) - got + 1 /\ got + i - 1 = sent
      BY <1>1, <1>2, <2>2
    <3> QED BY <3>1
  <2>3. i \in 1..Len(s) \/ i = Len(s) + 1
    BY <1>1
  <2> QED BY <2>1, <2>2, <2>3
<1> QED BY <1>1, <1>2, <1>3 DEF Stream

(* The farewell of a client.                                               *)
LEMMA StreamExit ==
  ASSUME NEW S, NEW s \in Seq(S), "exit" \in S, NEW sent \in Nat, NEW got \in Nat,
         NEW sync \in Int, Stream(s, sent, got, sync, FALSE)
  PROVE  Stream(Append(s, "exit"), sent, got, sync, TRUE)
<1>1. /\ Len(s) \in Nat /\ Len(Append(s, "exit")) = Len(s) + 1
      /\ Append(s, "exit")[Len(s) + 1] = "exit"
      /\ \A i \in 1..Len(s) : Append(s, "exit")[i] = s[i]
  OBVIOUS
<1>2. Len(s) = sent - got /\ got <= sent
  BY DEF Stream
<1>3. ASSUME NEW i \in 1..Len(Append(s, "exit"))
      PROVE  /\ Append(s, "exit")[i] = "exit" <=> i = sent - got + 1
             /\ Append(s, "exit")[i] = "arg" => \A j \in Nat : got + i - 1 # K * j
             /\ Append(s, "exit")[i] = "sync" => got + i - 1 = sync
  <2>1. CASE i \in 1..Len(s)
    <3>1. Append(s, "exit")[i] = s[i]
      BY <1>1, <2>1
    <3> QED BY <2>1, <3>1 DEF Stream
  <2>2. CASE i = Len(s) + 1
    <3>1. Append(s, "exit")[i] = "exit" /\ i = sent - got + 1
      BY <1>1, <1>2, <2>2
    <3> QED BY <3>1
  <2>3. i \in 1..Len(s) \/ i = Len(s) + 1
    BY <1>1
  <2> QED BY <2>1, <2>2, <2>3
<1> QED BY <1>1, <1>2, <1>3 DEF Stream

(* What is in the ring stays in order when the client turns to another     *)
(* call, or leaves.                                                        *)
LEMMA StreamNewSync ==
  ASSUME NEW S, NEW s \in Seq(S), NEW sent \in Nat, NEW got \in Nat, NEW sync \in Int,
         NEW sync2 \in Int, NEW left, NEW left2,
         Stream(s, sent, got, sync, left),
         sync = -1 \/ sync2 = sync \/ s = <<>>, left => left2
  PROVE  Stream(s, sent, got, sync2, left2)
<1>1. Len(s) \in Nat
  OBVIOUS
<1>2. ASSUME NEW i \in 1..Len(s), s[i] = "sync"
      PROVE  got + i - 1 = sync2
  <2>1. got + i - 1 = sync /\ sync # -1 /\ s # <<>>
    BY <1>1, <1>2 DEF Stream
  <2> QED BY <2>1
<1> QED BY <1>2 DEF Stream

(* The barrier opens when all its parties are there, and only then.        *)
LEMMA BarrierFull ==
  ASSUME NEW P \in SUBSET Threads, NEW A \in SUBSET (P \cup {Control})
  PROVE  Cardinality(A) = Cardinality(P) + 1 <=> A = P \cup {Control}
<1>1. IsFiniteSet(P) /\ Control \notin P
  BY FS_Subset, GateAssumption
<1>2. /\ IsFiniteSet(P \cup {Control})
      /\ Cardinality(P \cup {Control}) = Cardinality(P) + 1
  BY <1>1, FS_AddElement
<1>3. Cardinality(P \cup {Control}) = Cardinality(A) => P \cup {Control} = A
  BY <1>2, FS_Subset
<1> QED BY <1>2, <1>3

(* Where a thread that stops for a checkpoint is, its phase is known.      *)
LEMMA Phases ==
  ASSUME GateInv, NEW t \in Threads
  PROVE  /\ server[t] \in {"recv2", "recv2Flag", "ckpt"}
              => t \in parties /\ Round /\ Gathering
         /\ server[t] = "wait1" => t \in parties /\ Round /\ (Gathering \/ Frozen)
         /\ server[t] = "dump" => t \in parties /\ Round /\ Frozen
         /\ server[t] = "wait2" => t \in parties /\ Round /\ (Frozen \/ Leaving)
<1>1. /\ ctl \in {"idle", "flags", "wait1", "dump", "wait2", "panicked", "gone"}
      /\ CtlInv
  BY DEF GateInv, TypeOK
<1>2. CASE ctl = "idle"
  BY <1>1, <1>2 DEF CtlInv, Idle, Open
<1>3. CASE ctl \in {"gone", "panicked"}
  BY <1>1, <1>3 DEF CtlInv, Over
<1>4. CASE ctl \in {"flags", "wait1", "dump", "wait2"}
  <2>1. Round
    BY <1>1, <1>4 DEF CtlInv
  <2>2. server[t] \in {"recv2", "recv2Flag", "ckpt", "wait1", "dump", "wait2"}
          => t \in parties
    BY <2>1 DEF Round, Alive, Finished, Panics
  <2>3. CASE Gathering
    BY <2>1, <2>2, <2>3 DEF Gathering
  <2>4. CASE Frozen
    BY <2>1, <2>2, <2>4 DEF Frozen, Guarded
  <2>5. CASE Leaving
    BY <2>1, <2>2, <2>5 DEF Leaving, Open
  <2> QED BY <2>1, <2>3, <2>4, <2>5 DEF Round
<1> QED BY <1>1, <1>2, <1>3, <1>4

(* The same for the control task.                                          *)
LEMMA ControlPhases ==
  ASSUME GateInv
  PROVE  /\ ctl \in {"flags", "wait1", "dump", "wait2"} => Round
         /\ ctl = "flags" => Gathering
         /\ ctl = "dump" => Frozen
         /\ ctl \in {"idle", "panicked", "gone"} => gen \in {0, 2}
BY DEF GateInv, CtlInv, Round, Gathering, Frozen, Leaving, Idle, Over

(* An arrival at the barrier opens it if it is the last.                   *)
LEMMA Arrival ==
  ASSUME NEW p, Arrive(p), parties \subseteq Threads,
         arrived \cup {p} \subseteq parties \cup {Control}
  PROVE  \/ /\ arrived \cup {p} = parties \cup {Control}
            /\ arrived' = {} /\ gen' = gen + 1
         \/ /\ arrived \cup {p} # parties \cup {Control}
            /\ arrived' = arrived \cup {p} /\ gen' = gen
<1>1. Cardinality(arrived \cup {p}) = Cardinality(parties) + 1
        <=> arrived \cup {p} = parties \cup {Control}
  BY BarrierFull
<1> QED BY <1>1 DEF Arrive

(* Appending to a ring and taking from it keeps its type.                  *)
LEMMA SequenceTypes ==
  ASSUME NEW S, NEW f \in [Threads -> Seq(S)], NEW t \in Threads, NEW c \in S
  PROVE  /\ [f EXCEPT ![t] = Append(@, c)] \in [Threads -> Seq(S)]
         /\ f[t] # <<>> => [f EXCEPT ![t] = Tail(@)] \in [Threads -> Seq(S)]
         /\ f[t] # <<>> => Head(f[t]) \in S
<1>1. f[t] \in Seq(S)
  OBVIOUS
<1>2. /\ Append(f[t], c) \in Seq(S)
      /\ f[t] # <<>> => Tail(f[t]) \in Seq(S) /\ Head(f[t]) \in S
  BY <1>1
<1> QED BY <1>2

(* The bytes of a thread are at the head of a request when its server      *)
(* thread looks for one.                                                   *)
LEMMA HeadIsRequest ==
  ASSUME GateInv, NEW t \in Threads, server[t] = "recv", ctos[t] # <<>>
  PROVE  Head(ctos[t]) \in {"sync", "async", "exit"}
<1>1. /\ ctos[t] \in Seq({"sync", "async", "arg", "exit"})
      /\ executed[t] \in Nat
  BY DEF GateInv, TypeOK
<1>2. Len(ctos[t]) >= 1 /\ Len(ctos[t]) \in Nat /\ Head(ctos[t]) = ctos[t][1]
      /\ Head(ctos[t]) \in {"sync", "async", "arg", "exit"}
  BY <1>1
<1>3. Stream(ctos[t], Sent(t), Got(t), SyncStart(t), Left(t))
  BY DEF GateInv, ThreadInv, CallInv, Live, Receiving
<1>4. Got(t) = K * executed[t] /\ K * executed[t] \in Nat
  <2>1. K * executed[t] \in Nat
    BY <1>1, Multiples
  <2> QED BY <2>1 DEF Got
<1>5. ctos[t][1] = "arg" => \A j \in Nat : Got(t) + 1 - 1 # K * j
  BY <1>2, <1>3 DEF Stream
<1>6. ctos[t][1] # "arg"
  BY <1>1, <1>4, <1>5
<1> QED BY <1>2, <1>6

(* Types are kept.                                                         *)
LEMMA TypeStep ==
  ASSUME GateInv, [Next]_vars
  PROVE  TypeOK'
<1> USE DEF clientVars, serverVars, attachVars, managerVars, barrierVars,
            ctlVars, chanVars, vars
<1>0. TypeOK
  BY DEF GateInv
<1>1. CASE UNCHANGED vars
  BY <1>0, <1>1 DEF TypeOK
<1>2. ASSUME NEW t \in Threads, StartCall(t) PROVE TypeOK'
  <2>1. kind' \in [Threads -> {"sync", "async"}]
    <3>1. PICK k \in Kinds : kind' = [kind EXCEPT ![t] = k]
      BY <1>2 DEF StartCall
    <3> QED BY <1>0, <3>1, ConstantTypes DEF TypeOK
  <2>2. client' \in [Threads -> {"none", "idle", "before", "send", "wait",
                                 "after", "gone", "killed"}]
    BY <1>0, <1>2 DEF TypeOK, StartCall, ClientStep
  <2> QED BY <1>0, <1>2, <2>1, <2>2 DEF TypeOK, StartCall
<1>3. ASSUME NEW t \in Threads, ClientExit(t) PROVE TypeOK'
  <2>1. ctos' \in [Threads -> Seq({"sync", "async", "arg", "exit"})]
    BY <1>0, <1>3, SequenceTypes DEF TypeOK, ClientExit
  <2> QED BY <1>0, <1>3, <2>1 DEF TypeOK, ClientExit, ClientStep, Overwrite
<1>4. ASSUME NEW t \in Threads, BeforeCall(t) PROVE TypeOK'
  <2>1. toSend' \in [Threads -> 0..(NArgs + 1)]
    <3>1. NArgs + 1 \in 0..(NArgs + 1)
      BY ConstantTypes
    <3> QED BY <1>0, <1>4, <3>1 DEF TypeOK, BeforeCall
  <2> QED BY <1>0, <1>4, <2>1 DEF TypeOK, BeforeCall, ClientStep
<1>5. ASSUME NEW t \in Threads, SendChunk(t) PROVE TypeOK'
  <2>1. ctos' \in [Threads -> Seq({"sync", "async", "arg", "exit"})]
    <3>1. (IF toSend[t] = NArgs + 1 THEN kind[t] ELSE "arg")
            \in {"sync", "async", "arg", "exit"}
      BY <1>0 DEF TypeOK
    <3> QED BY <1>0, <1>5, <3>1, SequenceTypes DEF TypeOK, SendChunk
  <2>2. /\ client[t] = "send" /\ toSend[t] > 0 /\ issued[t] < MaxCalls
    BY <1>5 DEF GateInv, ThreadInv, CountInv, SendChunk, ClientStep
  <2>3. toSend' \in [Threads -> 0..(NArgs + 1)]
    <3>1. toSend[t] - 1 \in 0..(NArgs + 1)
      BY <1>0, <2>2, ConstantTypes DEF TypeOK
    <3> QED BY <1>0, <1>5, <3>1 DEF TypeOK, SendChunk
  <2>4. issued' \in [Threads -> 0..MaxCalls]
    <3>1. issued[t] \in 0..MaxCalls /\ issued[t] + 1 \in 0..MaxCalls
      BY <1>0, <2>2, ConstantTypes DEF TypeOK
    <3> QED BY <1>0, <1>5, <3>1 DEF TypeOK, SendChunk
  <2>5. client' \in [Threads -> {"none", "idle", "before", "send", "wait",
                                 "after", "gone", "killed"}]
    BY <1>0, <1>5 DEF TypeOK, SendChunk, ClientStep
  <2>6. snap' \in [Threads -> {"none", "valid", "torn"}]
    BY <1>0, <1>5 DEF TypeOK, SendChunk, Overwrite
  <2>7. UNCHANGED <<kind, serverVars, attached, replayed, managerVars,
                    barrierVars, ctlVars, flag, stoc>>
    BY <1>5 DEF SendChunk
  <2> QED BY <1>0, <2>1, <2>3, <2>4, <2>5, <2>6, <2>7 DEF TypeOK
<1>6. ASSUME NEW t \in Threads, RecvResult(t) PROVE TypeOK'
  <2>1. stoc' \in [Threads -> Seq({"result"})]
    BY <1>0, <1>6, SequenceTypes DEF TypeOK, RecvResult
  <2> QED BY <1>0, <1>6, <2>1 DEF TypeOK, RecvResult, ClientStep
<1>7. ASSUME NEW t \in Threads, AfterCall(t) PROVE TypeOK'
  BY <1>0, <1>7 DEF TypeOK, AfterCall, ClientStep
<1>8. ASSUME NEW t \in Threads, RegisterFlag(t) PROVE TypeOK'
  BY <1>0, <1>8 DEF TypeOK, RegisterFlag, ServerStep, Receiving
<1>9. ASSUME NEW t \in Threads, RecvRequest(t) PROVE TypeOK'
  <2>1. ctos' \in [Threads -> Seq({"sync", "async", "arg", "exit"})]
    BY <1>0, <1>9, SequenceTypes DEF TypeOK, RecvRequest
  <2>2. call' \in [Threads -> {"sync", "async", "exit"}]
    <3>1. Head(ctos[t]) \in {"sync", "async", "exit"}
      BY <1>9, HeadIsRequest DEF RecvRequest, ServerStep
    <3> QED BY <1>0, <1>9, <3>1 DEF TypeOK, RecvRequest
  <2>3. toRecv' \in [Threads -> 0..NArgs]
    <3>1. NArgs \in 0..NArgs
      BY ConstantTypes
    <3> QED BY <1>0, <1>9, <3>1 DEF TypeOK, RecvRequest
  <2>4. server' \in [Threads -> Finished \cup Receiving \cup Guarded \cup
                   {"start", "attach", "handles", "replay", "ckpt", "exiting"}]
    <3>1. PICK to : to \in {"exec", "args", "exiting"}
                    /\ server' = [server EXCEPT ![t] = to]
      BY <1>9 DEF RecvRequest, ServerStep
    <3> QED BY <1>0, <3>1 DEF TypeOK, Receiving
  <2> QED BY <1>0, <1>9, <2>1, <2>2, <2>3, <2>4 DEF TypeOK, RecvRequest
<1>10. ASSUME NEW t \in Threads, RecvEmpty(t) PROVE TypeOK'
  BY <1>0, <1>10 DEF TypeOK, RecvEmpty, ServerStep, Receiving
<1>11. ASSUME NEW t \in Threads, CheckFlag(t) PROVE TypeOK'
  BY <1>0, <1>11 DEF TypeOK, CheckFlag, ServerStep, Receiving, Finished, Panics
<1>12. ASSUME NEW t \in Threads, RecvSecond(t) PROVE TypeOK'
  <2>1. ctos' \in [Threads -> Seq({"sync", "async", "arg", "exit"})]
    BY <1>0, <1>12, SequenceTypes DEF TypeOK, RecvSecond
  <2> QED BY <1>0, <1>12, <2>1
          DEF TypeOK, RecvSecond, ServerStep, Finished, Panics
<1>13. ASSUME NEW t \in Threads, RecvArg(t) PROVE TypeOK'
  <2>1. ctos' \in [Threads -> Seq({"sync", "async", "arg", "exit"})]
    BY <1>0, <1>13, SequenceTypes DEF TypeOK, RecvArg
  <2>2. toRecv[t] > 0
    BY <1>13 DEF GateInv, ThreadInv, CountInv, RecvArg, ServerStep
  <2>3. toRecv' \in [Threads -> 0..NArgs]
    <3>1. toRecv[t] - 1 \in 0..NArgs
      BY <1>0, <2>2, ConstantTypes DEF TypeOK
    <3> QED BY <1>0, <1>13, <3>1 DEF TypeOK, RecvArg
  <2> QED BY <1>0, <1>13, <2>1, <2>3 DEF TypeOK, RecvArg, ServerStep, Receiving
<1>14. ASSUME NEW t \in Threads, Execute(t) PROVE TypeOK'
  <2>1. stoc' \in [Threads -> Seq({"result"})]
    BY <1>0, <1>14, SequenceTypes DEF TypeOK, Execute
  <2>2. executed' \in [Threads -> Nat]
    BY <1>0, <1>14 DEF TypeOK, Execute
  <2> QED BY <1>0, <1>14, <2>1, <2>2 DEF TypeOK, Execute, ServerStep, Receiving
<1>15. ASSUME NEW t \in Threads, ThreadExit(t) PROVE TypeOK'
  BY <1>0, <1>15 DEF TypeOK, ThreadExit, Finished
<1>16. ASSUME NEW t \in Threads, EnterCheckpoint(t) PROVE TypeOK'
  <2>1. /\ parties \subseteq Threads /\ t \in parties /\ gen = 0
        /\ arrived \subseteq parties \cup {Control}
    BY <1>0, <1>16, Phases DEF TypeOK, EnterCheckpoint, ServerStep, Gathering, Here
  <2>2. arrived' \subseteq Threads \cup {Control} /\ gen' \in 0..2
    BY <1>16, <2>1, Arrival DEF EnterCheckpoint
  <2> QED BY <1>0, <1>16, <2>2 DEF TypeOK, EnterCheckpoint, ServerStep, Guarded
<1>17. ASSUME NEW t \in Threads, PassBarrier(t) PROVE TypeOK'
  BY <1>0, <1>17 DEF TypeOK, PassBarrier, ServerStep, Guarded
<1>18. ASSUME NEW t \in Threads, DumpToDisk(t) \/ DumpToRings(t) PROVE TypeOK'
  <2>1. /\ parties \subseteq Threads /\ t \in parties /\ gen = 1
        /\ arrived \subseteq parties \cup {Control}
    BY <1>0, <1>18, Phases
       DEF TypeOK, DumpToDisk, DumpToRings, ServerStep, Frozen, Here
  <2>2. arrived' \subseteq Threads \cup {Control} /\ gen' \in 0..2
    BY <1>18, <2>1, Arrival DEF DumpToDisk, DumpToRings
  <2>3. server' \in [Threads -> Finished \cup Receiving \cup Guarded \cup
                   {"start", "attach", "handles", "replay", "ckpt", "exiting"}]
    <3>1. server' = [server EXCEPT ![t] = "wait2"]
      BY <1>18 DEF DumpToDisk, DumpToRings, ServerStep
    <3> QED BY <1>0, <3>1 DEF TypeOK, Guarded
  <2>4. CASE DumpToDisk(t)
    BY <1>0, <2>2, <2>3, <2>4 DEF TypeOK, DumpToDisk
  <2>5. CASE DumpToRings(t)
    BY <1>0, <2>2, <2>3, <2>5 DEF TypeOK, DumpToRings
  <2> QED BY <1>18, <2>4, <2>5
<1>19. ASSUME NEW t \in Threads, DumpToRingsFails(t) PROVE TypeOK'
  BY <1>0, <1>19 DEF TypeOK, DumpToRingsFails, ServerStep, Finished, Panics
<1>20. ASSUME NEW t \in Threads, FinishCheckpoint(t) PROVE TypeOK'
  <2>1. mode \in {"Kill", "LeaveRunning", "Detach"}
    BY <1>0 DEF TypeOK
  <2>2. server' \in [Threads -> Finished \cup Receiving \cup Guarded \cup
                   {"start", "attach", "handles", "replay", "ckpt", "exiting"}]
    <3>1. PICK to : to \in {"stopped", "recv", "detached"}
                    /\ server' = [server EXCEPT ![t] = to]
      BY <1>20, <2>1 DEF FinishCheckpoint, ServerStep
    <3> QED BY <1>0, <3>1 DEF TypeOK, Receiving, Finished
  <2>3. flag' \in [Threads -> SUBSET {IN_USE, WRITE_DISABLED}]
    BY <1>0, <1>20 DEF TypeOK, FinishCheckpoint
  <2> QED BY <1>0, <1>20, <2>2, <2>3 DEF TypeOK, FinishCheckpoint
<1>21. ASSUME NEW t \in Threads, BeginAttach(t) PROVE TypeOK'
  BY <1>0, <1>21 DEF TypeOK, BeginAttach, ServerStep, Finished, Panics
<1>22. ASSUME NEW t \in Threads, CopyHandles(t) PROVE TypeOK'
  BY <1>0, <1>22 DEF TypeOK, CopyHandles, ServerStep, Finished, Panics
<1>23. ASSUME NEW t \in Threads, RestoreEof(t) PROVE TypeOK'
  BY <1>0, <1>23 DEF TypeOK, RestoreEof, ServerStep, Receiving
<1>24. ASSUME NEW t \in Threads, CreateThread(t) PROVE TypeOK'
  BY <1>0, <1>24 DEF TypeOK, CreateThread, ServerStep
<1>25. ASSUME NEW t \in Threads, Attach(t) PROVE TypeOK'
  <2>1. toLock' = {}
    BY <1>25 DEF Attach, GateInv, CtlInv
  <2> QED BY <1>0, <1>25, <2>1 DEF TypeOK, Attach, ServerStep
<1>26. CASE RequestCheckpoint
  <2>1. mode' \in {"Kill", "LeaveRunning", "Detach"}
    BY <1>26, ConstantTypes DEF RequestCheckpoint
  <2>2. ckpts' \in 0..MaxCkpts
    BY <1>0, <1>26, ConstantTypes DEF TypeOK, RequestCheckpoint
  <2>3. gen' \in 0..2 /\ arrived' = {}
    BY <1>26 DEF RequestCheckpoint
  <2> QED BY <1>0, <1>26, <2>1, <2>2, <2>3 DEF TypeOK, RequestCheckpoint
<1>27. ASSUME NEW t \in Threads, SetFlag(t) PROVE TypeOK'
  BY <1>0, <1>27 DEF TypeOK, SetFlag
<1>28. CASE FlagsSet
  <2>1. /\ parties \subseteq Threads /\ gen = 0
        /\ arrived \subseteq parties \cup {Control}
    BY <1>0, <1>28, ControlPhases DEF TypeOK, FlagsSet, Gathering, Here
  <2>2. arrived' \subseteq Threads \cup {Control} /\ gen' \in 0..2
    BY <1>28, <2>1, Arrival DEF FlagsSet
  <2> QED BY <1>0, <1>28, <2>2 DEF TypeOK, FlagsSet
<1>29. CASE FlagsMissing
  BY <1>0, <1>29 DEF TypeOK, FlagsMissing, Finished
<1>30. CASE DumpProcessState
  BY <1>0, <1>30 DEF TypeOK, DumpProcessState
<1>31. CASE ProcessStateDumped
  <2>1. /\ parties \subseteq Threads /\ gen = 1
        /\ arrived \subseteq parties \cup {Control}
    BY <1>0, <1>31, ControlPhases DEF TypeOK, ProcessStateDumped, Frozen, Here
  <2>2. arrived' \subseteq Threads \cup {Control} /\ gen' \in 0..2
    BY <1>31, <2>1, Arrival DEF ProcessStateDumped
  <2> QED BY <1>0, <1>31, <2>2 DEF TypeOK, ProcessStateDumped
<1>32. CASE CheckpointDone
  BY <1>0, <1>32 DEF TypeOK, CheckpointDone
<1> QED
  BY <1>1, <1>2, <1>3, <1>4, <1>5, <1>6, <1>7, <1>8, <1>9, <1>10, <1>11, <1>12,
     <1>13, <1>14, <1>15, <1>16, <1>17, <1>18, <1>19, <1>20, <1>21, <1>22, <1>23,
     <1>24, <1>25, <1>26, <1>27, <1>28, <1>29, <1>30, <1>31, <1>32
  DEF Next, InCall, ReceiveLoop, CheckpointThread, AttachThread, CheckpointProcess

-----------------------------------------------------------------------------
(* What the steps leave alone                                              *)

(* Everything that belongs to one thread stays as it is.                   *)
Untouched(t) ==
  /\ flag'[t] = flag[t] /\ ctos'[t] = ctos[t] /\ stoc'[t] = stoc[t]
  /\ snap'[t] = snap[t] /\ attached'[t] = attached[t]
  /\ client'[t] = client[t] /\ kind'[t] = kind[t] /\ toSend'[t] = toSend[t]
  /\ server'[t] = server[t] /\ toRecv'[t] = toRecv[t] /\ call'[t] = call[t]
  /\ issued'[t] = issued[t] /\ executed'[t] = executed[t]

(* What is stated of a thread stays true when nothing of it changes.       *)
LEMMA UntouchedKeeps ==
  ASSUME NEW t, Untouched(t), ThreadInv(t)
  PROVE  /\ CallInv(t)' /\ CountInv(t)' /\ LockInv(t)'
         /\ mode' = mode \/ server[t] # "wait2" => SnapInv(t)'
<1>1. /\ Sent(t)' = Sent(t) /\ Got(t)' = Got(t) /\ SyncStart(t)' = SyncStart(t)
      /\ Left(t)' = Left(t)
  BY DEF Untouched, Sent, Got, SyncStart, Left
<1>2. CallInv(t)'
  <2>1. Stream(ctos[t], Sent(t), Got(t), SyncStart(t), Left(t))
          => Stream(ctos[t], Sent(t), Got(t), SyncStart(t), Left(t))'
    BY <1>1 DEF Stream, Untouched
  <2> QED BY <1>1, <2>1 DEF Untouched, ThreadInv, CallInv
<1>3. CountInv(t)'
  BY DEF Untouched, ThreadInv, CountInv
<1>4. LockInv(t)'
  BY DEF Untouched, ThreadInv, LockInv, Locked, Parked, Quiet
<1>5. mode' = mode \/ server[t] # "wait2" => SnapInv(t)'
  BY DEF Untouched, ThreadInv, SnapInv, HoldsSnapshot
<1> QED BY <1>2, <1>3, <1>4, <1>5

(* A step of one thread leaves the others alone; the three actions that    *)
(* touch all of them are ThreadExit, DumpToDisk and FlagsMissing.          *)
ThreadStep(t) ==
  \/ StartCall(t) \/ ClientExit(t) \/ BeforeCall(t) \/ SendChunk(t)
  \/ RecvResult(t) \/ AfterCall(t)
  \/ RegisterFlag(t) \/ RecvRequest(t) \/ RecvEmpty(t) \/ CheckFlag(t)
  \/ RecvSecond(t) \/ RecvArg(t) \/ Execute(t)
  \/ EnterCheckpoint(t) \/ PassBarrier(t) \/ DumpToRings(t)
  \/ DumpToRingsFails(t) \/ FinishCheckpoint(t)
  \/ BeginAttach(t) \/ CopyHandles(t) \/ RestoreEof(t)
  \/ CreateThread(t) \/ Attach(t) \/ SetFlag(t)

(* A step of one thread leaves the others alone.                           *)
LEMMA OthersUntouched ==
  ASSUME TypeOK, NEW t \in Threads, NEW u \in Threads, u # t, ThreadStep(t)
  PROVE  Untouched(u) /\ mode' = mode
<1> USE DEF clientVars, serverVars, attachVars, managerVars, barrierVars,
            ctlVars, chanVars
<1>1. CASE StartCall(t) \/ ClientExit(t) \/ BeforeCall(t) \/ SendChunk(t)
  <2>1. CASE StartCall(t)
    BY <2>1 DEF TypeOK, Untouched, StartCall, ClientStep
  <2>2. CASE ClientExit(t)
    BY <2>2 DEF TypeOK, Untouched, ClientExit, ClientStep, Overwrite
  <2>3. CASE BeforeCall(t)
    BY <2>3 DEF TypeOK, Untouched, BeforeCall, ClientStep
  <2>4. CASE SendChunk(t)
    BY <2>4 DEF TypeOK, Untouched, SendChunk, ClientStep, Overwrite
  <2> QED BY <1>1, <2>1, <2>2, <2>3, <2>4
<1>2. CASE RecvResult(t) \/ AfterCall(t)
  BY <1>2 DEF TypeOK, Untouched, RecvResult, AfterCall, ClientStep
<1>3. CASE RegisterFlag(t) \/ RecvRequest(t) \/ RecvEmpty(t) \/ CheckFlag(t)
  BY <1>3 DEF TypeOK, Untouched, RegisterFlag, RecvRequest, RecvEmpty, CheckFlag,
     ServerStep
<1>4. CASE RecvSecond(t) \/ RecvArg(t) \/ Execute(t)
  BY <1>4 DEF TypeOK, Untouched, RecvSecond, RecvArg, Execute, ServerStep
<1>5. CASE EnterCheckpoint(t) \/ PassBarrier(t) \/ DumpToRings(t)
  BY <1>5 DEF TypeOK, Untouched, EnterCheckpoint, PassBarrier, DumpToRings, ServerStep
<1>6. CASE DumpToRingsFails(t) \/ FinishCheckpoint(t)
  BY <1>6 DEF TypeOK, Untouched, DumpToRingsFails, FinishCheckpoint, ServerStep
<1>7. CASE BeginAttach(t) \/ CopyHandles(t) \/ RestoreEof(t)
  BY <1>7 DEF TypeOK, Untouched, BeginAttach, CopyHandles, RestoreEof, ServerStep
<1>8. CASE CreateThread(t) \/ Attach(t) \/ SetFlag(t)
  BY <1>8 DEF TypeOK, Untouched, CreateThread, Attach, SetFlag, ServerStep
<1> QED BY <1>1, <1>2, <1>3, <1>4, <1>5, <1>6, <1>7, <1>8 DEF ThreadStep

(* The steps of the control task that touch no thread.                     *)
ControlStep ==
  RequestCheckpoint \/ FlagsSet \/ DumpProcessState \/ ProcessStateDumped
  \/ CheckpointDone

(* Nothing of a thread changes in these steps, nor the mode it waits with. *)
LEMMA ControlTouchesNone ==
  ASSUME GateInv, ControlStep, NEW t \in Threads
  PROVE  Untouched(t) /\ (mode' = mode \/ server[t] # "wait2")
<1> USE DEF clientVars, serverVars, attachVars, managerVars, barrierVars,
            ctlVars, chanVars
<1>1. CASE RequestCheckpoint
  <2>1. server[t] # "wait2"
    BY <1>1 DEF RequestCheckpoint, GateInv, CtlInv, Idle
  <2> QED BY <1>1, <2>1 DEF RequestCheckpoint, Untouched
<1>2. CASE FlagsSet \/ DumpProcessState \/ ProcessStateDumped \/ CheckpointDone
  BY <1>2 DEF FlagsSet, DumpProcessState, ProcessStateDumped, CheckpointDone, Untouched
<1> QED BY <1>1, <1>2 DEF ControlStep

(* The steps, by what they touch.                                          *)
LEMMA NextCases ==
  ASSUME Next
  PROVE  \/ \E t \in Threads : ThreadStep(t)
         \/ \E t \in Threads : ThreadExit(t) \/ DumpToDisk(t)
         \/ FlagsMissing \/ ControlStep
BY DEF Next, InCall, ReceiveLoop, CheckpointThread, AttachThread, CheckpointProcess,
   ThreadStep, ControlStep

-----------------------------------------------------------------------------
(* The calls of one client                                                 *)

(* Positions in the stream are numbers, and how they relate to the calls.  *)
LEMMA StreamTypes ==
  ASSUME TypeOK, NEW t \in Threads, CountInv(t)
  PROVE  /\ issued[t] \in Nat /\ executed[t] \in Nat
         /\ K * issued[t] \in Nat /\ K * executed[t] \in Nat
         /\ Sent(t) \in Nat /\ Got(t) \in Nat /\ SyncStart(t) \in Int
         /\ client[t] # "send" => Sent(t) = K * issued[t]
         /\ client[t] = "send" => /\ K - toSend[t] \in 0..(K - 1)
                                  /\ Sent(t) = K * issued[t] + (K - toSend[t])
         /\ Got(t) >= K * executed[t]
         /\ server[t] \in Serving => Got(t) > K * executed[t]
<1>1. /\ issued[t] \in Nat /\ executed[t] \in Nat
      /\ toSend[t] \in 0..K /\ toRecv[t] \in 0..(K - 1)
      /\ NArgs \in Nat /\ K \in Nat /\ K > 0
  BY KPositive, ConstantTypes DEF TypeOK, K
<1>2. K * issued[t] \in Nat /\ K * executed[t] \in Nat
  BY <1>1, Multiples
<1>3. client[t] = "wait" => issued[t] - 1 \in Nat /\ K * (issued[t] - 1) \in Nat
  BY <1>1, Multiples DEF CountInv
<1> HIDE DEF K
<1>4. /\ client[t] # "send" => Sent(t) = K * issued[t]
      /\ client[t] = "send" => /\ K - toSend[t] \in 0..(K - 1)
                               /\ Sent(t) = K * issued[t] + (K - toSend[t])
      /\ Sent(t) \in Nat
  BY <1>1, <1>2 DEF Sent, CountInv
<1>5. /\ Got(t) \in Nat /\ Got(t) >= K * executed[t]
      /\ server[t] \in Serving => Got(t) > K * executed[t]
  BY <1>1, <1>2 DEF Got, Serving
<1>6. SyncStart(t) \in Int
  BY <1>2, <1>3 DEF SyncStart
<1> QED BY <1>1, <1>2, <1>4, <1>5, <1>6

(* A step of the server thread outside a request.                          *)
LEMMA CallKept ==
  ASSUME NEW t, CallInv(t), server[t] \in Live, Got(t)' = Got(t),
         ctos'[t] = ctos[t], stoc'[t] = stoc[t], client'[t] = client[t],
         kind'[t] = kind[t], toSend'[t] = toSend[t], issued'[t] = issued[t],
         executed'[t] = executed[t], IN_USE \in flag'[t] <=> IN_USE \in flag[t],
         server'[t] \in Serving => server[t] \in Serving /\ call'[t] = call[t]
  PROVE  CallInv(t)'
<1>1. /\ Sent(t)' = Sent(t) /\ SyncStart(t)' = SyncStart(t) /\ Left(t)' = Left(t)
  BY DEF Sent, SyncStart, Left
<1>2. Stream(ctos[t], Sent(t), Got(t), SyncStart(t), Left(t))'
  BY <1>1 DEF Stream, CallInv
<1> QED BY <1>1, <1>2 DEF CallInv

(* The client's steps but for SendChunk keep flag and rings in agreement.  *)
LEMMA CallClient ==
  ASSUME GateInv, NEW t \in Threads,
         \/ StartCall(t) \/ ClientExit(t) \/ BeforeCall(t)
         \/ RecvResult(t) \/ AfterCall(t)
  PROVE  CallInv(t)'
<1> USE DEF clientVars, serverVars, attachVars, managerVars, barrierVars,
            ctlVars, chanVars
<1>0. /\ TypeOK /\ CallInv(t) /\ CountInv(t)
      /\ ctos[t] \in Seq({"sync", "async", "arg", "exit"})
      /\ stoc[t] \in Seq({"result"})
  BY DEF GateInv, ThreadInv, TypeOK
<1> SUFFICES ASSUME server'[t] \in Live PROVE CallInv(t)'
  BY DEF CallInv
<1>1. /\ server' = server /\ executed' = executed /\ toRecv' = toRecv /\ call' = call
      /\ Got(t)' = Got(t) /\ server[t] \in Live
  BY DEF StartCall, ClientExit, BeforeCall, RecvResult, AfterCall, Got
<1>2. /\ IN_USE \in flag[t] <=> client[t] \in InACall
      /\ Stream(ctos[t], Sent(t), Got(t), SyncStart(t), Left(t))
      /\ \/ stoc[t] = <<>>
         \/ client[t] = "wait" /\ Len(stoc[t]) = 1 /\ issued[t] = executed[t]
      /\ server[t] \in Serving /\ call[t] = "sync"
           => K * executed[t] = SyncStart(t)
  BY <1>0, <1>1 DEF CallInv
<1>3. /\ Sent(t) \in Nat /\ Got(t) \in Nat /\ SyncStart(t) \in Int
      /\ K * executed[t] \in Nat /\ K * issued[t] \in Nat
      /\ Got(t) >= K * executed[t]
      /\ server[t] \in Serving => Got(t) > K * executed[t]
      /\ client[t] # "send" => Sent(t) = K * issued[t]
  BY <1>0, StreamTypes
<1>4. CASE StartCall(t)
  <2>1. /\ flag'[t] = flag[t] /\ ctos'[t] = ctos[t] /\ stoc'[t] = stoc[t]
        /\ client[t] = "idle" /\ client'[t] = "before"
        /\ issued'[t] = issued[t] /\ toSend'[t] = toSend[t]
    BY <1>0, <1>4 DEF StartCall, ClientStep, TypeOK
  <2>2. /\ Sent(t)' = Sent(t) /\ SyncStart(t)' = SyncStart(t) /\ Left(t)' = Left(t)
    BY <2>1 DEF Sent, SyncStart, Left
  <2> QED BY <1>1, <1>2, <2>1, <2>2 DEF CallInv, InACall, Stream
<1>5. CASE ClientExit(t)
  <2>1. /\ flag'[t] = flag[t] /\ ctos'[t] = Append(ctos[t], "exit")
        /\ stoc'[t] = stoc[t] /\ client[t] = "idle" /\ client'[t] = "gone"
        /\ issued'[t] = issued[t] /\ toSend'[t] = toSend[t]
    BY <1>0, <1>5 DEF ClientExit, ClientStep, TypeOK
  <2>2. /\ Sent(t)' = Sent(t) /\ SyncStart(t)' = SyncStart(t)
        /\ Left(t) = FALSE /\ Left(t)' = TRUE
    BY <2>1 DEF Sent, SyncStart, Left
  <2>3. Stream(Append(ctos[t], "exit"), Sent(t), Got(t), SyncStart(t), TRUE)
    BY <1>0, <1>2, <1>3, <2>2, StreamExit
  <2>4. Stream(ctos[t], Sent(t), Got(t), SyncStart(t), Left(t))'
    BY <1>1, <2>1, <2>2, <2>3 DEF Stream
  <2> QED BY <1>1, <1>2, <2>1, <2>2, <2>4 DEF CallInv, InACall
<1>6. CASE BeforeCall(t)
  <2>1. /\ flag[t] = {} /\ flag'[t] = {IN_USE} /\ ctos'[t] = ctos[t]
        /\ stoc'[t] = stoc[t] /\ client[t] = "before" /\ client'[t] = "send"
        /\ issued'[t] = issued[t] /\ toSend'[t] = K
    BY <1>0, <1>6 DEF BeforeCall, ClientStep, TypeOK, K
  <2>2. /\ SyncStart(t) = -1 /\ Left(t) = FALSE /\ Left(t)' = FALSE
    BY <2>1 DEF SyncStart, Left
  <2>3. Sent(t)' = Sent(t)
    BY <1>3, <2>1, KPositive DEF Sent
  <2>4. Stream(ctos[t], Sent(t), Got(t), SyncStart(t)', Left(t)')
    <3>1. SyncStart(t)' = (IF kind'[t] = "sync" THEN K * issued[t] ELSE -1)
      BY <2>1 DEF SyncStart, K
    <3>2. SyncStart(t)' \in Int
      BY <1>3, <3>1
    <3> QED BY <1>0, <1>2, <1>3, <2>2, <3>2, StreamNewSync
  <2>5. Stream(ctos[t], Sent(t), Got(t), SyncStart(t), Left(t))'
    BY <1>1, <2>1, <2>3, <2>4 DEF Stream
  <2>6. ~(server[t] \in Serving /\ call[t] = "sync")
    BY <1>2, <1>3, <2>2
  <2> QED BY <1>1, <1>2, <2>1, <2>5, <2>6 DEF CallInv, InACall
<1>7. CASE RecvResult(t)
  <2>1. /\ flag'[t] = flag[t] /\ ctos'[t] = ctos[t] /\ stoc[t] # <<>>
        /\ stoc'[t] = Tail(stoc[t]) /\ client[t] = "wait" /\ client'[t] = "after"
        /\ issued'[t] = issued[t] /\ toSend'[t] = toSend[t]
    BY <1>0, <1>7 DEF RecvResult, ClientStep, TypeOK
  <2>2. issued[t] = executed[t] /\ stoc'[t] = <<>>
    <3>1. issued[t] = executed[t] /\ Len(stoc[t]) = 1
      BY <1>2, <2>1
    <3>2. Tail(stoc[t]) = <<>>
      BY <1>0, <3>1, SingletonTail
    <3> QED BY <2>1, <3>1, <3>2
  <2>3. Sent(t)' = Sent(t) /\ Left(t) = FALSE /\ Left(t)' = FALSE
    BY <2>1 DEF Sent, Left
  <2>4. Got(t) = Sent(t) /\ Len(ctos[t]) = 0 /\ server[t] \notin Serving
    <3>1. Got(t) <= Sent(t) /\ Len(ctos[t]) = Sent(t) - Got(t)
      BY <1>2, <2>3 DEF Stream
    <3> QED BY <1>3, <2>1, <2>2, <3>1
  <2>5. ctos[t] = <<>>
    BY <1>0, <2>4
  <2>6. Stream(ctos[t], Sent(t), Got(t), SyncStart(t)', Left(t)')
    <3>1. SyncStart(t)' = -1
      BY <2>1 DEF SyncStart
    <3>2. SyncStart(t)' \in Int
      BY <3>1
    <3> QED BY <1>0, <1>2, <1>3, <2>3, <2>5, <3>2, StreamNewSync
  <2>7. Stream(ctos[t], Sent(t), Got(t), SyncStart(t), Left(t))'
    BY <1>1, <2>1, <2>3, <2>6 DEF Stream
  <2> QED BY <1>1, <1>2, <2>1, <2>2, <2>4, <2>7 DEF CallInv, InACall
<1>8. CASE AfterCall(t)
  <2>1. /\ flag'[t] = flag[t] \ {IN_USE} /\ ctos'[t] = ctos[t]
        /\ stoc'[t] = stoc[t] /\ client[t] = "after" /\ client'[t] = "idle"
        /\ issued'[t] = issued[t] /\ toSend'[t] = toSend[t]
    BY <1>0, <1>8 DEF AfterCall, ClientStep, TypeOK
  <2>2. /\ Sent(t)' = Sent(t) /\ SyncStart(t)' = SyncStart(t) /\ Left(t)' = Left(t)
    BY <2>1 DEF Sent, SyncStart, Left
  <2> QED BY <1>1, <1>2, <2>1, <2>2 DEF CallInv, InACall, Stream
<1> QED BY <1>4, <1>5, <1>6, <1>7, <1>8

(* So does the sending of a chunk.                                         *)
LEMMA CallSend ==
  ASSUME GateInv, NEW t \in Threads, SendChunk(t)
  PROVE  CallInv(t)'
<1> USE DEF clientVars, serverVars, attachVars, managerVars, barrierVars,
            ctlVars, chanVars
<1> DEFINE c == IF toSend[t] = NArgs + 1 THEN kind[t] ELSE "arg"
<1>0. /\ TypeOK /\ CallInv(t) /\ CountInv(t)
      /\ ctos[t] \in Seq({"sync", "async", "arg", "exit"})
      /\ kind[t] \in {"sync", "async"} /\ toSend[t] \in 0..K
      /\ K \in Nat /\ K > 0
  BY KPositive DEF GateInv, ThreadInv, TypeOK, K
<1> SUFFICES ASSUME server'[t] \in Live PROVE CallInv(t)'
  BY DEF CallInv
<1>1. /\ server' = server /\ executed' = executed /\ toRecv' = toRecv /\ call' = call
      /\ kind' = kind /\ flag' = flag /\ stoc' = stoc
      /\ Got(t)' = Got(t) /\ server[t] \in Live
  BY DEF SendChunk, Got
<1>2. /\ client[t] = "send" /\ ctos'[t] = Append(ctos[t], c)
      /\ toSend'[t] = toSend[t] - 1
      /\ toSend[t] = 1 => /\ issued'[t] = issued[t] + 1
                          /\ kind[t] = "sync" => client'[t] = "wait"
                          /\ kind[t] # "sync" => client'[t] = "after"
      /\ toSend[t] # 1 => issued'[t] = issued[t] /\ client'[t] = "send"
  BY <1>0 DEF SendChunk, ClientStep, TypeOK
<1>3. /\ IN_USE \in flag[t]
      /\ Stream(ctos[t], Sent(t), Got(t), SyncStart(t), Left(t))
      /\ stoc[t] = <<>>
      /\ server[t] \in Serving /\ call[t] = "sync"
           => K * executed[t] = SyncStart(t)
  BY <1>0, <1>1, <1>2 DEF CallInv, InACall
<1>4. /\ Sent(t) \in Nat /\ Got(t) \in Nat /\ SyncStart(t) \in Int
      /\ issued[t] \in Nat /\ K * issued[t] \in Nat /\ K - toSend[t] \in 0..(K - 1)
      /\ Sent(t) = K * issued[t] + (K - toSend[t])
      /\ K * (issued[t] + 1) = K * issued[t] + K
  BY <1>0, <1>2, StreamTypes, Multiples
<1>5. Left(t) = FALSE /\ Left(t)' = FALSE
  BY <1>2 DEF Left
<1>6. SyncStart(t) = (IF kind[t] = "sync" THEN K * issued[t] ELSE -1)
  BY <1>2 DEF SyncStart
<1>7. Sent(t)' = Sent(t) + 1 /\ SyncStart(t)' = SyncStart(t)
  <2>0. K' = K
    BY DEF K
  <2>1. \/ /\ toSend[t] = 1 /\ issued'[t] = issued[t] + 1
           /\ client'[t] # "send" /\ (client'[t] = "wait" <=> kind[t] = "sync")
        \/ toSend[t] # 1 /\ issued'[t] = issued[t] /\ client'[t] = "send"
    BY <1>0, <1>2
  <2>2. issued'[t] = issued[t] + 1 => issued'[t] - 1 = issued[t]
    BY <1>4
  <2>3. SyncStart(t)' = SyncStart(t)
    <3> HIDE DEF K
    <3> QED BY <1>1, <1>6, <2>0, <2>1, <2>2 DEF SyncStart
  <2>4. Sent(t)' = Sent(t) + 1
    <3>1. CASE toSend[t] = 1
      <4>1. Sent(t)' = K * (issued[t] + 1) + 0
        BY <2>0, <2>1, <3>1 DEF Sent
      <4> HIDE DEF K
      <4> DEFINE x == K * issued[t]
      <4>2. x \in Nat /\ Sent(t)' = x + K + 0 /\ Sent(t) = x + (K - toSend[t])
        BY <1>4, <4>1
      <4> HIDE DEF x
      <4> QED BY <1>0, <3>1, <4>2
    <3>2. CASE toSend[t] # 1
      <4>1. Sent(t)' = K * issued[t] + (K - toSend'[t])
        BY <2>0, <2>1, <3>2 DEF Sent
      <4> HIDE DEF K
      <4> DEFINE x == K * issued[t]
      <4>2. /\ x \in Nat /\ Sent(t) = x + (K - toSend[t])
            /\ Sent(t)' = x + (K - (toSend[t] - 1))
        BY <1>2, <1>4, <4>1
      <4> HIDE DEF x
      <4> QED BY <1>0, <4>2
    <3> QED BY <3>1, <3>2
  <2> QED BY <2>3, <2>4
<1>8. c = "arg" => \A j \in Nat : Sent(t) # K * j
  <2> SUFFICES ASSUME c = "arg", NEW j \in Nat, Sent(t) = K * j PROVE FALSE
    OBVIOUS
  <2>1. K - toSend[t] # 0
    BY <1>0 DEF K
  <2>2. K * issued[t] + (K - toSend[t]) = K * j + 0 /\ 0 \in 0..(K - 1)
    <3>1. K * j \in Nat
      BY Multiples
    <3> HIDE DEF K
    <3> DEFINE y == K * j
    <3>2. Sent(t) = y /\ y \in Nat
      BY <3>1
    <3>3. Sent(t) = y + 0 /\ 0 \in 0..(K - 1)
      <4> HIDE DEF y
      <4> QED BY <1>0, <3>2
    <3> QED BY <1>4, <3>3
  <2>3. K - toSend[t] = 0
    BY <1>4, <2>2, SameRequest
  <2> QED BY <2>1, <2>3
<1>9. c = "sync" => Sent(t) = SyncStart(t)
  BY <1>0, <1>4, <1>6 DEF K
<1>10. c # "exit" /\ c \in {"sync", "async", "arg", "exit"}
  BY <1>0
<1>11. Stream(Append(ctos[t], c), Sent(t) + 1, Got(t), SyncStart(t), FALSE)
  <2> HIDE DEF c
  <2> QED BY <1>0, <1>3, <1>4, <1>5, <1>8, <1>9, <1>10, StreamAppend
<1>12. Stream(ctos[t], Sent(t), Got(t), SyncStart(t), Left(t))'
  BY <1>1, <1>2, <1>5, <1>7, <1>11 DEF Stream
<1>13. client'[t] \in InACall
  BY <1>2 DEF InACall
<1> QED BY <1>1, <1>3, <1>7, <1>12, <1>13 DEF CallInv

(* A server thread that has received a whole request has yet to execute    *)
(* it.                                                                     *)
LEMMA ExecutedBehind ==
  ASSUME GateInv, NEW t \in Threads, server[t] = "exec"
  PROVE  executed[t] < issued[t]
<1>1. TypeOK /\ CountInv(t) /\ CallInv(t) /\ K \in Nat /\ K > 0
  BY KPositive DEF GateInv, ThreadInv
<1>2. /\ issued[t] \in Nat /\ executed[t] \in Nat
      /\ K * executed[t] \in Nat /\ K * issued[t] \in Nat
      /\ Sent(t) \in Nat /\ Got(t) \in Nat
      /\ client[t] # "send" => Sent(t) = K * issued[t]
      /\ client[t] = "send" => /\ K - toSend[t] \in 0..(K - 1)
                               /\ Sent(t) = K * issued[t] + (K - toSend[t])
  BY <1>1, StreamTypes
<1>3. Got(t) = K * executed[t] + K /\ Got(t) <= Sent(t)
  BY <1>1 DEF Got, CallInv, Live, Receiving, Stream
<1> HIDE DEF K
<1> SUFFICES ASSUME ~(executed[t] < issued[t]) PROVE FALSE
  OBVIOUS
<1>4. K * issued[t] <= K * executed[t]
  <2>1. issued[t] < executed[t] => K * issued[t] + K <= K * executed[t]
    BY <1>2, Multiples
  <2>2. issued[t] < executed[t] \/ issued[t] = executed[t]
    BY <1>2
  <2>3. CASE issued[t] = executed[t]
    BY <1>2, <2>3
  <2>4. CASE issued[t] < executed[t]
    <3> DEFINE x == K * issued[t]
               y == K * executed[t]
    <3>1. x \in Nat /\ y \in Nat /\ x + K <= y
      BY <1>2, <2>1, <2>4
    <3> HIDE DEF x, y
    <3>2. x <= y
      BY <1>1, <3>1
    <3> QED BY <3>2 DEF x, y
  <2> QED BY <2>2, <2>3, <2>4
<1> DEFINE x == K * issued[t]
           y == K * executed[t]
<1>5. /\ x \in Nat /\ y \in Nat /\ x <= y /\ Got(t) = y + K
      /\ client[t] # "send" => Sent(t) = x
      /\ client[t] = "send" => K - toSend[t] \in 0..(K - 1)
                               /\ Sent(t) = x + (K - toSend[t])
  BY <1>2, <1>3, <1>4
<1> HIDE DEF x, y
<1>6. CASE client[t] = "send"
  BY <1>1, <1>3, <1>5, <1>6
<1>7. CASE client[t] # "send"
  BY <1>1, <1>3, <1>5, <1>7
<1> QED BY <1>6, <1>7

(* So does a server thread that serves a request.                          *)
LEMMA CallServer ==
  ASSUME GateInv, NEW t \in Threads,
         \/ RecvRequest(t) \/ RecvArg(t) \/ Execute(t)
  PROVE  CallInv(t)'
<1> USE DEF clientVars, serverVars, attachVars, managerVars, barrierVars,
            ctlVars, chanVars
<1> DEFINE Chunk == {"sync", "async", "arg", "exit"}
<1>0. /\ TypeOK /\ CallInv(t) /\ CountInv(t)
      /\ ctos[t] \in Seq(Chunk) /\ toRecv[t] \in 0..(K - 1)
      /\ K \in Nat /\ K > 0 /\ NArgs = K - 1 /\ K' = K
  BY KPositive, ConstantTypes DEF GateInv, ThreadInv, TypeOK, K
<1> SUFFICES ASSUME server'[t] \in Live PROVE CallInv(t)'
  BY DEF CallInv
<1>1. /\ client' = client /\ kind' = kind /\ toSend' = toSend /\ issued' = issued
      /\ flag' = flag /\ server[t] \in Live
  BY DEF RecvRequest, RecvArg, Execute, Live, Receiving, ServerStep
<1>2. /\ IN_USE \in flag[t] <=> client[t] \in InACall
      /\ Stream(ctos[t], Sent(t), Got(t), SyncStart(t), Left(t))
      /\ \/ stoc[t] = <<>>
         \/ client[t] = "wait" /\ Len(stoc[t]) = 1 /\ issued[t] = executed[t]
      /\ server[t] \in Serving /\ call[t] = "sync"
           => K * executed[t] = SyncStart(t)
  BY <1>0, <1>1 DEF CallInv
<1>3. /\ Sent(t) \in Nat /\ Got(t) \in Nat /\ SyncStart(t) \in Int
      /\ issued[t] \in Nat /\ executed[t] \in Nat
      /\ K * executed[t] \in Nat /\ K * issued[t] \in Nat
      /\ client[t] # "send" => Sent(t) = K * issued[t]
      /\ client[t] = "send" => /\ K - toSend[t] \in 0..(K - 1)
                               /\ Sent(t) = K * issued[t] + (K - toSend[t])
  BY <1>0, StreamTypes
<1>4. /\ Sent(t)' = Sent(t) /\ SyncStart(t)' = SyncStart(t) /\ Left(t)' = Left(t)
  BY <1>1 DEF Sent, SyncStart, Left, K
<1>5. ctos[t] # <<>> => /\ Head(ctos[t]) = ctos[t][1] /\ 1 \in 1..Len(ctos[t])
                        /\ Head(ctos[t]) \in Chunk
  <2> HIDE DEF Chunk
  <2> QED BY <1>0
<1> HIDE DEF K, Chunk
<1>6. CASE RecvRequest(t)
  <2>1. /\ server[t] = "recv" /\ ctos[t] # <<>> /\ ctos'[t] = Tail(ctos[t])
        /\ stoc'[t] = stoc[t] /\ executed'[t] = executed[t]
        /\ call'[t] = Head(ctos[t]) /\ toRecv'[t] = NArgs
        /\ Head(ctos[t]) = "exit" => server'[t] = "exiting"
        /\ Head(ctos[t]) # "exit" =>
             server'[t] = (IF NArgs = 0 THEN "exec" ELSE "args")
    BY <1>0, <1>6 DEF RecvRequest, ServerStep, TypeOK
  <2>2. Head(ctos[t]) # "exit" /\ server'[t] \in {"exec", "args"}
    BY <2>1 DEF Live, Receiving, Guarded
  <2>3. Got(t) = K * executed[t] + 0
    BY <2>1 DEF Got
  <2>4. Got(t)' = Got(t) + 1
    <3>1. /\ server'[t] = "exec" => Got(t)' = K * executed[t] + K /\ K = 1
          /\ server'[t] = "args" => Got(t)' = K * executed[t] + (K - (K - 1))
      BY <1>0, <2>1, <2>2 DEF Got
    <3> DEFINE x == K * executed[t]
    <3>2. /\ x \in Nat /\ Got(t) = x + 0
          /\ server'[t] = "exec" => Got(t)' = x + K /\ K = 1
          /\ server'[t] = "args" => Got(t)' = x + (K - (K - 1))
      BY <1>3, <2>3, <3>1
    <3> HIDE DEF x
    <3> QED BY <1>0, <2>2, <3>2
  <2>5. Stream(Tail(ctos[t]), Sent(t), Got(t) + 1, SyncStart(t), Left(t))
    BY <1>0, <1>2, <1>3, <2>1, <2>2, StreamTail
  <2>6. Stream(ctos[t], Sent(t), Got(t), SyncStart(t), Left(t))'
    BY <1>0, <1>4, <2>1, <2>4, <2>5 DEF Stream
  <2>7. Head(ctos[t]) = "sync" => K * executed[t] = SyncStart(t)
    <3>1. Head(ctos[t]) = "sync" => Got(t) + 1 - 1 = SyncStart(t)
      BY <1>2, <1>5, <2>1 DEF Stream
    <3>2. Got(t) = K * executed[t] /\ Got(t) + 1 - 1 = Got(t)
      <4> DEFINE x == K * executed[t]
      <4>1. x \in Nat /\ Got(t) = x + 0
        BY <1>3, <2>3
      <4> HIDE DEF x
      <4>2. Got(t) = x /\ Got(t) + 1 - 1 = Got(t)
        BY <4>1
      <4> QED BY <4>2 DEF x
    <3> QED BY <3>1, <3>2
  <2> QED BY <1>0, <1>1, <1>2, <1>4, <2>1, <2>6, <2>7 DEF CallInv
<1>7. CASE RecvArg(t)
  <2>1. /\ server[t] = "args" /\ ctos[t] # <<>> /\ ctos'[t] = Tail(ctos[t])
        /\ stoc'[t] = stoc[t] /\ executed'[t] = executed[t] /\ call'[t] = call[t]
        /\ toRecv'[t] = toRecv[t] - 1
        /\ server'[t] = (IF toRecv[t] = 1 THEN "exec" ELSE "args")
    BY <1>0, <1>7 DEF RecvArg, ServerStep, TypeOK
  <2>2. toRecv[t] > 0 /\ Got(t) = K * executed[t] + (K - toRecv[t])
    BY <1>0, <2>1 DEF CountInv, Got
  <2>3. Got(t)' = Got(t) + 1
    <3>1. /\ toRecv[t] = 1 => Got(t)' = K * executed[t] + K
          /\ toRecv[t] # 1 => Got(t)' = K * executed[t] + (K - (toRecv[t] - 1))
      BY <1>0, <2>1 DEF Got
    <3> DEFINE x == K * executed[t]
    <3>2. /\ x \in Nat /\ Got(t) = x + (K - toRecv[t])
          /\ toRecv[t] = 1 => Got(t)' = x + K
          /\ toRecv[t] # 1 => Got(t)' = x + (K - (toRecv[t] - 1))
      BY <1>3, <2>2, <3>1
    <3> HIDE DEF x
    <3> QED BY <1>0, <3>2
  <2>4. Head(ctos[t]) # "exit"
    <3> SUFFICES ASSUME Head(ctos[t]) = "exit" PROVE FALSE
      OBVIOUS
    <3>1. 1 = Sent(t) - Got(t) + 1 /\ Len(ctos[t]) # Sent(t) - Got(t)
      BY <1>2, <1>3, <1>5, <2>1 DEF Stream
    <3>2. Left(t) /\ Sent(t) = Got(t)
      BY <1>2, <1>3, <3>1 DEF Stream
    <3>3. Sent(t) = K * issued[t]
      BY <1>3, <3>2 DEF Left
    <3>4. K * issued[t] + 0 = K * executed[t] + (K - toRecv[t])
      <4> DEFINE x == K * issued[t]
      <4>1. x \in Nat /\ x = Got(t)
        BY <1>3, <3>2, <3>3
      <4>2. x + 0 = Got(t)
        <5> HIDE DEF x
        <5> QED BY <4>1
      <4> QED BY <2>2, <4>2
    <3>5. 0 \in 0..(K - 1) /\ K - toRecv[t] \in 0..(K - 1) /\ K - toRecv[t] # 0
      BY <1>0, <2>2
    <3> QED BY <1>3, <3>4, <3>5, SameRequest
  <2>5. Stream(Tail(ctos[t]), Sent(t), Got(t) + 1, SyncStart(t), Left(t))
    BY <1>0, <1>2, <1>3, <2>1, <2>4, StreamTail
  <2>6. Stream(ctos[t], Sent(t), Got(t), SyncStart(t), Left(t))'
    BY <1>0, <1>4, <2>1, <2>3, <2>5 DEF Stream
  <2> QED BY <1>0, <1>1, <1>2, <1>4, <2>1, <2>6 DEF CallInv, Serving
<1>8. CASE Execute(t)
  <2>1. /\ server[t] = "exec" /\ server'[t] = "recv" /\ ctos'[t] = ctos[t]
        /\ executed'[t] = executed[t] + 1
        /\ stoc'[t] = IF call[t] = "sync" THEN Append(stoc[t], "result") ELSE stoc[t]
    BY <1>0, <1>8 DEF Execute, ServerStep, TypeOK
  <2>2. Got(t) = K * executed[t] + K
    BY <2>1 DEF Got
  <2>3. Got(t)' = Got(t)
    <3>1. Got(t)' = K * (executed[t] + 1) + 0
      BY <1>0, <2>1 DEF Got
    <3>2. K * (executed[t] + 1) = K * executed[t] + K /\ K * (executed[t] + 1) \in Nat
      BY <1>3, Multiples
    <3> DEFINE x == K * (executed[t] + 1)
    <3>3. x \in Nat /\ Got(t)' = x + 0 /\ Got(t) = x
      BY <2>2, <3>1, <3>2
    <3> HIDE DEF x
    <3> QED BY <3>3
  <2>4. Stream(ctos[t], Sent(t), Got(t), SyncStart(t), Left(t))'
    BY <1>0, <1>2, <1>4, <2>1, <2>3 DEF Stream
  <2>6. executed[t] < issued[t]
    BY <2>1, ExecutedBehind
  <2>7. stoc[t] = <<>>
    BY <1>2, <1>3, <2>6
  <2>8. CASE call[t] = "sync"
    <3>1. K * executed[t] = SyncStart(t) /\ SyncStart(t) # -1
      BY <1>2, <1>3, <2>1, <2>8 DEF Serving
    <3>2. client[t] = "wait" /\ K * executed[t] = K * (issued[t] - 1)
      <4>1. CASE client[t] = "send" /\ kind[t] = "sync"
        <5>1. K * executed[t] = K * issued[t]
          BY <3>1, <4>1 DEF SyncStart
        <5>2. K * executed[t] + K <= K * issued[t]
          BY <1>3, <2>6, Multiples
        <5> DEFINE x == K * issued[t]
        <5>3. x \in Nat /\ x + K <= x
          BY <1>3, <5>1, <5>2
        <5> HIDE DEF x
        <5> QED BY <1>0, <5>3
      <4> QED BY <3>1, <4>1 DEF SyncStart
    <3>3. issued[t] - 1 \in Nat
      BY <1>3, <2>6
    <3>4. executed[t] = issued[t] - 1
      <4>1. 0 \in 0..(K - 1)
        BY <1>0
      <4>2. K * executed[t] + 0 = K * (issued[t] - 1) + 0
        BY <3>2
      <4> QED BY <1>3, <3>3, <4>1, <4>2, SameRequest
    <3>5. issued[t] = executed[t] + 1
      BY <1>3, <3>4
    <3>6. stoc'[t] = <<"result">> /\ Len(stoc'[t]) = 1
      <4>1. stoc'[t] = Append(<<>>, "result")
        BY <2>1, <2>7, <2>8
      <4> QED BY <4>1
    <3> QED BY <1>1, <1>2, <2>1, <2>4, <3>2, <3>5, <3>6 DEF CallInv, Serving
  <2>9. CASE call[t] # "sync"
    <3>1. stoc'[t] = <<>>
      BY <2>1, <2>7, <2>9
    <3> QED BY <1>1, <1>2, <2>1, <2>4, <3>1 DEF CallInv, Serving
  <2> QED BY <2>8, <2>9
<1> QED BY <1>6, <1>7, <1>8

(* The other steps of a server thread and the control task.                *)
LEMMA CallOther ==
  ASSUME GateInv, NEW t \in Threads,
         \/ RegisterFlag(t) \/ RecvEmpty(t) \/ CheckFlag(t) \/ RecvSecond(t)
         \/ EnterCheckpoint(t) \/ PassBarrier(t) \/ DumpToRings(t)
         \/ DumpToRingsFails(t) \/ FinishCheckpoint(t) \/ BeginAttach(t)
         \/ CopyHandles(t) \/ RestoreEof(t) \/ Attach(t) \/ SetFlag(t)
  PROVE  CallInv(t)'
<1> USE DEF clientVars, serverVars, attachVars, managerVars, barrierVars,
            ctlVars, chanVars
<1>0. TypeOK /\ CallInv(t) /\ CountInv(t) /\ K' = K
  BY DEF GateInv, ThreadInv, K
<1> SUFFICES ASSUME server'[t] \in Live PROVE CallInv(t)'
  BY DEF CallInv
<1>1. CASE SetFlag(t)
  <2>1. flag'[t] = flag[t] \cup {WRITE_DISABLED} /\ server' = server
    BY <1>0, <1>1 DEF SetFlag, TypeOK
  <2>2. IN_USE \in flag'[t] <=> IN_USE \in flag[t]
    BY <2>1 DEF IN_USE, WRITE_DISABLED
  <2>3. Got(t)' = Got(t) /\ server[t] \in Live
    BY <1>0, <1>1, <2>1 DEF SetFlag, Got
  <2> QED BY <1>0, <1>1, <2>1, <2>2, <2>3, CallKept DEF SetFlag
<1>2. CASE ~SetFlag(t)
  <2>1. /\ client' = client /\ kind' = kind /\ toSend' = toSend /\ issued' = issued
        /\ stoc' = stoc /\ executed' = executed /\ toRecv' = toRecv /\ call' = call
    BY <1>2 DEF RegisterFlag, RecvEmpty, CheckFlag, RecvSecond, EnterCheckpoint,
       PassBarrier, DumpToRings, DumpToRingsFails, FinishCheckpoint, BeginAttach,
       CopyHandles, RestoreEof, Attach
  <2>2. /\ flag'[t] = flag[t] \/ flag'[t] = flag[t] \ {WRITE_DISABLED}
        /\ ctos'[t] = ctos[t] \/ server'[t] = "panic_async"
    BY <1>0, <1>2 DEF RegisterFlag, RecvEmpty, CheckFlag, RecvSecond, EnterCheckpoint,
       PassBarrier, DumpToRings, DumpToRingsFails, FinishCheckpoint, BeginAttach,
       CopyHandles, RestoreEof, Attach, ServerStep, TypeOK
  <2>3. /\ IN_USE \in flag'[t] <=> IN_USE \in flag[t]
        /\ ctos'[t] = ctos[t]
    BY <2>2 DEF IN_USE, WRITE_DISABLED, Live, Receiving, Guarded
  <2>4. /\ server[t] \in Live
        /\ \/ server[t] = "args" /\ server'[t] = "argsFlag"
           \/ server[t] = "argsFlag" /\ server'[t] \in {"args", "panic_arg"}
           \/ server[t] \notin Serving /\ server'[t] \notin Serving
    <3>1. CASE RegisterFlag(t) \/ RecvEmpty(t) \/ CheckFlag(t) \/ RecvSecond(t)
      BY <1>0, <3>1 DEF RegisterFlag, RecvEmpty, CheckFlag, RecvSecond, ServerStep,
         TypeOK, Live, Receiving, Serving
    <3>2. CASE \/ EnterCheckpoint(t) \/ PassBarrier(t) \/ DumpToRings(t)
               \/ DumpToRingsFails(t)
      BY <1>0, <3>2 DEF EnterCheckpoint, PassBarrier, DumpToRings, DumpToRingsFails,
         ServerStep, TypeOK, Live, Guarded, Serving
    <3>3. CASE FinishCheckpoint(t)
      BY <1>0, <3>3 DEF FinishCheckpoint, ServerStep, TypeOK, Live, Guarded, Serving
    <3>4. CASE BeginAttach(t) \/ CopyHandles(t) \/ RestoreEof(t) \/ Attach(t)
      BY <1>0, <3>4 DEF BeginAttach, CopyHandles, RestoreEof, Attach,
         ServerStep, TypeOK, Live, Serving
    <3> QED BY <1>2, <3>1, <3>2, <3>3, <3>4
  <2>5. Got(t)' = Got(t)
    BY <1>0, <2>1, <2>4 DEF Got, Live, Receiving, Guarded, Serving
  <2>6. server'[t] \in Serving => server[t] \in Serving /\ call'[t] = call[t]
    BY <2>1, <2>4 DEF Serving
  <2> QED BY <1>0, <2>1, <2>3, <2>4, <2>5, <2>6, CallKept
<1> QED BY <1>1, <1>2

(* So does the start of a thread.                                          *)
LEMMA CallCreate ==
  ASSUME GateInv, NEW t \in Threads, CreateThread(t)
  PROVE  CallInv(t)'
<1> USE DEF clientVars, serverVars, attachVars, managerVars, barrierVars,
            ctlVars, chanVars
<1>0. TypeOK /\ CallInv(t) /\ K' = K
  BY DEF GateInv, ThreadInv, K
<1>1. /\ server[t] = "none" /\ server'[t] = "start"
      /\ client[t] = "none" /\ client'[t] = "idle"
      /\ toSend' = toSend /\ issued' = issued /\ stoc' = stoc /\ ctos' = ctos
      /\ executed' = executed /\ toRecv' = toRecv /\ flag' = flag
  BY <1>0 DEF CreateThread, ServerStep, TypeOK
<1>2. /\ Sent(t)' = Sent(t) /\ Got(t)' = Got(t) /\ SyncStart(t)' = SyncStart(t)
      /\ Left(t)' = Left(t)
  BY <1>0, <1>1 DEF Sent, Got, SyncStart, Left
<1>3. Stream(ctos[t], Sent(t), Got(t), SyncStart(t), Left(t))'
  BY <1>0, <1>1, <1>2 DEF Stream, CallInv, Live
<1> QED BY <1>0, <1>1, <1>2, <1>3 DEF CallInv, Live, InACall, Serving

(* So does every step of a thread.                                         *)
LEMMA CallOwn ==
  ASSUME GateInv, NEW t \in Threads, ThreadStep(t)
  PROVE  CallInv(t)'
BY CallClient, CallSend, CallServer, CallOther, CallCreate DEF ThreadStep

(* Counters of a request and of the calls stay where they should.          *)
LEMMA CountOwn ==
  ASSUME GateInv, NEW t \in Threads, ThreadStep(t)
  PROVE  CountInv(t)'
<1> USE DEF clientVars, serverVars, attachVars, managerVars, barrierVars,
            ctlVars, chanVars
<1>0. TypeOK /\ CountInv(t)
  BY DEF GateInv, ThreadInv
<1>1. /\ issued[t] \in Nat /\ toSend[t] \in Nat /\ toRecv[t] \in Nat
      /\ NArgs \in Nat /\ MaxCalls \in Nat
  BY <1>0, ConstantTypes DEF TypeOK
<1>2. CASE StartCall(t) \/ ClientExit(t) \/ BeforeCall(t) \/ RecvResult(t) \/ AfterCall(t)
  <2>1. /\ server' = server /\ toRecv' = toRecv /\ issued' = issued
        /\ \/ client'[t] = "before" /\ issued[t] < MaxCalls
           \/ client'[t] \in {"gone", "after", "idle"}
           \/ client[t] = "before" /\ client'[t] = "send" /\ toSend'[t] = NArgs + 1
    BY <1>0, <1>2 DEF StartCall, ClientExit, BeforeCall, RecvResult, AfterCall,
       ClientStep, TypeOK
  <2> QED BY <1>0, <1>1, <2>1 DEF CountInv
<1>3. CASE SendChunk(t)
  <2>1. /\ server' = server /\ toRecv' = toRecv /\ client[t] = "send"
        /\ toSend'[t] = toSend[t] - 1
        /\ toSend[t] = 1 => /\ issued'[t] = issued[t] + 1
                            /\ client'[t] \in {"wait", "after"}
        /\ toSend[t] # 1 => issued'[t] = issued[t] /\ client'[t] = "send"
    BY <1>0, <1>3 DEF SendChunk, ClientStep, TypeOK
  <2> QED BY <1>0, <1>1, <2>1 DEF CountInv
<1>4. CASE RecvRequest(t)
  <2>1. /\ client' = client /\ issued' = issued /\ toSend' = toSend
        /\ toRecv'[t] = NArgs
        /\ server'[t] \in {"args", "argsFlag"} => NArgs # 0
    BY <1>0, <1>4 DEF RecvRequest, ServerStep, TypeOK
  <2> QED BY <1>0, <1>1, <2>1 DEF CountInv
<1>5. CASE RecvArg(t)
  <2>1. /\ client' = client /\ issued' = issued /\ toSend' = toSend
        /\ toRecv'[t] = toRecv[t] - 1 /\ server[t] = "args"
        /\ server'[t] \in {"args", "argsFlag"} => toRecv[t] # 1
    BY <1>0, <1>5 DEF RecvArg, ServerStep, TypeOK
  <2> QED BY <1>0, <1>1, <2>1 DEF CountInv
<1>6. CASE CreateThread(t)
  <2>1. client'[t] = "idle" /\ server'[t] = "start"
    BY <1>0, <1>6 DEF CreateThread, ServerStep, TypeOK
  <2> QED BY <2>1 DEF CountInv
<1>7. CASE \/ RegisterFlag(t) \/ RecvEmpty(t) \/ CheckFlag(t) \/ RecvSecond(t)
           \/ EnterCheckpoint(t) \/ PassBarrier(t) \/ DumpToRings(t)
           \/ DumpToRingsFails(t) \/ FinishCheckpoint(t) \/ BeginAttach(t)
           \/ CopyHandles(t) \/ RestoreEof(t) \/ Attach(t) \/ SetFlag(t) \/ Execute(t)
  <2>1. client' = client /\ issued' = issued /\ toSend' = toSend /\ toRecv' = toRecv
    BY <1>7 DEF RegisterFlag, RecvEmpty, CheckFlag, RecvSecond, EnterCheckpoint,
       PassBarrier, DumpToRings, DumpToRingsFails, FinishCheckpoint, BeginAttach,
       CopyHandles, RestoreEof, Attach, SetFlag, Execute
  <2>2. server'[t] \in {"args", "argsFlag"} => server[t] \in {"args", "argsFlag"}
    <3>1. CASE \/ RegisterFlag(t) \/ RecvEmpty(t) \/ CheckFlag(t)
               \/ RecvSecond(t) \/ Execute(t)
      BY <1>0, <3>1 DEF RegisterFlag, RecvEmpty, CheckFlag, RecvSecond, Execute,
         ServerStep, TypeOK
    <3>2. CASE \/ EnterCheckpoint(t) \/ PassBarrier(t) \/ DumpToRings(t)
               \/ DumpToRingsFails(t) \/ SetFlag(t)
      BY <1>0, <3>2 DEF EnterCheckpoint, PassBarrier, DumpToRings, DumpToRingsFails,
         SetFlag, ServerStep, TypeOK
    <3>3. CASE FinishCheckpoint(t)
      BY <1>0, <3>3 DEF FinishCheckpoint, ServerStep, TypeOK
    <3>4. CASE BeginAttach(t) \/ CopyHandles(t) \/ RestoreEof(t) \/ Attach(t)
      BY <1>0, <3>4 DEF BeginAttach, CopyHandles, RestoreEof, Attach,
         ServerStep, TypeOK
    <3> QED BY <1>7, <3>1, <3>2, <3>3, <3>4
  <2> QED BY <1>0, <2>1, <2>2 DEF CountInv
<1> QED BY <1>2, <1>3, <1>4, <1>5, <1>6, <1>7 DEF ThreadStep

-----------------------------------------------------------------------------
(* The lock of one client                                                  *)

(* A parked thread takes part in the protocol.                             *)
LEMMA ParkedIsLive == ASSUME NEW t, Parked(t) PROVE server[t] \in Live
BY DEF Parked, Live, Receiving, Guarded

(* A client whose thread is parked is not in a call, and has not written   *)
(* anything but a farewell.                                                *)
LEMMA LockedOut ==
  ASSUME GateInv, NEW t \in Threads, Parked(t) \/ server[t] = "recv2"
  PROVE  /\ client[t] \notin InACall /\ stoc[t] = <<>> /\ flag[t] = {WRITE_DISABLED}
         /\ client[t] # "gone" /\ client[t] # "killed" /\ Parked(t) => ctos[t] = <<>>
<1>0. TypeOK /\ CallInv(t) /\ CountInv(t) /\ LockInv(t)
  BY DEF GateInv, ThreadInv
<1>1. server[t] \in Live /\ flag[t] = {WRITE_DISABLED}
  BY <1>0, ParkedIsLive DEF LockInv, Locked, Live, Receiving
<1>2. client[t] \notin InACall /\ stoc[t] = <<>>
  BY <1>0, <1>1 DEF CallInv, IN_USE, WRITE_DISABLED, InACall
<1>3. ASSUME client[t] # "gone", client[t] # "killed", Parked(t) PROVE ctos[t] = <<>>
  <2>1. ctos[t] \in {<<>>, <<"exit">>}
    BY <1>0, <1>3 DEF LockInv, Quiet
  <2>2. ASSUME ctos[t] = <<"exit">> PROVE FALSE
    <3>1. Len(ctos[t]) = 1 /\ ctos[t][1] = "exit"
      BY <2>2
    <3>2. Sent(t) \in Nat /\ Got(t) \in Nat
      BY <1>0, StreamTypes
    <3>3. Stream(ctos[t], Sent(t), Got(t), SyncStart(t), FALSE)
      BY <1>0, <1>1, <1>3 DEF CallInv, Left, Stream
    <3>4. Len(ctos[t]) = Sent(t) - Got(t)
          /\ (ctos[t][1] = "exit" <=> 1 = Sent(t) - Got(t) + 1)
      BY <3>1, <3>3 DEF Stream
    <3> QED BY <3>1, <3>2, <3>4
  <2> QED BY <2>1, <2>2
<1> QED BY <1>1, <1>2, <1>3

(* A locked client whose ring is found empty a second time has had all its *)
(* calls executed.                                                         *)
LEMMA SecondReceive ==
  ASSUME GateInv, NEW t \in Threads, server[t] = "recv2", ctos[t] = <<>>
  PROVE  Locked(t) /\ Quiet(t)
<1>0. TypeOK /\ CallInv(t) /\ CountInv(t) /\ LockInv(t)
  BY DEF GateInv, ThreadInv
<1>1. /\ client[t] \notin InACall /\ stoc[t] = <<>> /\ flag[t] = {WRITE_DISABLED}
  BY LockedOut
<1>2. /\ issued[t] \in Nat /\ executed[t] \in Nat
      /\ K * issued[t] \in Nat /\ K * executed[t] \in Nat
      /\ Sent(t) \in Nat /\ Got(t) \in Nat /\ Sent(t) = K * issued[t]
  BY <1>0, <1>1, StreamTypes DEF InACall
<1>3. Sent(t) = Got(t)
  <2>1. Stream(ctos[t], Sent(t), Got(t), SyncStart(t), Left(t))
    BY <1>0 DEF CallInv, Live, Receiving
  <2>2. Len(ctos[t]) = 0
    OBVIOUS
  <2> QED BY <1>2, <2>1, <2>2 DEF Stream
<1>4. Got(t) = K * executed[t] + 0
  BY DEF Got
<1>5. issued[t] = executed[t]
  <2>1. 0 \in 0..(K - 1)
    BY KPositive
  <2>2. K * issued[t] + 0 = K * executed[t] + 0
    <3> DEFINE x == K * issued[t]
    <3>1. x \in Nat /\ x = Got(t)
      BY <1>2, <1>3
    <3>2. x + 0 = Got(t)
      <4> HIDE DEF x
      <4> QED BY <3>1
    <3> QED BY <1>4, <3>2
  <2> QED BY <1>2, <2>1, <2>2, SameRequest
<1> QED BY <1>1, <1>5 DEF Locked, Quiet, InACall, IN_USE, WRITE_DISABLED

(* A parked thread stays locked and quiet until it is let go.              *)
LEMMA LockOwn ==
  ASSUME GateInv, NEW t \in Threads, ThreadStep(t)
  PROVE  LockInv(t)'
<1> USE DEF clientVars, serverVars, attachVars, managerVars, barrierVars,
            ctlVars, chanVars
<1>0. TypeOK /\ LockInv(t) /\ CallInv(t)
  BY DEF GateInv, ThreadInv
<1>1. CASE StartCall(t) \/ BeforeCall(t) \/ SendChunk(t) \/ RecvResult(t) \/ AfterCall(t)
  <2>1. server' = server /\ attached' = attached /\ executed' = executed
    BY <1>1 DEF StartCall, BeforeCall, SendChunk, RecvResult, AfterCall
  <2>2. server[t] # "none"
    BY <1>0, <1>1 DEF LockInv, StartCall, BeforeCall, SendChunk, RecvResult, AfterCall,
       ClientStep
  <2>3. CASE StartCall(t)
    <3>1. /\ flag' = flag /\ ctos' = ctos /\ stoc' = stoc /\ issued' = issued
          /\ client'[t] = "before"
      BY <1>0, <2>3 DEF StartCall, ClientStep, TypeOK
    <3> QED BY <1>0, <2>1, <2>2, <3>1 DEF LockInv, Parked, Locked, Quiet
  <2>4. CASE ~StartCall(t)
    <3>1. ~Parked(t) /\ server[t] # "recv2"
      BY <1>0, <1>1, <2>4, LockedOut DEF BeforeCall, SendChunk, RecvResult, AfterCall,
         ClientStep, InACall
    <3>2. WRITE_DISABLED \in flag'[t] => WRITE_DISABLED \in flag[t]
      BY <1>0, <1>1, <2>4 DEF BeforeCall, SendChunk, RecvResult, AfterCall,
         TypeOK, IN_USE, WRITE_DISABLED
    <3> QED BY <1>0, <2>1, <2>2, <3>1, <3>2 DEF LockInv, Parked
  <2> QED BY <2>3, <2>4
<1>2. CASE ClientExit(t)
  <2>1. /\ server' = server /\ attached' = attached /\ executed' = executed
        /\ flag' = flag /\ stoc' = stoc /\ issued' = issued
        /\ client[t] = "idle" /\ client'[t] = "gone"
        /\ ctos'[t] = Append(ctos[t], "exit")
    BY <1>0, <1>2 DEF ClientExit, ClientStep, TypeOK
  <2>2. Parked(t) => ctos'[t] = <<"exit">>
    <3>1. Parked(t) => ctos'[t] = Append(<<>>, "exit")
      BY <2>1, LockedOut
    <3> QED BY <3>1
  <2> QED BY <1>0, <2>1, <2>2 DEF LockInv, Parked, Locked, Quiet
<1>3. CASE RegisterFlag(t)
  <2>1. /\ server[t] = "start"
        /\ server'[t] = (IF attached[t] THEN "attach" ELSE "recv")
        /\ UNCHANGED <<executed, clientVars, attachVars, chanVars>>
    BY <1>0, <1>3 DEF RegisterFlag, ServerStep, TypeOK
  <2> QED BY <1>0, <2>1 DEF LockInv, Parked, Locked, Quiet
<1>4. CASE \/ RecvRequest(t) \/ RecvArg(t) \/ Execute(t) \/ RecvSecond(t)
           \/ CopyHandles(t) \/ RestoreEof(t)
  <2>1. server'[t] \in {"exiting", "exec", "args", "recv", "panic_async", "replay",
                        "panic_replay"}
    BY <1>0, <1>4 DEF RecvRequest, RecvArg, Execute, RecvSecond, CopyHandles, RestoreEof,
       ServerStep, TypeOK
  <2> QED BY <2>1 DEF LockInv, Parked
<1>5. CASE RecvEmpty(t)
  <2>1. /\ ctos[t] = <<>>
        /\ \/ server'[t] \in {"recvFlag", "argsFlag"}
           \/ server[t] = "recv2" /\ server'[t] = "recv2Flag"
        /\ UNCHANGED <<executed, clientVars, attachVars, chanVars>>
    BY <1>0, <1>5 DEF RecvEmpty, ServerStep, TypeOK
  <2>2. server[t] = "recv2" => Locked(t) /\ Quiet(t)
    BY <2>1, SecondReceive
  <2> QED BY <2>1, <2>2 DEF LockInv, Parked, Locked, Quiet
<1>6. CASE CheckFlag(t)
  <2>1. /\ UNCHANGED <<executed, clientVars, attachVars, chanVars>>
        /\ \/ server'[t] \in {"recv", "panic_arg", "args"}
           \/ server[t] = "recvFlag" /\ server'[t] = "recv2" /\ Locked(t)
           \/ server[t] = "recv2Flag" /\ server'[t] \in {"ckpt", "recv2"}
    BY <1>0, <1>6 DEF CheckFlag, ServerStep, TypeOK
  <2> QED BY <1>0, <2>1 DEF LockInv, Parked, Locked, Quiet
<1>7. CASE EnterCheckpoint(t) \/ PassBarrier(t) \/ DumpToRings(t) \/ DumpToRingsFails(t)
  <2>1. /\ server[t] \in {"ckpt", "wait1", "dump"}
        /\ server'[t] \in {"wait1", "dump", "wait2", "panic_buffer"}
        /\ UNCHANGED <<executed, clientVars, attached, chanVars>>
    BY <1>0, <1>7 DEF EnterCheckpoint, PassBarrier, DumpToRings, DumpToRingsFails,
       ServerStep, TypeOK
  <2> QED BY <1>0, <2>1 DEF LockInv, Parked, Locked, Quiet
<1>8. CASE FinishCheckpoint(t)
  <2>1. /\ server[t] = "wait2"
        /\ UNCHANGED <<executed, clientVars, attached, ctos, stoc>>
        /\ \/ server'[t] \in {"stopped", "recv"}
           \/ server'[t] = "detached" /\ flag' = flag
    BY <1>0, <1>8 DEF FinishCheckpoint, ServerStep, TypeOK
  <2> QED BY <1>0, <2>1 DEF LockInv, Parked, Locked, Quiet
<1>9. CASE BeginAttach(t)
  <2>1. /\ server[t] = "attach"
        /\ UNCHANGED <<executed, clientVars, attached, ctos, stoc>>
        /\ \/ server'[t] = "handles"
           \/ server'[t] = "panic_buffer" /\ flag' = flag
    BY <1>0, <1>9 DEF BeginAttach, ServerStep, TypeOK
  <2> QED BY <1>0, <2>1 DEF LockInv, Parked, Locked, Quiet
<1>10. CASE CreateThread(t)
  <2>1. /\ server[t] = "none" /\ server'[t] = "start" /\ attached' = attached
        /\ flag' = flag
    BY <1>0, <1>10 DEF CreateThread, ServerStep, TypeOK
  <2> QED BY <1>0, <2>1 DEF LockInv, Parked
<1>11. CASE Attach(t)
  <2>1. /\ server[t] = "detached" /\ server'[t] = "start" /\ attached'[t] = TRUE
        /\ UNCHANGED <<executed, clientVars, chanVars>>
    BY <1>0, <1>11 DEF Attach, ServerStep, TypeOK
  <2> QED BY <1>0, <2>1 DEF LockInv, Parked, Locked, Quiet
<1>12. CASE SetFlag(t)
  <2>1. /\ flag'[t] = flag[t] \cup {WRITE_DISABLED} /\ t \in flags
        /\ UNCHANGED <<serverVars, clientVars, attachVars, ctos, stoc>>
    BY <1>0, <1>12 DEF SetFlag, TypeOK
  <2>2. server[t] \notin {"none", "start"}
    BY <2>1 DEF GateInv, CtlInv
  <2>3. Locked(t) => flag'[t] = flag[t]
    BY <2>1 DEF Locked
  <2> QED BY <1>0, <2>1, <2>2, <2>3 DEF LockInv, Parked, Locked, Quiet
<1> QED BY <1>1, <1>2, <1>3, <1>4, <1>5, <1>6, <1>7, <1>8, <1>9, <1>10, <1>11, <1>12
        DEF ThreadStep

(* A snapshot in the rings stays whole while its thread is parked.         *)
LEMMA SnapOwn ==
  ASSUME GateInv, NEW t \in Threads, ThreadStep(t)
  PROVE  SnapInv(t)'
<1> USE DEF clientVars, serverVars, attachVars, managerVars, barrierVars,
            ctlVars, chanVars
<1>0. /\ TypeOK /\ LockInv(t) /\ SnapInv(t) /\ (mode = "Detach" => Threads = {Main})
      /\ mode' = mode
  BY DEF GateInv, ThreadInv, CtlInv, ThreadStep, StartCall, ClientExit, BeforeCall,
     SendChunk, RecvResult, AfterCall, RegisterFlag, RecvRequest, RecvEmpty, CheckFlag,
     RecvSecond, RecvArg, Execute, EnterCheckpoint, PassBarrier, DumpToRings,
     DumpToRingsFails, FinishCheckpoint, BeginAttach, CopyHandles, RestoreEof,
     CreateThread, Attach, SetFlag
<1>1. CASE StartCall(t) \/ BeforeCall(t) \/ RecvResult(t) \/ AfterCall(t) \/ SetFlag(t)
  <2>1. /\ server' = server /\ attached' = attached /\ snap' = snap
        /\ client[t] = "gone" => client'[t] = "gone"
    BY <1>0, <1>1 DEF StartCall, BeforeCall, RecvResult, AfterCall, SetFlag, ClientStep
  <2> QED BY <1>0, <2>1 DEF SnapInv, HoldsSnapshot
<1>2. CASE ClientExit(t)
  <2>1. server' = server /\ attached' = attached /\ client'[t] = "gone"
    BY <1>0, <1>2 DEF ClientExit, ClientStep, TypeOK
  <2> QED BY <1>0, <2>1 DEF SnapInv
<1>3. CASE SendChunk(t)
  <2>1. server' = server /\ attached' = attached /\ client[t] = "send"
    BY <1>3 DEF SendChunk, ClientStep
  <2>2. ~HoldsSnapshot(t)
    BY <2>1, LockedOut DEF Parked, HoldsSnapshot, InACall
  <2> QED BY <1>0, <2>1, <2>2 DEF SnapInv, HoldsSnapshot
<1>4. CASE RegisterFlag(t)
  <2>1. /\ server[t] = "start" /\ UNCHANGED <<clientVars, attachVars>>
        /\ server'[t] = (IF attached[t] THEN "attach" ELSE "recv")
    BY <1>0, <1>4 DEF RegisterFlag, ServerStep, TypeOK
  <2> QED BY <1>0, <2>1 DEF SnapInv, HoldsSnapshot
<1>5. CASE \/ RecvRequest(t) \/ RecvArg(t) \/ Execute(t) \/ RecvEmpty(t)
           \/ CheckFlag(t) \/ RecvSecond(t)
  <2>1. server'[t] \in {"exiting", "exec", "args", "recv", "panic_async", "recvFlag",
                        "argsFlag", "recv2Flag", "recv2", "ckpt", "panic_arg"}
    BY <1>0, <1>5 DEF RecvRequest, RecvArg, Execute, RecvEmpty, CheckFlag, RecvSecond,
       ServerStep, TypeOK
  <2>2. attached' = attached
    BY <1>5 DEF RecvRequest, RecvArg, Execute, RecvEmpty, CheckFlag, RecvSecond
  <2> QED BY <1>0, <2>1, <2>2 DEF SnapInv, HoldsSnapshot
<1>6. CASE EnterCheckpoint(t) \/ PassBarrier(t) \/ DumpToRings(t) \/ DumpToRingsFails(t)
  <2>1. /\ attached' = attached
        /\ \/ server'[t] \in {"wait1", "dump", "panic_buffer"}
           \/ server'[t] = "wait2" /\ snap'[t] = "valid"
    BY <1>0, <1>6 DEF EnterCheckpoint, PassBarrier, DumpToRings, DumpToRingsFails,
       ServerStep, TypeOK
  <2> QED BY <1>0, <2>1 DEF SnapInv, HoldsSnapshot
<1>7. CASE FinishCheckpoint(t)
  <2>1. /\ server[t] = "wait2" /\ UNCHANGED <<clientVars, attachVars>>
        /\ \/ server'[t] \in {"stopped", "recv"}
           \/ server'[t] = "detached" /\ mode = "Detach"
    BY <1>0, <1>7 DEF FinishCheckpoint, ServerStep, TypeOK
  <2> QED BY <1>0, <2>1 DEF SnapInv, HoldsSnapshot
<1>8. CASE BeginAttach(t) \/ CopyHandles(t) \/ RestoreEof(t)
  <2>1. /\ attached' = attached /\ server[t] \in {"attach", "handles", "replay"}
        /\ server'[t] \in {"handles", "panic_buffer", "replay", "panic_replay", "recv"}
    BY <1>0, <1>8 DEF BeginAttach, CopyHandles, RestoreEof, ServerStep, TypeOK
  <2> QED BY <1>0, <2>1 DEF SnapInv, HoldsSnapshot
<1>9. CASE CreateThread(t)
  <2>1. server[t] = "none" /\ server'[t] = "start" /\ attached' = attached
    BY <1>0, <1>9 DEF CreateThread, ServerStep, TypeOK
  <2> QED BY <1>0, <2>1 DEF SnapInv, HoldsSnapshot, LockInv
<1>10. CASE Attach(t)
  <2>1. /\ server[t] = "detached" /\ server'[t] = "start"
        /\ snap' = snap /\ client' = client
    BY <1>0, <1>10 DEF Attach, ServerStep, TypeOK
  <2> QED BY <1>0, <2>1 DEF SnapInv, HoldsSnapshot
<1> QED BY <1>1, <1>2, <1>3, <1>4, <1>5, <1>6, <1>7, <1>8, <1>9, <1>10 DEF ThreadStep

(* The main thread's criu may kill all clients: their threads are parked.  *)
LEMMA DumpKeepsThreads ==
  ASSUME GateInv, NEW t \in Threads, DumpToDisk(t), NEW u \in Threads
  PROVE  ThreadInv(u)'
<1> USE DEF clientVars, serverVars, attachVars, managerVars, barrierVars,
            ctlVars, chanVars
<1>0. TypeOK /\ ThreadInv(u) /\ K' = K
  BY DEF GateInv, K
<1>1. /\ kind' = kind /\ toSend' = toSend /\ issued' = issued /\ executed' = executed
      /\ toRecv' = toRecv /\ call' = call /\ snap' = snap /\ attached' = attached
      /\ flag' = flag /\ ctos' = ctos /\ stoc' = stoc /\ mode' = mode
      /\ mode # "Detach" /\ server[t] = "dump"
      /\ server'[t] = "wait2" /\ (u # t => server'[u] = server[u])
      /\ \/ client' = client
         \/ t = Main /\ client' = [v \in Threads |-> "killed"]
  BY <1>0 DEF DumpToDisk, ServerStep, TypeOK
<1>2. /\ Got(u)' = Got(u)
      /\ server'[u] \in Live <=> server[u] \in Live
      /\ server'[u] \in Serving <=> server[u] \in Serving
      /\ server'[u] \in {"args", "argsFlag"} <=> server[u] \in {"args", "argsFlag"}
      /\ server'[u] = "none" <=> server[u] = "none"
      /\ server'[u] = "start" <=> server[u] = "start"
      /\ server'[u] = "recv2" <=> server[u] = "recv2"
      /\ Parked(u)' <=> Parked(u)
  BY <1>0, <1>1 DEF Got, Live, Receiving, Guarded, Serving, Parked
<1>3. CASE client' = client
  <2>1. CallInv(u)'
    <3>1. CASE server[u] \in Live
      BY <1>0, <1>1, <1>2, <1>3, <3>1, CallKept DEF ThreadInv
    <3>2. CASE server[u] \notin Live
      BY <1>2, <3>2 DEF CallInv
    <3> QED BY <3>1, <3>2
  <2>2. CountInv(u)'
    BY <1>0, <1>1, <1>2, <1>3 DEF ThreadInv, CountInv
  <2>3. LockInv(u)'
    BY <1>0, <1>1, <1>2, <1>3 DEF ThreadInv, LockInv, Locked, Quiet
  <2>4. SnapInv(u)'
    BY <1>0, <1>1, <1>2, <1>3 DEF ThreadInv, SnapInv, HoldsSnapshot
  <2> QED BY <2>1, <2>2, <2>3, <2>4 DEF ThreadInv
<1>4. CASE t = Main /\ client' = [v \in Threads |-> "killed"]
  <2>1. client'[u] = "killed"
    BY <1>4
  <2>2. server[u] \in Live => Parked(u) \/ server[u] = "none"
    <3>1. Round /\ Frozen
      BY <1>1, Phases
    <3>2. CASE Alive(u)
      <4>1. server[u] \in Guarded \cup {"panic_buffer"}
        BY <3>1, <3>2 DEF Round, Frozen
      <4> QED BY <4>1 DEF Parked, Guarded
    <3>3. CASE ~Alive(u)
      BY <3>3 DEF Alive, Finished, Panics, Live, Receiving, Guarded, Parked
    <3> QED BY <3>2, <3>3
  <2>3. CallInv(u)'
    <3> SUFFICES ASSUME server'[u] \in Live PROVE CallInv(u)'
      BY DEF CallInv
    <3>1. /\ client[u] \notin InACall /\ stoc[u] = <<>> /\ IN_USE \notin flag[u]
          /\ server[u] \notin Serving /\ server[u] \in Live
      <4>1. CASE Parked(u)
        BY <4>1, <1>2, LockedOut DEF IN_USE, WRITE_DISABLED, Serving, Parked
      <4>2. CASE server[u] = "none"
        BY <1>0, <1>2, <4>2 DEF ThreadInv, CallInv, LockInv, InACall, Serving
      <4> QED BY <1>2, <2>2, <4>1, <4>2
    <3>2. /\ Sent(u)' = Sent(u) /\ SyncStart(u) = -1 /\ SyncStart(u)' = -1
          /\ Left(u)' = TRUE
      BY <1>0, <1>1, <2>1, <3>1 DEF Sent, SyncStart, Left, InACall
    <3>3. Stream(ctos[u], Sent(u), Got(u), SyncStart(u), Left(u))
      BY <1>0, <3>1 DEF ThreadInv, CallInv
    <3>4. Stream(ctos[u], Sent(u), Got(u), SyncStart(u), TRUE)
      BY <3>3 DEF Stream
    <3>5. Stream(ctos[u], Sent(u), Got(u), SyncStart(u), Left(u))'
      BY <1>0, <1>1, <1>2, <3>2, <3>4 DEF Stream
    <3> QED BY <1>1, <1>2, <2>1, <3>1, <3>5 DEF CallInv, InACall
  <2>4. CountInv(u)'
    BY <1>0, <1>1, <1>2, <2>1 DEF ThreadInv, CountInv
  <2>5. LockInv(u)'
    BY <1>0, <1>1, <1>2, <2>1 DEF ThreadInv, LockInv, Locked, Quiet
  <2>6. SnapInv(u)'
    <3>1. u # t => Threads # {Main}
      BY <1>4
    <3> QED BY <1>0, <1>1, <3>1 DEF ThreadInv, SnapInv, HoldsSnapshot
  <2> QED BY <2>3, <2>4, <2>5, <2>6 DEF ThreadInv
<1> QED BY <1>1, <1>3, <1>4

(* The end of a thread or of the process.                                  *)
LEMMA EndKeepsThreads ==
  ASSUME GateInv, (\E t \in Threads : ThreadExit(t)) \/ FlagsMissing,
         NEW u \in Threads
  PROVE  ThreadInv(u)'
<1> USE DEF clientVars, serverVars, attachVars, managerVars, barrierVars,
            ctlVars, chanVars
<1>0. TypeOK /\ ThreadInv(u)
  BY DEF GateInv
<1>1. /\ UNCHANGED <<clientVars, toRecv, call, executed, attachVars, chanVars, mode>>
      /\ server'[u] \in {server[u], "finished"}
  BY <1>0 DEF ThreadExit, FlagsMissing, TypeOK
<1>2. CASE server'[u] = server[u]
  BY <1>0, <1>1, <1>2, UntouchedKeeps DEF Untouched, ThreadInv
<1>3. CASE server'[u] = "finished"
  BY <1>0, <1>1, <1>3 DEF ThreadInv, CallInv, CountInv, LockInv, SnapInv, Parked,
     HoldsSnapshot, Live, Receiving, Guarded
<1> QED BY <1>1, <1>2, <1>3

(* Every step keeps what is stated of a thread.                            *)
LEMMA ThreadsStep ==
  ASSUME GateInv, Next, NEW u \in Threads
  PROVE  ThreadInv(u)'
<1>0. TypeOK /\ ThreadInv(u)
  BY DEF GateInv
<1>1. ASSUME NEW t \in Threads, ThreadStep(t) PROVE ThreadInv(u)'
  <2>1. CASE u = t
    BY <1>1, <2>1, CallOwn, CountOwn, LockOwn, SnapOwn DEF ThreadInv
  <2>2. CASE u # t
    BY <1>0, <1>1, <2>2, OthersUntouched, UntouchedKeeps DEF ThreadInv
  <2> QED BY <2>1, <2>2
<1>2. CASE ControlStep
  BY <1>0, <1>2, ControlTouchesNone, UntouchedKeeps DEF ThreadInv
<1> QED BY <1>1, <1>2, NextCases, DumpKeepsThreads, EndKeepsThreads

-----------------------------------------------------------------------------
(* The control task and the barrier                                        *)

(* What clients do is nothing to the control task, unless they set a lock. *)
LEMMA ClientKeepsCtl ==
  ASSUME GateInv, NEW t \in Threads,
         \/ StartCall(t) \/ ClientExit(t) \/ BeforeCall(t) \/ SendChunk(t)
         \/ RecvResult(t) \/ AfterCall(t)
  PROVE  CtlInv'
<1> USE DEF clientVars, serverVars, attachVars, managerVars, barrierVars,
            ctlVars, chanVars
<1>0. TypeOK /\ CtlInv
  BY DEF GateInv
<1>1. UNCHANGED <<server, ctl, mode, threads, flags, toLock, parties, arrived, gen>>
  BY DEF StartCall, ClientExit, BeforeCall, SendChunk, RecvResult, AfterCall
<1>2. \A v \in Threads : WRITE_DISABLED \in flag'[v] => WRITE_DISABLED \in flag[v]
  <2>1. \/ flag' = flag
        \/ flag' = [flag EXCEPT ![t] = {IN_USE}]
        \/ flag' = [flag EXCEPT ![t] = @ \ {IN_USE}]
    BY DEF StartCall, ClientExit, BeforeCall, SendChunk, RecvResult, AfterCall
  <2>2. flag \in [Threads -> SUBSET {IN_USE, WRITE_DISABLED}]
    BY <1>0 DEF TypeOK
  <2>3. WRITE_DISABLED # IN_USE
    BY DEF IN_USE, WRITE_DISABLED
  <2>4. SUFFICES ASSUME NEW v \in Threads, WRITE_DISABLED \in flag'[v]
                 PROVE  WRITE_DISABLED \in flag[v]
    OBVIOUS
  <2>5. \/ flag'[v] = flag[v] \/ flag'[v] = {IN_USE} \/ flag'[v] = flag[v] \ {IN_USE}
    BY <2>1, <2>2
  <2> QED BY <2>3, <2>4, <2>5
<1>3. \A v \in Threads : (Open(v) => Open(v)') /\ (Alive(v)' <=> Alive(v))
  BY <1>1, <1>2 DEF Open, Alive
<1>4. /\ (Idle => Idle') /\ (Over => Over') /\ (Gathering => Gathering')
      /\ (Frozen => Frozen') /\ (Leaving => Leaving')
  BY <1>1, <1>3 DEF Idle, Over, Gathering, Frozen, Leaving, Here
<1>5. Round => Round'
  BY <1>1, <1>3, <1>4 DEF Round
<1> QED BY <1>0, <1>1, <1>4, <1>5 DEF CtlInv

(* A step of a thread that is not at the barrier.                          *)
LEMMA MoveKeepsCtl ==
  ASSUME GateInv, NEW t \in Threads, NEW to,
         server[t] \notin Finished \cup Guarded,
         server' = [server EXCEPT ![t] = to],
         to \notin Guarded \cup {"none", "start"},
         UNCHANGED <<ctl, mode, threads, flags, toLock, parties, arrived, gen>>,
         \A v \in Threads : v # t => flag'[v] = flag[v],
         Open(t) => Open(t)'
  PROVE  CtlInv'
<1>0. TypeOK /\ CtlInv
  BY DEF GateInv
<1>1. /\ server'[t] = to /\ Alive(t)
      /\ \A v \in Threads : v # t => server'[v] = server[v]
  BY <1>0 DEF TypeOK, Alive
<1>2. \A v \in Threads : /\ Open(v) => Open(v)'
                         /\ Alive(v)' => Alive(v)
                         /\ \A place \in Guarded :
                              server'[v] = place <=> server[v] = place
  BY <1>1 DEF Open, Alive
<1>3. flags \subseteq Threads /\ parties \subseteq Threads
  BY <1>0 DEF TypeOK
<1>4. Idle => Idle'
  BY <1>2 DEF Idle, Guarded
<1>5. ~Over
  BY <1>1 DEF Over, Alive, Finished
<1>6. Round => Round'
  <2> SUFFICES ASSUME Round PROVE Round'
    OBVIOUS
  <2>1. ~Frozen
    BY <1>1 DEF Round, Frozen, Finished, Panics
  <2>2. Gathering => Gathering'
    <3>1. Here("wait1")' = Here("wait1")
      BY <1>2, <1>3 DEF Here, Guarded
    <3> QED BY <1>2, <3>1 DEF Gathering, Guarded
  <2>3. Leaving => Leaving'
    BY <1>2 DEF Leaving
  <2> QED BY <1>2, <2>1, <2>2, <2>3 DEF Round
<1>7. \A v \in flags : server'[v] \notin {"none", "start"}
  BY <1>0, <1>1, <1>3 DEF CtlInv
<1> QED BY <1>0, <1>4, <1>5, <1>6, <1>7 DEF CtlInv

(* The steps of a server thread outside the barrier.                       *)
LEMMA ServerKeepsCtl ==
  ASSUME GateInv, NEW t \in Threads,
         \/ RecvRequest(t) \/ RecvEmpty(t) \/ CheckFlag(t) \/ RecvSecond(t)
         \/ RecvArg(t) \/ Execute(t) \/ BeginAttach(t) \/ CopyHandles(t)
         \/ RestoreEof(t) \/ (ThreadExit(t) /\ t # Main)
  PROVE  CtlInv'
<1> USE DEF clientVars, serverVars, attachVars, managerVars, barrierVars,
            ctlVars, chanVars
<1>0. TypeOK
  BY DEF GateInv
<1>1. UNCHANGED <<ctl, mode, threads, flags, toLock, parties, arrived, gen>>
  BY DEF RecvRequest, RecvEmpty, CheckFlag, RecvSecond, RecvArg, Execute, BeginAttach,
     CopyHandles, RestoreEof, ThreadExit
<1>2. \A v \in Threads : v # t => flag'[v] = flag[v]
  BY <1>0 DEF TypeOK, RecvRequest, RecvEmpty, CheckFlag, RecvSecond, RecvArg, Execute,
     BeginAttach, CopyHandles, RestoreEof, ThreadExit
<1>3. PICK to : /\ server' = [server EXCEPT ![t] = to]
                /\ to \in Receiving \cup Panics \cup
                          {"ckpt", "handles", "replay", "exiting", "finished"}
                /\ server[t] \in Receiving \cup {"attach", "handles", "replay", "exiting"}
                /\ Open(t) => Open(t)'
  <2>1. CASE RecvRequest(t) \/ RecvArg(t) \/ Execute(t) \/ RecvSecond(t)
    <3>1. PICK to : /\ server' = [server EXCEPT ![t] = to]
                    /\ to \in {"exiting", "exec", "args", "recv", "panic_async"}
                    /\ server[t] \in Receiving /\ flag' = flag
      BY <2>1 DEF RecvRequest, RecvArg, Execute, RecvSecond, ServerStep, Receiving
    <3>2. Open(t) => Open(t)'
      BY <1>0, <3>1 DEF Open, TypeOK, Receiving
    <3> QED BY <3>1, <3>2 DEF Receiving, Panics
  <2>2. CASE RecvEmpty(t)
    <3>1. PICK to : /\ server' = [server EXCEPT ![t] = to] /\ flag' = flag
                    /\ \/ server[t] = "recv" /\ to = "recvFlag"
                       \/ server[t] = "recv2" /\ to = "recv2Flag"
                       \/ server[t] = "args" /\ to = "argsFlag"
      BY <2>2 DEF RecvEmpty, ServerStep
    <3>2. Open(t) => Open(t)'
      BY <1>0, <3>1 DEF Open, TypeOK, Receiving
    <3> QED BY <3>1, <3>2 DEF Receiving
  <2>3. CASE CheckFlag(t)
    <3>1. PICK to : /\ server' = [server EXCEPT ![t] = to] /\ flag' = flag
                    /\ \/ /\ server[t] = "recvFlag"
                          /\ to = IF Locked(t) THEN "recv2" ELSE "recv"
                       \/ server[t] = "recv2Flag" /\ to \in {"ckpt", "recv2"}
                       \/ server[t] = "argsFlag" /\ to \in {"panic_arg", "args"}
      BY <2>3 DEF CheckFlag, ServerStep
    <3>2. Open(t) => Open(t)'
      BY <1>0, <3>1 DEF Open, TypeOK, Receiving, Locked
    <3> QED BY <3>1, <3>2 DEF Receiving, Panics
  <2>4. CASE BeginAttach(t) \/ CopyHandles(t)
    <3>1. PICK to : /\ server' = [server EXCEPT ![t] = to]
                    /\ server[t] \in {"attach", "handles"}
                    /\ to \in {"handles", "panic_buffer", "replay", "panic_replay"}
      BY <2>4 DEF BeginAttach, CopyHandles, ServerStep
    <3>2. Open(t) => Open(t)'
      BY <1>0, <3>1 DEF Open, TypeOK, Receiving
    <3> QED BY <3>1, <3>2 DEF Panics
  <2>5. CASE RestoreEof(t)
    <3>1. /\ server' = [server EXCEPT ![t] = "recv"] /\ server[t] = "replay"
          /\ WRITE_DISABLED \notin flag'[t]
      BY <1>0, <2>5 DEF RestoreEof, ServerStep, TypeOK
    <3>2. Open(t) => Open(t)'
      BY <1>0, <3>1 DEF Open, TypeOK, Receiving
    <3> QED BY <3>1, <3>2 DEF Receiving
  <2>6. CASE ThreadExit(t) /\ t # Main
    <3>1. /\ server' = [server EXCEPT ![t] = "finished"] /\ server[t] = "exiting"
      BY <1>0, <2>6 DEF ThreadExit
    <3>2. Open(t) => Open(t)'
      BY <1>0, <3>1 DEF Open, TypeOK, Receiving
    <3> QED BY <3>1, <3>2
  <2> QED BY <2>1, <2>2, <2>3, <2>4, <2>5, <2>6
<1>4. /\ server[t] \notin Finished \cup Guarded
      /\ to \notin Guarded \cup {"none", "start"}
  BY <1>3 DEF Receiving, Panics, Finished, Guarded
<1> QED BY <1>1, <1>2, <1>3, <1>4, MoveKeepsCtl

(* A server thread registers its flag only between checkpoints.            *)
LEMMA RegisterKeepsCtl ==
  ASSUME GateInv, NEW t \in Threads, RegisterFlag(t)
  PROVE  CtlInv'
<1> USE DEF clientVars, serverVars, attachVars, managerVars, barrierVars,
            ctlVars, chanVars
<1>0. TypeOK /\ CtlInv /\ LockInv(t)
  BY DEF GateInv, ThreadInv
<1>1. /\ server[t] = "start" /\ ctl # "flags" /\ flags' = flags \cup {t}
      /\ server'[t] = (IF attached[t] THEN "attach" ELSE "recv")
      /\ \A v \in Threads : v # t => server'[v] = server[v]
      /\ UNCHANGED <<flag, ctl, mode, threads, toLock, parties, arrived, gen>>
  BY <1>0 DEF RegisterFlag, ServerStep, TypeOK
<1>2. ctl = "idle"
  <2>1. ~Over
    BY <1>1 DEF Over
  <2>2. ~Round
    BY <1>0, <1>1 DEF Round, CtlInv, Alive, Finished, Panics
  <2> QED BY <1>0, <1>1, <2>1, <2>2 DEF TypeOK, CtlInv
<1>3. Idle'
  <2>1. Idle /\ t \in threads
    BY <1>0, <1>1, <1>2 DEF CtlInv, Idle, Alive, Finished, Panics
  <2>2. Open(t)' /\ server'[t] # "wait2"
    BY <1>0, <1>1 DEF Open, LockInv, Receiving
  <2>3. \A v \in Threads : v # t => (Alive(v)' => Alive(v)) /\ (Open(v) => Open(v)')
    BY <1>1 DEF Alive, Open
  <2> QED BY <1>1, <2>1, <2>2, <2>3 DEF Idle
<1>4. \A v \in flags' : server'[v] \notin {"none", "start"}
  BY <1>0, <1>1 DEF CtlInv, TypeOK
<1> QED BY <1>0, <1>1, <1>2, <1>3, <1>4 DEF CtlInv

(* The parties of a wait are all there once the barrier opens.             *)
LEMMA AllHere ==
  ASSUME TypeOK, NEW place, NEW p, Here(place) \cup {p} = parties \cup {Control}
  PROVE  /\ \A v \in parties : v # p => server[v] = place
         /\ p # Control => ctl = place
BY GateAssumption DEF TypeOK, Here

(* A thread enters the checkpoint: the last one opens the barrier.         *)
LEMMA EnterKeepsCtl ==
  ASSUME GateInv, NEW t \in Threads, EnterCheckpoint(t)
  PROVE  CtlInv'
<1> USE DEF clientVars, serverVars, attachVars, managerVars, barrierVars,
            ctlVars, chanVars
<1>0. TypeOK /\ CtlInv /\ parties \subseteq Threads /\ flags \subseteq Threads
  BY DEF GateInv, TypeOK
<1>1. /\ server[t] = "ckpt" /\ server'[t] = "wait1" /\ Arrive(t)
      /\ \A v \in Threads : v # t => server'[v] = server[v]
      /\ UNCHANGED <<flag, ctl, mode, threads, flags, toLock, parties>>
  BY <1>0 DEF EnterCheckpoint, ServerStep, TypeOK
<1>2. t \in parties /\ Round /\ Gathering
  BY <1>1, Phases
<1>3. t # Control /\ Control \notin parties
  BY <1>0, GateAssumption
<1>4. arrived = Here("wait1") /\ arrived \cup {t} \subseteq parties \cup {Control}
  BY <1>2 DEF Gathering, Here
<1>5. Gathering' \/ Frozen'
  <2>1. CASE /\ arrived \cup {t} = parties \cup {Control}
             /\ arrived' = {} /\ gen' = gen + 1
    <3>1. /\ \A v \in parties : v # t => server[v] = "wait1"
          /\ ctl = "wait1"
      BY <1>0, <1>3, <1>4, <2>1, AllHere
    <3>2. \A v \in parties' : server'[v] = "wait1"
      BY <1>0, <1>1, <3>1
    <3>3. Here("wait2")' = {}
      BY <1>1, <3>1, <3>2 DEF Here
    <3>4. gen' = 1 /\ ctl' = "wait1"
      BY <1>1, <1>2, <2>1, <3>1 DEF Gathering
    <3> QED BY <2>1, <3>2, <3>3, <3>4 DEF Frozen, Guarded
  <2>2. CASE arrived' = arrived \cup {t} /\ gen' = gen
    <3>1. Here("wait1")' = Here("wait1") \cup {t}
      BY <1>0, <1>1, <1>2 DEF Here
    <3>2. \A v \in Threads : server'[v] \notin {"dump", "wait2"}
      BY <1>1, <1>2 DEF Gathering
    <3>3. ctl' \in {"flags", "wait1"} /\ gen' = 0
      BY <1>1, <1>2, <2>2 DEF Gathering
    <3> QED BY <1>4, <2>2, <3>1, <3>2, <3>3 DEF Gathering
  <2> QED BY <1>0, <1>1, <1>4, <2>1, <2>2, Arrival
<1>6. Round'
  <2>1. \A v \in Threads : Alive(v)' => v \in parties
    BY <1>1, <1>2 DEF Round, Alive
  <2> QED BY <1>1, <1>2, <1>5, <2>1 DEF Round
<1>7. \A v \in flags' : server'[v] \notin {"none", "start"}
  BY <1>0, <1>1 DEF CtlInv
<1>8. ctl \in {"flags", "wait1"}
  BY <1>2 DEF Gathering
<1> QED BY <1>0, <1>1, <1>6, <1>7, <1>8 DEF CtlInv

(* When the barrier opens a second time, every thread is on its way out.   *)
LEMMA BarrierOpens ==
  ASSUME TypeOK, \A v \in Threads : Alive(v)' => v \in parties,
         \A v \in parties : server'[v] = "wait2",
         ctl' = "wait2", gen' = 2
  PROVE  Leaving'
<1>1. \A v \in Threads : Open(v)'
  <2> SUFFICES ASSUME NEW v \in Threads PROVE Open(v)'
    OBVIOUS
  <2>1. server'[v] = "wait2" \/ server'[v] \in Finished
    BY DEF Alive
  <2> QED BY <2>1 DEF Open, Finished, Panics, Receiving
<1> QED BY <1>1 DEF Leaving

(* A thread dumps: the last one opens the barrier again.                   *)
LEMMA DumpKeepsCtl ==
  ASSUME GateInv, NEW t \in Threads,
         PassBarrier(t) \/ DumpToDisk(t) \/ DumpToRings(t) \/ DumpToRingsFails(t)
  PROVE  CtlInv'
<1> USE DEF clientVars, serverVars, attachVars, managerVars, barrierVars,
            ctlVars, chanVars
<1>0. TypeOK /\ CtlInv /\ parties \subseteq Threads /\ flags \subseteq Threads
  BY DEF GateInv, TypeOK
<1>1. /\ server[t] \in {"wait1", "dump"}
      /\ server'[t] \in {"dump", "wait2", "panic_buffer"}
      /\ server'[t] = "wait2" => Arrive(t)
      /\ server'[t] # "wait2" => UNCHANGED <<arrived, gen>>
      /\ server[t] = "wait1" => gen >= 1
      /\ \A v \in Threads : v # t => server'[v] = server[v]
      /\ UNCHANGED <<flag, ctl, mode, threads, flags, toLock, parties>>
  BY <1>0 DEF PassBarrier, DumpToDisk, DumpToRings, DumpToRingsFails, ServerStep, TypeOK
<1>2. t \in parties /\ Round /\ Frozen
  BY <1>1, Phases DEF Gathering
<1>3. t # Control /\ Control \notin parties
  BY <1>0, GateAssumption
<1>4. arrived = Here("wait2") /\ arrived \cup {t} \subseteq parties \cup {Control}
  BY <1>2 DEF Frozen, Here
<1>5. \A v \in Threads : Alive(v)' => v \in parties
  BY <1>1, <1>2 DEF Round, Alive
<1>6. \A v \in parties' : server'[v] \in Guarded \cup {"panic_buffer"}
  BY <1>0, <1>1, <1>2 DEF Frozen, Guarded
<1>7. ctl' \in {"wait1", "dump", "wait2"} /\ gen = 1
  BY <1>1, <1>2 DEF Frozen
<1>8. Frozen' \/ Leaving'
  <2>1. CASE server'[t] # "wait2"
    <3>1. Here("wait2")' = Here("wait2")
      BY <1>0, <1>1, <1>2, <2>1 DEF Here
    <3> QED BY <1>1, <1>4, <1>6, <1>7, <2>1, <3>1 DEF Frozen
  <2>2. CASE /\ server'[t] = "wait2" /\ arrived \cup {t} = parties \cup {Control}
             /\ arrived' = {} /\ gen' = gen + 1
    <3>1. /\ \A v \in parties : v # t => server[v] = "wait2"
          /\ ctl = "wait2"
      BY <1>0, <1>3, <1>4, <2>2, AllHere
    <3>2. \A v \in parties : server'[v] = "wait2"
      BY <1>0, <1>1, <2>2, <3>1
    <3>3. gen' = 2 /\ ctl' = "wait2"
      BY <1>1, <1>7, <2>2, <3>1
    <3> QED BY <1>0, <1>5, <3>2, <3>3, BarrierOpens
  <2>3. CASE server'[t] = "wait2" /\ arrived' = arrived \cup {t} /\ gen' = gen
    <3>1. Here("wait2")' = Here("wait2") \cup {t}
      BY <1>0, <1>1, <1>2, <2>3 DEF Here
    <3> QED BY <1>4, <1>6, <1>7, <2>3, <3>1 DEF Frozen
  <2> QED BY <1>0, <1>1, <1>4, <2>1, <2>2, <2>3, Arrival
<1>9. Round'
  BY <1>1, <1>2, <1>5, <1>8 DEF Round
<1>10. \A v \in flags' : server'[v] \notin {"none", "start"}
  BY <1>0, <1>1 DEF CtlInv
<1> QED BY <1>0, <1>1, <1>7, <1>9, <1>10 DEF CtlInv

(* A thread leaves the checkpoint unlocked, or for good.                   *)
LEMMA FinishKeepsCtl ==
  ASSUME GateInv, NEW t \in Threads, FinishCheckpoint(t)
  PROVE  CtlInv'
<1> USE DEF clientVars, serverVars, attachVars, managerVars, barrierVars,
            ctlVars, chanVars
<1>0. TypeOK /\ CtlInv /\ parties \subseteq Threads /\ flags \subseteq Threads
  BY DEF GateInv, TypeOK
<1>1. /\ server[t] = "wait2" /\ gen = 2
      /\ \/ server'[t] \in {"stopped", "detached"}
         \/ server'[t] = "recv" /\ WRITE_DISABLED \notin flag'[t]
      /\ \A v \in Threads : v # t => server'[v] = server[v] /\ flag'[v] = flag[v]
      /\ UNCHANGED <<ctl, mode, threads, flags, toLock, parties, arrived, gen>>
  BY <1>0 DEF FinishCheckpoint, ServerStep, TypeOK
<1>2. t \in parties /\ Round /\ Leaving
  BY <1>1, Phases DEF Frozen
<1>3. \A v \in Threads : Open(v)'
  BY <1>1, <1>2 DEF Leaving, Open, Receiving
<1>4. \A v \in Threads : Alive(v)' => v \in parties
  BY <1>1, <1>2 DEF Round, Alive
<1>5. ctl = "wait2"
  BY <1>2 DEF Leaving
<1>6. Round'
  BY <1>1, <1>2, <1>3, <1>4, <1>5 DEF Round, Leaving
<1>7. \A v \in flags' : server'[v] \notin {"none", "start"}
  BY <1>0, <1>1 DEF CtlInv
<1> QED BY <1>0, <1>1, <1>5, <1>6, <1>7 DEF CtlInv

(* A thread is launched only between checkpoints.                          *)
LEMMA LaunchKeepsCtl ==
  ASSUME GateInv, NEW t \in Threads, CreateThread(t) \/ Attach(t)
  PROVE  CtlInv'
<1> USE DEF clientVars, serverVars, attachVars, managerVars, barrierVars,
            ctlVars, chanVars
<1>0. TypeOK /\ CtlInv /\ SnapInv(t) /\ flags \subseteq Threads
  BY DEF GateInv, ThreadInv, TypeOK
<1>1. /\ ctl = "idle" /\ server[t] \in {"none", "detached"} /\ server'[t] = "start"
      /\ \A v \in Threads : v # t => server'[v] = server[v]
      /\ UNCHANGED <<flag, ctl, mode, toLock, parties, arrived, gen>>
      /\ t \in threads'
      /\ \/ server[t] = "none" /\ threads \subseteq threads' /\ flags' = flags
         \/ server[t] = "detached" /\ flags' = {}
  BY <1>0 DEF CreateThread, Attach, ServerStep, TypeOK
<1>2. Idle /\ toLock = {}
  BY <1>0, <1>1 DEF CtlInv
<1>3. \A v \in Threads : Open(v)' /\ server'[v] # "wait2"
  BY <1>1, <1>2 DEF Idle, Open, Receiving
<1>4. \A v \in Threads : Alive(v)' => v \in threads'
  <2>1. CASE server[t] = "none"
    BY <1>1, <1>2, <2>1 DEF Idle, Alive
  <2>2. CASE server[t] = "detached"
    BY <1>0, <1>1, <2>2 DEF SnapInv
  <2> QED BY <1>1, <2>1, <2>2
<1>5. Idle'
  BY <1>1, <1>2, <1>3, <1>4 DEF Idle
<1>6. \A v \in flags' : server'[v] \notin {"none", "start"}
  BY <1>0, <1>1 DEF CtlInv
<1> QED BY <1>0, <1>1, <1>2, <1>5, <1>6 DEF CtlInv

(* A checkpoint begins with nobody at the barrier.                         *)
LEMMA RequestKeepsCtl ==
  ASSUME GateInv, RequestCheckpoint
  PROVE  CtlInv'
<1> USE DEF clientVars, serverVars, attachVars, managerVars, barrierVars,
            ctlVars, chanVars
<1> DEFINE ids == {t \in threads : server[t] \notin Finished}
<1>0. TypeOK /\ CtlInv /\ Idle
  BY DEF GateInv, CtlInv, RequestCheckpoint
<1>1. /\ ids # {} /\ mode' \in Modes /\ ctl' = "flags" /\ threads' = ids
      /\ flags' = flags \cap ids /\ parties' = ids /\ arrived' = {} /\ gen' = 0
      /\ server' = server
  BY DEF RequestCheckpoint
<1>2. mode' = "Detach" => Threads = {Main}
  BY <1>1, GateAssumption
<1>3. \A t \in Threads : server[t] \notin {"wait1", "dump", "wait2"}
  BY <1>0 DEF Idle, Open
<1>4. Here("wait1")' = {}
  <2>1. parties' \subseteq Threads
    BY <1>0, <1>1 DEF TypeOK
  <2> QED BY <1>1, <1>3, <2>1 DEF Here
<1>5. Gathering'
  BY <1>1, <1>3, <1>4 DEF Gathering
<1>6. \A t \in Threads : Alive(t)' => t \in parties'
  BY <1>0, <1>1 DEF Idle, Alive
<1>7. Round'
  BY <1>1, <1>5, <1>6 DEF Round
<1>8. \A v \in flags' : server'[v] \notin {"none", "start"}
  BY <1>0, <1>1 DEF CtlInv
<1> QED BY <1>1, <1>2, <1>7, <1>8 DEF CtlInv

(* The steps of the control task during a checkpoint.                      *)
LEMMA ControlKeepsCtl ==
  ASSUME GateInv,
         \/ \E t \in Threads : SetFlag(t)
         \/ FlagsSet \/ DumpProcessState \/ ProcessStateDumped \/ CheckpointDone
  PROVE  CtlInv'
<1> USE DEF clientVars, serverVars, attachVars, managerVars, barrierVars,
            ctlVars, chanVars
<1>0. /\ TypeOK /\ CtlInv /\ parties \subseteq Threads /\ flags \subseteq Threads
      /\ Control \notin parties
  BY GateAssumption DEF GateInv, TypeOK
<1>1. /\ UNCHANGED <<server, mode, threads, flags, parties>>
      /\ ctl \in {"flags", "wait1", "dump", "wait2"}
      /\ \/ toLock' = toLock
         \/ ctl = "flags" /\ ctl' = "flags"
  BY DEF SetFlag, FlagsSet, DumpProcessState, ProcessStateDumped, CheckpointDone
<1>2. Round
  BY <1>1, ControlPhases
<1>3. \A v \in Threads : Alive(v)' => v \in parties
  BY <1>1, <1>2 DEF Round, Alive
<1>4. \A v \in flags' : server'[v] \notin {"none", "start"}
  BY <1>0, <1>1 DEF CtlInv
<1>5. ASSUME NEW t \in Threads, SetFlag(t) PROVE CtlInv'
  <2>1. ctl = "flags" /\ UNCHANGED <<ctl, arrived, gen>>
    BY <1>5 DEF SetFlag
  <2>2. Gathering'
    <3>1. Here("wait1")' = Here("wait1")
      BY <1>1, <2>1 DEF Here
    <3> QED BY <1>1, <2>1, <3>1, ControlPhases DEF Gathering
  <2>3. Round'
    BY <1>1, <1>2, <1>3, <2>1, <2>2 DEF Round
  <2> QED BY <1>0, <1>1, <1>4, <2>1, <2>3 DEF CtlInv
<1>6. CASE FlagsSet
  <2>1. /\ ctl = "flags" /\ ctl' = "wait1" /\ toLock = {} /\ flags = parties
        /\ Arrive(Control) /\ toLock' = toLock
    BY <1>6 DEF FlagsSet
  <2>2. /\ Gathering /\ arrived = Here("wait1")
        /\ arrived \cup {Control} \subseteq parties \cup {Control}
    BY <2>1, ControlPhases DEF Gathering, Here
  <2>3. Gathering' \/ Frozen'
    <3>1. CASE /\ arrived \cup {Control} = parties \cup {Control}
               /\ arrived' = {} /\ gen' = gen + 1
      <4>1. \A v \in parties' : server'[v] = "wait1"
        <5>1. \A v \in parties : v # Control => server[v] = "wait1"
          BY <1>0, <2>2, <3>1, AllHere
        <5> QED BY <1>0, <1>1, <5>1
      <4>2. Here("wait2")' = {} /\ gen' = 1
        BY <2>1, <2>2, <3>1, <4>1 DEF Here, Gathering
      <4> QED BY <2>1, <3>1, <4>1, <4>2 DEF Frozen, Guarded
    <3>2. CASE arrived' = arrived \cup {Control} /\ gen' = gen
      <4>1. Here("wait1")' = Here("wait1") \cup {Control}
        BY <1>1, <2>1 DEF Here
      <4> QED BY <1>1, <2>1, <2>2, <3>2, <4>1 DEF Gathering
    <3> QED BY <1>0, <2>1, <2>2, <3>1, <3>2, Arrival
  <2>4. Round'
    BY <1>1, <1>2, <1>3, <2>1, <2>3 DEF Round
  <2> QED BY <1>0, <1>1, <1>4, <2>1, <2>4 DEF CtlInv
<1>7. CASE DumpProcessState
  <2>1. /\ ctl = "wait1" /\ ctl' = "dump" /\ gen >= 1
        /\ UNCHANGED <<arrived, gen, toLock>>
    BY <1>7 DEF DumpProcessState
  <2>2. Frozen
    BY <1>2, <2>1 DEF Round, Gathering, Leaving
  <2>3. Frozen'
    <3>1. Here("wait2")' = Here("wait2")
      BY <1>1, <2>1 DEF Here
    <3> QED BY <1>1, <2>1, <2>2, <3>1 DEF Frozen
  <2>4. Round'
    BY <1>1, <1>2, <1>3, <2>1, <2>3 DEF Round
  <2> QED BY <1>0, <1>1, <1>4, <2>1, <2>4 DEF CtlInv
<1>8. CASE ProcessStateDumped
  <2>1. ctl = "dump" /\ ctl' = "wait2" /\ Arrive(Control) /\ toLock' = toLock
    BY <1>8 DEF ProcessStateDumped
  <2>2. /\ Frozen /\ arrived = Here("wait2") /\ gen = 1
        /\ arrived \cup {Control} \subseteq parties \cup {Control}
    BY <2>1, ControlPhases DEF Frozen, Here
  <2>3. Frozen' \/ Leaving'
    <3>1. CASE /\ arrived \cup {Control} = parties \cup {Control}
               /\ arrived' = {} /\ gen' = gen + 1
      <4>1. \A v \in parties : server'[v] = "wait2"
        <5>1. \A v \in parties : v # Control => server[v] = "wait2"
          BY <1>0, <2>2, <3>1, AllHere
        <5> QED BY <1>0, <1>1, <5>1
      <4>2. gen' = 2
        BY <2>2, <3>1
      <4> QED BY <1>0, <1>3, <2>1, <4>1, <4>2, BarrierOpens
    <3>2. CASE arrived' = arrived \cup {Control} /\ gen' = gen
      <4>1. Here("wait2")' = Here("wait2") \cup {Control}
        BY <1>1, <2>1 DEF Here
      <4> QED BY <1>1, <2>1, <2>2, <3>2, <4>1 DEF Frozen
    <3> QED BY <1>0, <2>1, <2>2, <3>1, <3>2, Arrival
  <2>4. Round'
    BY <1>1, <1>2, <1>3, <2>1, <2>3 DEF Round
  <2> QED BY <1>0, <1>1, <1>4, <2>1, <2>4 DEF CtlInv
<1>9. CASE CheckpointDone
  <2>1. /\ ctl = "wait2" /\ gen = 2 /\ ctl' = "idle" /\ UNCHANGED <<flag, gen, toLock>>
        /\ \A v \in Threads : server[v] \notin Guarded
    BY <1>9 DEF CheckpointDone
  <2>2. \A v \in Threads : Open(v)
    BY <1>2, <2>1 DEF Round, Gathering, Frozen, Leaving
  <2>3. \A v \in Threads : Open(v)' /\ server'[v] # "wait2"
    BY <1>1, <2>1, <2>2 DEF Open, Guarded
  <2>4. Idle'
    BY <1>1, <1>2, <1>3, <2>1, <2>3 DEF Idle, Round
  <2> QED BY <1>0, <1>1, <1>4, <2>1, <2>4 DEF CtlInv
<1> QED BY <1>5, <1>6, <1>7, <1>8, <1>9

(* The worker process ends.                                                *)
LEMMA EndKeepsCtl ==
  ASSUME GateInv, FlagsMissing \/ ThreadExit(Main)
  PROVE  CtlInv'
<1> USE DEF clientVars, serverVars, attachVars, managerVars, barrierVars,
            ctlVars, chanVars
<1>0. TypeOK /\ CtlInv /\ Main \in Threads
  BY GateAssumption DEF GateInv
<1>1. /\ server' = [v \in Threads |-> "finished"] /\ ctl' \in {"gone", "panicked"}
      /\ UNCHANGED <<mode, flags, gen>>
  BY DEF FlagsMissing, ThreadExit
<1>2. gen \in {0, 2}
  <2>1. CASE FlagsMissing
    BY <2>1, ControlPhases DEF FlagsMissing, Gathering
  <2>2. CASE ThreadExit(Main)
    <3>1. server[Main] = "exiting"
      BY <2>2 DEF ThreadExit
    <3>2. ~(Round /\ Frozen)
      BY <1>0, <3>1 DEF Round, Frozen, Alive, Finished, Panics, Guarded
    <3> QED BY <1>0, <3>2, ControlPhases DEF TypeOK, Round, Gathering, Leaving
  <2> QED BY <2>1, <2>2
<1>3. Over'
  BY <1>1, <1>2 DEF Over
<1>4. \A v \in flags' : server'[v] \notin {"none", "start"}
  BY <1>0, <1>1 DEF TypeOK
<1> QED BY <1>0, <1>1, <1>3, <1>4 DEF CtlInv

(* Every step keeps the phases.                                            *)
LEMMA CtlStep ==
  ASSUME GateInv, Next
  PROVE  CtlInv'
<1>1. ASSUME NEW t \in Threads, ThreadStep(t) PROVE CtlInv'
  BY <1>1, ClientKeepsCtl, ServerKeepsCtl, RegisterKeepsCtl, EnterKeepsCtl,
     DumpKeepsCtl, FinishKeepsCtl, LaunchKeepsCtl, ControlKeepsCtl DEF ThreadStep
<1>2. ASSUME NEW t \in Threads, ThreadExit(t) PROVE CtlInv'
  BY <1>2, ServerKeepsCtl, EndKeepsCtl
<1>3. CASE ControlStep
  BY <1>3, RequestKeepsCtl, ControlKeepsCtl DEF ControlStep
<1> QED BY <1>1, <1>2, <1>3, NextCases, DumpKeepsCtl, EndKeepsCtl

-----------------------------------------------------------------------------
(* The theorems                                                            *)

(* The invariant holds initially.                                          *)
LEMMA InitialGate == Init => GateInv
<1> SUFFICES ASSUME Init PROVE GateInv
  OBVIOUS
<1>1. TypeOK
  BY ConstantTypes, FS_EmptySet DEF Init, TypeOK, Finished, Receiving, Guarded
<1>2. ASSUME NEW t \in Threads PROVE ThreadInv(t)
  <2>1. /\ flag[t] = {} /\ ctos[t] = <<>> /\ stoc[t] = <<>> /\ client[t] = "none"
        /\ server[t] = "none" /\ attached[t] = FALSE
        /\ issued[t] = 0 /\ executed[t] = 0
    BY DEF Init
  <2>2. Sent(t) = 0 /\ Got(t) = 0 /\ SyncStart(t) = -1
    BY <2>1, KPositive DEF Sent, Got, SyncStart
  <2>3. Stream(<<>>, 0, 0, -1, Left(t))
    BY DEF Stream
  <2> QED BY <2>1, <2>2, <2>3 DEF ThreadInv, CallInv, CountInv, LockInv, SnapInv,
          Parked, HoldsSnapshot, InACall, Serving
<1>3. CtlInv
  BY DEF Init, CtlInv, Idle, Alive, Open, Finished, Receiving
<1> QED BY <1>1, <1>2, <1>3 DEF GateInv

(* The inductive invariant holds of every behaviour of client, server      *)
(* threads and control task.                                               *)
THEOREM GateInvariant == Spec => []GateInv
<1>1. GateInv /\ [Next]_vars => GateInv'
  <2> SUFFICES ASSUME GateInv, [Next]_vars PROVE GateInv'
    OBVIOUS
  <2>1. TypeOK'
    BY TypeStep
  <2>2. CASE Next
    BY <2>1, <2>2, ThreadsStep, CtlStep DEF GateInv
  <2>3. CASE UNCHANGED vars
    <3> USE DEF vars, clientVars, serverVars, attachVars, managerVars, barrierVars,
                ctlVars, chanVars
    <3>1. ASSUME NEW t \in Threads PROVE ThreadInv(t)'
      BY <2>3, <3>1, UntouchedKeeps DEF GateInv, Untouched, ThreadInv
    <3>2. CtlInv'
      BY <2>3 DEF GateInv, CtlInv, Idle, Over, Round, Gathering, Frozen, Leaving,
         Open, Alive, Here
    <3> QED BY <2>1, <3>1, <3>2 DEF GateInv
  <2> QED BY <2>2, <2>3
<1> QED BY InitialGate, <1>1, PTL DEF Spec

(* Every variable keeps its type: in particular what RecvRequest takes for *)
(* a proc_id never is an argument, and the barrier opens at most twice.    *)
THEOREM GateTypes == Spec => []TypeOK
<1>1. GateInv => TypeOK
  BY DEF GateInv
<1> QED BY GateInvariant, <1>1, PTL

(* Whenever the control task or a thread writes a part of an image, every  *)
(* client of the checkpoint is stopped between two calls, with empty rings *)
(* and all its calls executed.                                             *)
THEOREM DumpIsQuiescent == Spec => []QuiescentDump
<1>1. GateInv => QuiescentDump
  <2> SUFFICES ASSUME GateInv, Dumping PROVE \A t \in parties : Quiet(t)
    BY DEF QuiescentDump
  <2>1. parties \subseteq Threads
    BY DEF GateInv, TypeOK
  <2>2. Frozen
    BY <2>1, Phases, ControlPhases DEF Dumping
  <2>3. \A t \in parties : Parked(t)
    BY <2>2 DEF Frozen, Guarded, Parked
  <2> QED BY <2>1, <2>3 DEF GateInv, ThreadInv, LockInv
<1> QED BY GateInvariant, <1>1, PTL

(* Between checkpoints no running thread has its client locked out.        *)
THEOREM LocksAreCleared == Spec => []NoStrayLock
<1>1. GateInv => NoStrayLock
  BY DEF GateInv, CtlInv, Idle, Open, NoStrayLock
<1> QED BY GateInvariant, <1>1, PTL

(* The snapshot of a detached client whose process lives is whole until    *)
(* begin_attach has read it.                                               *)
THEOREM SnapshotSurvives == Spec => []SnapshotKept
<1>1. GateInv => SnapshotKept
  BY DEF GateInv, ThreadInv, SnapInv, HoldsSnapshot, SnapshotKept
<1> QED BY GateInvariant, <1>1, PTL

-----------------------------------------------------------------------------
(* Refinement of StopTheWorld                                              *)

FrozenThreads == IF gen = 1 THEN parties ELSE {}

(* A thread of a frozen world neither makes nor executes a call.           *)
LEMMA FrozenIsParked ==
  ASSUME GateInv, NEW t \in FrozenThreads
  PROVE  t \in Threads /\ Parked(t) /\ Quiet(t)
<1>1. gen = 1 /\ t \in parties /\ t \in Threads
  BY DEF FrozenThreads, GateInv, TypeOK
<1>2. Frozen
  <2>1. ctl \in {"flags", "wait1", "dump", "wait2"} /\ Round
    <3>1. ctl \in {"idle", "flags", "wait1", "dump", "wait2", "panicked", "gone"}
      BY DEF GateInv, TypeOK
    <3> QED BY <1>1, <3>1, ControlPhases
  <2> QED BY <1>1, <2>1 DEF Round, Gathering, Leaving
<1>3. Parked(t)
  BY <1>1, <1>2 DEF Frozen, Guarded, Parked
<1> QED BY <1>1, <1>3 DEF GateInv, ThreadInv, LockInv

(* The barrier opens from a world in which nothing is frozen, or thaws it. *)
LEMMA ArrivalFreezes ==
  ASSUME GateInv, GateInv', NEW p, Arrive(p), parties' = parties, parties # {},
         gen \in {0, 1}, issued' = issued, executed' = executed
  PROVE  World!WorldNext \/ UNCHANGED World!worldVars
<1>1. gen' = gen \/ gen' = gen + 1
  BY DEF Arrive
<1>2. CASE gen' = gen
  BY <1>2 DEF World!worldVars
<1>3. CASE gen = 0 /\ gen' = 1
  <2>1. parties \in SUBSET Threads
    BY DEF GateInv, TypeOK
  <2>2. \A t \in parties : issued[t] = executed[t]
    <3>1. \A t \in parties : Quiet(t)'
      <4>1. Frozen'
        <5>1. ctl' \in {"flags", "wait1", "dump", "wait2"} => Round'
          BY DEF GateInv, CtlInv
        <5>2. ctl' \notin {"idle", "gone", "panicked"}
          BY <1>3 DEF GateInv, CtlInv, Idle, Over
        <5>3. Round'
          BY <5>1, <5>2 DEF GateInv, TypeOK
        <5> QED BY <1>3, <5>3 DEF Round, Gathering, Leaving
      <4>2. \A t \in parties : Parked(t)'
        BY <4>1 DEF Frozen, Guarded, Parked
      <4> QED BY <2>1, <4>2 DEF GateInv, ThreadInv, LockInv
    <3> QED BY <3>1 DEF Quiet
  <2>3. World!Freeze(parties)
    BY <1>3, <2>2 DEF World!Freeze
  <2> QED BY <2>1, <2>3 DEF World!WorldNext
<1>4. CASE gen = 1 /\ gen' = 2
  <2>1. World!Thaw
    BY <1>4 DEF World!Thaw
  <2> QED BY <2>1 DEF World!WorldNext
<1> QED BY <1>1, <1>2, <1>3, <1>4

(* Every step is one of StopTheWorld, or none.                             *)
LEMMA WorldStep ==
  ASSUME GateInv, GateInv', [Next]_vars
  PROVE  [World!WorldNext]_World!worldVars
<1> USE DEF clientVars, serverVars, attachVars, managerVars, barrierVars,
            ctlVars, chanVars
<1>0. TypeOK
  BY DEF GateInv
<1> SUFFICES World!WorldNext \/ UNCHANGED World!worldVars
  OBVIOUS
<1>1. ASSUME NEW t \in Threads, SendChunk(t)
      PROVE  World!WorldNext \/ UNCHANGED World!worldVars
  <2>1. UNCHANGED <<executed, parties, gen>> /\ client[t] = "send"
    BY <1>1 DEF SendChunk, ClientStep
  <2>2. CASE toSend[t] # 1
    <3>1. issued' = issued
      BY <1>0, <1>1, <2>2 DEF SendChunk, TypeOK
    <3> QED BY <2>1, <3>1 DEF World!worldVars
  <2>3. CASE toSend[t] = 1
    <3>1. t \notin FrozenThreads
      BY <2>1, FrozenIsParked DEF Quiet
    <3>2. issued' = [issued EXCEPT ![t] = @ + 1]
      BY <1>1, <2>3 DEF SendChunk
    <3>3. World!Issue(t)
      BY <2>1, <3>1, <3>2 DEF World!Issue, FrozenThreads
    <3> QED BY <3>3 DEF World!WorldNext
  <2> QED BY <2>2, <2>3
<1>2. ASSUME NEW t \in Threads, Execute(t)
      PROVE  World!WorldNext \/ UNCHANGED World!worldVars
  <2>1. /\ UNCHANGED <<issued, parties, gen>> /\ server[t] = "exec"
        /\ executed' = [executed EXCEPT ![t] = @ + 1]
    BY <1>2 DEF Execute, ServerStep
  <2>2. t \notin FrozenThreads
    BY <2>1, FrozenIsParked DEF Parked
  <2>3. executed[t] < issued[t]
    BY <2>1, ExecutedBehind
  <2>4. World!Carry(t)
    BY <2>1, <2>2, <2>3 DEF World!Carry, FrozenThreads
  <2> QED BY <2>4 DEF World!WorldNext
<1>3. ASSUME NEW t \in Threads, EnterCheckpoint(t) \/ DumpToDisk(t) \/ DumpToRings(t)
      PROVE  World!WorldNext \/ UNCHANGED World!worldVars
  <2>1. /\ server[t] \in {"ckpt", "dump"} /\ Arrive(t)
        /\ UNCHANGED <<issued, executed, parties>>
    BY <1>3 DEF EnterCheckpoint, DumpToDisk, DumpToRings, ServerStep
  <2>2. parties # {} /\ gen \in {0, 1}
    BY <2>1, Phases DEF Round, Gathering, Frozen
  <2> QED BY <2>1, <2>2, ArrivalFreezes
<1>4. CASE FlagsSet \/ ProcessStateDumped
  <2>1. /\ ctl \in {"flags", "dump"} /\ Arrive(Control)
        /\ UNCHANGED <<issued, executed, parties>>
    BY <1>4 DEF FlagsSet, ProcessStateDumped
  <2>2. parties # {} /\ gen \in {0, 1}
    BY <2>1, ControlPhases DEF Round, Gathering, Frozen
  <2> QED BY <2>1, <2>2, ArrivalFreezes
<1>5. CASE RequestCheckpoint
  <2>1. /\ ctl = "idle" /\ gen' = 0 /\ UNCHANGED <<issued, executed>>
    BY <1>5 DEF RequestCheckpoint
  <2>2. gen # 1
    BY <2>1, ControlPhases
  <2> QED BY <2>1, <2>2 DEF World!worldVars
<1>6. ASSUME NEW t \in Threads,
             \/ StartCall(t) \/ ClientExit(t) \/ BeforeCall(t) \/ RecvResult(t)
             \/ AfterCall(t) \/ RegisterFlag(t) \/ RecvRequest(t) \/ RecvEmpty(t)
             \/ CheckFlag(t) \/ RecvSecond(t) \/ RecvArg(t) \/ PassBarrier(t)
             \/ DumpToRingsFails(t) \/ FinishCheckpoint(t) \/ BeginAttach(t)
             \/ CopyHandles(t) \/ RestoreEof(t) \/ CreateThread(t) \/ Attach(t)
             \/ SetFlag(t) \/ ThreadExit(t)
      PROVE  UNCHANGED <<issued, executed, parties, gen>>
  BY <1>6 DEF StartCall, ClientExit, BeforeCall, RecvResult, AfterCall, RegisterFlag,
     RecvRequest, RecvEmpty, CheckFlag, RecvSecond, RecvArg, PassBarrier,
     DumpToRingsFails, FinishCheckpoint, BeginAttach, CopyHandles, RestoreEof,
     CreateThread, Attach, SetFlag, ThreadExit
<1>7. CASE FlagsMissing \/ DumpProcessState \/ CheckpointDone \/ UNCHANGED vars
  BY <1>7 DEF FlagsMissing, DumpProcessState, CheckpointDone, vars, World!worldVars
<1>8. UNCHANGED <<issued, executed, parties, gen>> => UNCHANGED World!worldVars
  BY DEF World!worldVars
<1> QED BY <1>1, <1>2, <1>3, <1>4, <1>5, <1>6, <1>7, <1>8, NextCases
        DEF ThreadStep, ControlStep

(* A checkpoint stops the world: the two openings of the barrier freeze    *)
(* and thaw all threads of the process, each with all its calls executed.  *)
THEOREM CheckpointStopsTheWorld == Spec => RefinesStopTheWorld
<1>1. Init => World!WorldInit
  BY DEF Init, World!WorldInit
<1>2. GateInv /\ GateInv' /\ [Next]_vars => [World!WorldNext]_World!worldVars
  BY WorldStep
<1> QED BY GateInvariant, <1>1, <1>2, PTL DEF Spec, RefinesStopTheWorld, World!WorldSpec

============================================================================

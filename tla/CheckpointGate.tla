--------------------------- MODULE CheckpointGate ---------------------------
(***************************************************************************)
(* How a PhOS worker process stops its clients for a checkpoint.           *)
(*                                                                         *)
(* Three kinds of actors share the flag word of every client-to-server     *)
(* ring: the client (client/src/phos.rs and the generated API stubs), the  *)
(* worker's server thread (server/src/worker.rs), and the worker's control *)
(* task (server/src/phos/mod.rs), which serves one request of the daemon   *)
(* at a time.  The flag word is the set of its bits.                       *)
(*                                                                         *)
(* A request is a proc_id chunk followed by NArgs argument chunks, a chunk *)
(* being what one put_bytes publishes; its bytes are abstracted (see       *)
(* RingBuffer).  Every thread has its own client and pair of rings.        *)
(***************************************************************************)
EXTENDS Integers, Sequences, FiniteSets

CONSTANTS Threads,        \* server threads of the worker process
          Main,           \* the one spawned first
          Modes,          \* checkpoint modes the daemon asks for
          Kinds,          \* kinds of API calls clients make: "sync", "async"
          ClientsExit,    \* may client processes exit
          NArgs,          \* argument chunks of a request
          MaxCalls,       \* bound: calls per client
          MaxCkpts        \* bound: checkpoints per behaviour

Control == "control"     \* the control task, as a party of the barrier

ASSUME GateAssumption ==
  /\ IsFiniteSet(Threads) /\ Main \in Threads /\ Control \notin Threads
  /\ Modes \subseteq {"Kill", "LeaveRunning", "Detach"}
  /\ Kinds \subseteq {"sync", "async"}
  /\ ClientsExit \in BOOLEAN
  /\ NArgs \in Nat /\ MaxCalls \in Nat /\ MaxCkpts \in Nat
  \* the daemon detaches a client only if it has exactly one thread
  /\ "Detach" \in Modes => Threads = {Main}

IN_USE == "IN_USE"
WRITE_DISABLED == "WRITE_DISABLED"

VARIABLES
  flag, ctos, stoc,      \* the shared memory of every channel
  snap,                  \* the snapshot in the rings' buffers after a detach
  client, kind, toSend,  \* where each client is; its call; chunks to send
  server, toRecv, call,  \* where each server thread is; its current request
  attached,              \* was the thread launched by attach
  replayed,              \* what the last attach found where the handles were
  ctl, mode,             \* the control task and the mode of its REQUEST
  threads, flags,        \* FlagManager: join handles, registered flags
  toLock,                \* flags request_checkpoint has still to set
  parties, arrived, gen, \* BARRIER: members, arrivals, generation
  ckpts, issued, executed

clientVars == <<client, kind, toSend, issued>>
serverVars == <<server, toRecv, call, executed>>
attachVars == <<snap, attached, replayed>>
managerVars == <<threads, flags, toLock>>
barrierVars == <<parties, arrived, gen>>
ctlVars == <<ctl, mode, ckpts>>
chanVars == <<flag, ctos, stoc>>
vars == <<clientVars, serverVars, attachVars, managerVars, barrierVars,
          ctlVars, chanVars>>

Panics == {"panic_async", "panic_arg", "panic_buffer", "panic_replay"}
Finished == Panics \cup {"none", "finished", "stopped", "detached"}
Receiving == {"recv", "recvFlag", "recv2", "recv2Flag", "args", "argsFlag", "exec"}
\* holds the read guards of REQUEST and BARRIER
Guarded == {"wait1", "dump", "wait2"}

(* Mutant: a client inside a call does not matter.                         *)
Locked_IgnoresInUse(t) == WRITE_DISABLED \in flag[t]

Locked(t) == flag[t] = {WRITE_DISABLED}

-----------------------------------------------------------------------------
Init ==
  /\ flag = [t \in Threads |-> {}]
  /\ ctos = [t \in Threads |-> <<>>] /\ stoc = [t \in Threads |-> <<>>]
  /\ snap = [t \in Threads |-> "none"]
  /\ client = [t \in Threads |-> "none"]
  /\ kind = [t \in Threads |-> "sync"]
  /\ toSend = [t \in Threads |-> 0]
  /\ server = [t \in Threads |-> "none"]
  /\ toRecv = [t \in Threads |-> 0] /\ call = [t \in Threads |-> "sync"]
  /\ attached = [t \in Threads |-> FALSE]
  /\ replayed = [t \in Threads |-> "none"]
  /\ ctl = "idle" /\ mode = "Kill" /\ ckpts = 0
  /\ threads = {} /\ flags = {} /\ toLock = {}
  /\ parties = {} /\ arrived = {} /\ gen = 0
  /\ issued = [t \in Threads |-> 0] /\ executed = [t \in Threads |-> 0]

-----------------------------------------------------------------------------
(* The client: one intercepted API call, and the end of the process        *)

ClientStep(t, from, to) ==
  /\ client[t] = from
  /\ client' = [client EXCEPT ![t] = to]

StartCall(t) ==
  /\ issued[t] < MaxCalls
  /\ ClientStep(t, "idle", "before")
  /\ kind' \in {[kind EXCEPT ![t] = k] : k \in Kinds}
  /\ UNCHANGED <<toSend, issued, serverVars, attachVars, managerVars,
                 barrierVars, ctlVars, chanVars>>

(* Mutant: the bit is set without a look at WRITE_DISABLED.                *)
BeforeCall_IgnoresLock(t) ==
  /\ ClientStep(t, "before", "send")
  /\ flag' = [flag EXCEPT ![t] = @ \cup {IN_USE}]
  /\ toSend' = [toSend EXCEPT ![t] = NArgs + 1]
  /\ UNCHANGED <<kind, issued, serverVars, attachVars, managerVars,
                 barrierVars, ctlVars, ctos, stoc>>

(* set_client_flag_blocking: the compare-and-swap from IDLE to IN_USE.     *)
BeforeCall(t) ==
  /\ ClientStep(t, "before", "send")
  /\ flag[t] = {}
  /\ flag' = [flag EXCEPT ![t] = {IN_USE}]
  /\ toSend' = [toSend EXCEPT ![t] = NArgs + 1]
  /\ UNCHANGED <<kind, issued, serverVars, attachVars, managerVars,
                 barrierVars, ctlVars, ctos, stoc>>

(* A write into the ring may land on the snapshot that a detach left in    *)
(* its buffer.                                                             *)
Overwrite(t) ==
  snap' \in IF snap[t] = "valid"
            THEN {snap, [snap EXCEPT ![t] = "torn"]}
            ELSE {snap}

(* One send of the stub; a call with results goes on to wait for them.     *)
SendChunk(t) ==
  LET chunk == IF toSend[t] = NArgs + 1 THEN kind[t] ELSE "arg"
      last  == toSend[t] = 1
      after == IF kind[t] = "sync" THEN "wait" ELSE "after"
  IN  /\ ClientStep(t, "send", IF last THEN after ELSE "send")
      /\ ctos' = [ctos EXCEPT ![t] = Append(@, chunk)]
      /\ toSend' = [toSend EXCEPT ![t] = @ - 1]
      /\ issued' = [issued EXCEPT ![t] = IF last THEN @ + 1 ELSE @]
      /\ Overwrite(t)
      /\ UNCHANGED <<kind, serverVars, attached, replayed, managerVars,
                     barrierVars, ctlVars, flag, stoc>>

RecvResult(t) ==
  /\ ClientStep(t, "wait", "after")
  /\ stoc[t] # <<>>
  /\ stoc' = [stoc EXCEPT ![t] = Tail(@)]
  /\ UNCHANGED <<kind, toSend, issued, serverVars, attachVars, managerVars,
                 barrierVars, ctlVars, flag, ctos>>

(* Mutant: the bit is not cleared.                                         *)
AfterCall_KeepsInUse(t) ==
  /\ ClientStep(t, "after", "idle")
  /\ UNCHANGED <<kind, toSend, issued, serverVars, attachVars, managerVars,
                 barrierVars, ctlVars, chanVars>>

(* clear_client_flag                                                       *)
AfterCall(t) ==
  /\ ClientStep(t, "after", "idle")
  /\ flag' = [flag EXCEPT ![t] = @ \ {IN_USE}]
  /\ UNCHANGED <<kind, toSend, issued, serverVars, attachVars, managerVars,
                 barrierVars, ctlVars, ctos, stoc>>

(* ClientThread::drop, at exit: sends proc_id -1 and does not look at the  *)
(* flag.                                                                   *)
ClientExit(t) ==
  /\ ClientsExit
  /\ ClientStep(t, "idle", "gone")
  /\ ctos' = [ctos EXCEPT ![t] = Append(@, "exit")]
  /\ Overwrite(t)
  /\ UNCHANGED <<kind, toSend, issued, serverVars, attached, replayed,
                 managerVars, barrierVars, ctlVars, flag, stoc>>

-----------------------------------------------------------------------------
(* The server thread: launch_server and its receive loop                   *)

ServerStep(t, from, to) ==
  /\ server[t] = from
  /\ server' = [server EXCEPT ![t] = to]

(* register_flag, under the MANAGER lock that request_checkpoint holds     *)
(* while it sets the flags.                                                *)
RegisterFlag(t) ==
  /\ ctl # "flags"
  /\ ServerStep(t, "start", IF attached[t] THEN "attach" ELSE "recv")
  /\ flags' = flags \cup {t}
  /\ UNCHANGED <<toRecv, call, executed, clientVars, attachVars, threads,
                 toLock, barrierVars, ctlVars, chanVars>>

(* receive_request finds a proc_id: -1 ends the loop, anything else is     *)
(* dispatched.                                                             *)
RecvRequest(t) ==
  /\ ctos[t] # <<>>
  /\ ServerStep(t, "recv",
       CASE Head(ctos[t]) = "exit" -> "exiting"
         [] Head(ctos[t]) # "exit" /\ NArgs = 0 -> "exec"
         [] OTHER -> "args")
  /\ ctos' = [ctos EXCEPT ![t] = Tail(@)]
  /\ toRecv' = [toRecv EXCEPT ![t] = NArgs]
  /\ call' = [call EXCEPT ![t] = Head(ctos[t])]
  /\ UNCHANGED <<executed, clientVars, attachVars, managerVars, barrierVars,
                 ctlVars, flag, stoc>>

(* try_get_bytes found nothing; the flag is read in a later step.          *)
RecvEmpty(t) ==
  /\ ctos[t] = <<>>
  /\ \/ ServerStep(t, "recv", "recvFlag")
     \/ ServerStep(t, "recv2", "recv2Flag")
     \/ ServerStep(t, "args", "argsFlag")
  /\ UNCHANGED <<toRecv, call, executed, clientVars, attachVars, managerVars,
                 barrierVars, ctlVars, chanVars>>

(* The flag test of get_bytes.  ShmChannelLocked leads from the first      *)
(* receive to the second and from the second to the checkpoint; in the     *)
(* middle of a request it is a panic.                                      *)
CheckFlag(t) ==
  /\ \/ ServerStep(t, "recvFlag", IF Locked(t) THEN "recv2" ELSE "recv")
     \/ ServerStep(t, "recv2Flag", IF Locked(t) THEN "ckpt" ELSE "recv2")
     \/ ServerStep(t, "argsFlag", IF Locked(t) THEN "panic_arg" ELSE "args")
  /\ UNCHANGED <<toRecv, call, executed, clientVars, attachVars, managerVars,
                 barrierVars, ctlVars, chanVars>>

(* The second receive succeeds: assertion "remaining async requests".      *)
RecvSecond(t) ==
  /\ ctos[t] # <<>>
  /\ ServerStep(t, "recv2", "panic_async")
  /\ ctos' = [ctos EXCEPT ![t] = Tail(@)]
  /\ UNCHANGED <<toRecv, call, executed, clientVars, attachVars, managerVars,
                 barrierVars, ctlVars, flag, stoc>>

RecvArg(t) ==
  /\ ctos[t] # <<>>
  /\ ServerStep(t, "args", IF toRecv[t] = 1 THEN "exec" ELSE "args")
  /\ ctos' = [ctos EXCEPT ![t] = Tail(@)]
  /\ toRecv' = [toRecv EXCEPT ![t] = @ - 1]
  /\ UNCHANGED <<call, executed, clientVars, attachVars, managerVars,
                 barrierVars, ctlVars, flag, stoc>>

(* The rest of the handler: run the call, send the results if it has any.  *)
Execute(t) ==
  /\ ServerStep(t, "exec", "recv")
  /\ executed' = [executed EXCEPT ![t] = @ + 1]
  /\ stoc' = IF call[t] = "sync" THEN [stoc EXCEPT ![t] = Append(@, "result")]
                                 ELSE stoc
  /\ UNCHANGED <<toRecv, call, clientVars, attachVars, managerVars,
                 barrierVars, ctlVars, flag, ctos>>

(* The thread ends; if it is the main one, the process ends after 3 s.     *)
ThreadExit(t) ==
  /\ server[t] = "exiting"
  /\ server' = IF t = Main THEN [u \in Threads |-> "finished"]
                           ELSE [server EXCEPT ![t] = "finished"]
  /\ ctl' = IF t = Main THEN "gone" ELSE ctl
  /\ UNCHANGED <<toRecv, call, executed, clientVars, attachVars, managerVars,
                 barrierVars, mode, ckpts, chanVars>>

-----------------------------------------------------------------------------
(* checkpoint_thread                                                       *)

(* Mutant: a barrier for the threads only.                                 *)
Arrive_WithoutControl(p) ==
  LET all == arrived \cup {p}
  IN  IF Cardinality(all) = Cardinality(parties)
      THEN arrived' = {} /\ gen' = gen + 1
      ELSE arrived' = all /\ gen' = gen

(* Barrier::wait, arrival: the last of the parties opens the barrier for   *)
(* this generation.                                                        *)
Arrive(p) ==
  LET all == arrived \cup {p}
  IN  IF Cardinality(all) = Cardinality(parties) + 1
      THEN arrived' = {} /\ gen' = gen + 1
      ELSE arrived' = all /\ gen' = gen

EnterCheckpoint(t) ==
  /\ ServerStep(t, "ckpt", "wait1")
  /\ Arrive(t)
  /\ UNCHANGED <<toRecv, call, executed, clientVars, attachVars, managerVars,
                 parties, ctlVars, chanVars>>

PassBarrier(t) ==
  /\ gen >= 1
  /\ ServerStep(t, "wait1", "dump")
  /\ UNCHANGED <<toRecv, call, executed, clientVars, attachVars, managerVars,
                 barrierVars, ctlVars, chanVars>>

(* The main thread runs criu on the client process, in both modes without  *)
(* --leave-running and without a look at its exit status; every thread     *)
(* saves its handles.                                                      *)
DumpToDisk(t) ==
  /\ mode \in {"Kill", "LeaveRunning"}
  /\ ServerStep(t, "dump", "wait2")
  /\ client' \in IF t = Main
                 THEN {client, [u \in Threads |-> "killed"]}
                 ELSE {client}
  /\ Arrive(t)
  /\ UNCHANGED <<toRecv, call, executed, kind, toSend, issued, attachVars,
                 managerVars, parties, ctlVars, chanVars>>

(* dump_state: as_buffer asserts that both rings are empty and the         *)
(* snapshot is written over them.                                          *)
DumpToRings(t) ==
  /\ mode = "Detach"
  /\ ctos[t] = <<>> /\ stoc[t] = <<>>
  /\ ServerStep(t, "dump", "wait2")
  /\ snap' = [snap EXCEPT ![t] = "valid"]
  /\ Arrive(t)
  /\ UNCHANGED <<toRecv, call, executed, clientVars, attached, replayed,
                 managerVars, parties, ctlVars, chanVars>>

DumpToRingsFails(t) ==
  /\ mode = "Detach"
  /\ ctos[t] # <<>> \/ stoc[t] # <<>>
  /\ ServerStep(t, "dump", "panic_buffer")
  /\ UNCHANGED <<toRecv, call, executed, clientVars, attachVars, managerVars,
                 barrierVars, ctlVars, chanVars>>

(* Mutants: the flag is not cleared; it is cleared for a detached client.  *)
FinishCheckpoint_KeepsFlag(t) ==
  /\ gen = 2
  /\ ServerStep(t, "wait2", IF mode = "LeaveRunning" THEN "recv" ELSE "stopped")
  /\ UNCHANGED <<toRecv, call, executed, clientVars, attachVars, managerVars,
                 barrierVars, ctlVars, chanVars>>

FinishCheckpoint_AlwaysClears(t) ==
  /\ gen = 2
  /\ ServerStep(t, "wait2", IF mode = "LeaveRunning" THEN "recv" ELSE "detached")
  /\ flag' = [flag EXCEPT ![t] = @ \ {WRITE_DISABLED}]
  /\ UNCHANGED <<toRecv, call, executed, clientVars, attachVars, managerVars,
                 barrierVars, ctlVars, ctos, stoc>>

(* After the second wait: clear_flag, unless the client is detached, and   *)
(* out of the loop, unless it is left running.                             *)
FinishCheckpoint(t) ==
  /\ gen = 2
  /\ ServerStep(t, "wait2", CASE mode = "Kill"         -> "stopped"
                              [] mode = "LeaveRunning" -> "recv"
                              [] mode = "Detach"       -> "detached")
  /\ flag' = IF mode = "Detach" THEN flag
                                ELSE [flag EXCEPT ![t] = @ \ {WRITE_DISABLED}]
  /\ UNCHANGED <<toRecv, call, executed, clientVars, attachVars, managerVars,
                 barrierVars, ctlVars, ctos, stoc>>

-----------------------------------------------------------------------------
(* begin_attach and the replay of the handles                              *)

(* read_snapshot, the restore of kernels and memory, and clear_flag.       *)
BeginAttach(t) ==
  /\ ServerStep(t, "attach",
       IF ctos[t] = <<>> /\ stoc[t] = <<>> /\ snap[t] = "valid"
       THEN "handles" ELSE "panic_buffer")
  /\ flag' = IF server'[t] = "handles"
             THEN [flag EXCEPT ![t] = @ \ {WRITE_DISABLED}] ELSE flag
  /\ UNCHANGED <<toRecv, call, executed, clientVars, attachVars, managerVars,
                 barrierVars, ctlVars, ctos, stoc>>

(* Only now are the saved handles copied out of the ring's buffer.         *)
CopyHandles(t) ==
  /\ server[t] = "handles"
  /\ replayed' = [replayed EXCEPT ![t] = snap[t]]
  /\ \/ ServerStep(t, "handles", "replay")
     \/ snap[t] = "torn" /\ ServerStep(t, "handles", "panic_replay")
  /\ UNCHANGED <<toRecv, call, executed, clientVars, snap, attached,
                 managerVars, barrierVars, ctlVars, chanVars>>

(* RestoreEof: back to the real channel; on_restore_finished clears the    *)
(* flag if it finds it set.                                                *)
RestoreEof(t) ==
  /\ ServerStep(t, "replay", "recv")
  /\ flag' = [flag EXCEPT ![t] = @ \ {WRITE_DISABLED}]
  /\ snap' = [snap EXCEPT ![t] = "none"]
  /\ UNCHANGED <<toRecv, call, executed, clientVars, attached, replayed,
                 managerVars, barrierVars, ctlVars, ctos, stoc>>

-----------------------------------------------------------------------------
(* The control task                                                        *)

(* create_thread; the client starts once it has the reply.                 *)
CreateThread(t) ==
  /\ ctl = "idle"
  /\ t # Main => server[Main] # "none"
  /\ client[t] = "none"
  /\ ServerStep(t, "none", "start")
  /\ client' = [client EXCEPT ![t] = "idle"]
  /\ threads' = threads \cup {t}
  /\ UNCHANGED <<toRecv, call, executed, kind, toSend, issued, attachVars,
                 flags, toLock, barrierVars, ctlVars, chanVars>>

(* attach, in a worker process of its own: a new FlagManager.              *)
Attach(t) ==
  /\ ctl = "idle"
  /\ ServerStep(t, "detached", "start")
  /\ attached' = [attached EXCEPT ![t] = TRUE]
  /\ threads' = {t} /\ flags' = {}
  /\ UNCHANGED <<toRecv, call, executed, clientVars, snap, replayed, toLock,
                 barrierVars, ctlVars, chanVars>>

(* request_checkpoint up to the flags: REQUEST, the threads that are not   *)
(* finished, and a barrier for them and the control task.                  *)
RequestCheckpoint ==
  LET ids == {t \in threads : server[t] \notin Finished}
  IN  /\ ctl = "idle" /\ ckpts < MaxCkpts
      /\ ids # {}
      /\ mode' \in Modes
      /\ ctl' = "flags" /\ ckpts' = ckpts + 1
      /\ threads' = ids /\ flags' = flags \cap ids /\ toLock' = flags \cap ids
      /\ parties' = ids /\ arrived' = {} /\ gen' = 0
      /\ UNCHANGED <<clientVars, serverVars, attachVars, chanVars>>

SetFlag(t) ==
  /\ ctl = "flags" /\ t \in toLock
  /\ flag' = [flag EXCEPT ![t] = @ \cup {WRITE_DISABLED}]
  /\ toLock' = toLock \ {t}
  /\ UNCHANGED <<clientVars, serverVars, attachVars, threads, flags,
                 barrierVars, ctlVars, ctos, stoc>>

(* Mutant: the flags that have been set are not counted.                   *)
FlagsSet_Uncounted ==
  /\ ctl = "flags" /\ toLock = {}
  /\ ctl' = "wait1"
  /\ Arrive(Control)
  /\ UNCHANGED <<clientVars, serverVars, attachVars, managerVars, parties,
                 mode, ckpts, chanVars>>

(* assert_eq!(count, ids.len()), then the first wait of                    *)
(* block_and_dump_process_state.                                           *)
FlagsSet ==
  /\ ctl = "flags" /\ toLock = {} /\ flags = parties
  /\ ctl' = "wait1"
  /\ Arrive(Control)
  /\ UNCHANGED <<clientVars, serverVars, attachVars, managerVars, parties,
                 mode, ckpts, chanVars>>

(* The assertion fails: the control task is the main thread of the worker  *)
(* process, so its panic ends the process.                                 *)
FlagsMissing ==
  /\ ctl = "flags" /\ toLock = {} /\ flags # parties
  /\ ctl' = "panicked"
  /\ server' = [t \in Threads |-> "finished"]
  /\ UNCHANGED <<clientVars, toRecv, call, executed, attachVars, managerVars,
                 barrierVars, mode, ckpts, chanVars>>

DumpProcessState ==
  /\ ctl = "wait1" /\ gen >= 1
  /\ ctl' = "dump"
  /\ UNCHANGED <<clientVars, serverVars, attachVars, managerVars,
                 barrierVars, mode, ckpts, chanVars>>

ProcessStateDumped ==
  /\ ctl = "dump"
  /\ ctl' = "wait2"
  /\ Arrive(Control)
  /\ UNCHANGED <<clientVars, serverVars, attachVars, managerVars, parties,
                 mode, ckpts, chanVars>>

(* BARRIER and REQUEST become None once no thread holds their guards.      *)
CheckpointDone ==
  /\ ctl = "wait2" /\ gen = 2
  /\ \A t \in Threads : server[t] \notin Guarded
  /\ ctl' = "idle"
  /\ UNCHANGED <<clientVars, serverVars, attachVars, managerVars,
                 barrierVars, mode, ckpts, chanVars>>

-----------------------------------------------------------------------------
(* What a client does once it is inside a call, or wants to be.            *)
InCall(t) == BeforeCall(t) \/ SendChunk(t) \/ RecvResult(t) \/ AfterCall(t)

ReceiveLoop(t) ==
  \/ RegisterFlag(t) \/ RecvRequest(t) \/ RecvEmpty(t) \/ CheckFlag(t)
  \/ RecvSecond(t) \/ RecvArg(t) \/ Execute(t) \/ ThreadExit(t)

CheckpointThread(t) ==
  \/ EnterCheckpoint(t) \/ PassBarrier(t) \/ DumpToDisk(t) \/ DumpToRings(t)
  \/ DumpToRingsFails(t) \/ FinishCheckpoint(t)

AttachThread(t) == BeginAttach(t) \/ CopyHandles(t) \/ RestoreEof(t)

CheckpointProcess ==
  \/ \E t \in Threads : SetFlag(t)
  \/ FlagsSet \/ FlagsMissing
  \/ DumpProcessState \/ ProcessStateDumped \/ CheckpointDone

Next ==
  \/ \E t \in Threads :
       \/ StartCall(t) \/ ClientExit(t) \/ InCall(t)
       \/ ReceiveLoop(t) \/ CheckpointThread(t) \/ AttachThread(t)
       \/ CreateThread(t) \/ Attach(t)
  \/ RequestCheckpoint
  \/ CheckpointProcess

Spec == Init /\ [][Next]_vars

(* Running threads and processes are scheduled; new calls, exits and       *)
(* requests of the daemon need never come.                                 *)
Fairness ==
  /\ \A t \in Threads : /\ WF_vars(InCall(t))
                        /\ WF_vars(ReceiveLoop(t))
                        /\ WF_vars(CheckpointThread(t))
                        /\ WF_vars(AttachThread(t))
  /\ WF_vars(CheckpointProcess)

FairSpec == Spec /\ Fairness

-----------------------------------------------------------------------------
(* Properties                                                              *)

(* Every variable has its type.                                            *)
TypeOK ==
  /\ flag \in [Threads -> SUBSET {IN_USE, WRITE_DISABLED}]
  /\ ctos \in [Threads -> Seq({"sync", "async", "arg", "exit"})]
  /\ stoc \in [Threads -> Seq({"result"})]
  /\ snap \in [Threads -> {"none", "valid", "torn"}]
  /\ client \in [Threads -> {"none", "idle", "before", "send", "wait",
                             "after", "gone", "killed"}]
  /\ kind \in [Threads -> {"sync", "async"}]
  /\ toSend \in [Threads -> 0..(NArgs + 1)]
  /\ server \in [Threads -> Finished \cup Receiving \cup Guarded \cup
                   {"start", "attach", "handles", "replay", "ckpt", "exiting"}]
  /\ toRecv \in [Threads -> 0..NArgs]
  /\ call \in [Threads -> {"sync", "async", "exit"}]
  /\ attached \in [Threads -> BOOLEAN]
  /\ replayed \in [Threads -> {"none", "valid", "torn"}]
  /\ ctl \in {"idle", "flags", "wait1", "dump", "wait2", "panicked", "gone"}
  /\ mode \in {"Kill", "LeaveRunning", "Detach"}
  /\ threads \subseteq Threads /\ flags \subseteq Threads
  /\ toLock \subseteq flags
  /\ parties \subseteq Threads /\ arrived \subseteq Threads \cup {Control}
  /\ gen \in 0..2 /\ ckpts \in 0..MaxCkpts
  /\ issued \in [Threads -> 0..MaxCalls] /\ executed \in [Threads -> Nat]

(* Somebody is writing a checkpoint image or a snapshot.                   *)
Dumping == ctl = "dump" \/ \E t \in parties : server[t] = "dump"

Quiet(t) ==
  /\ ctos[t] \in {<<>>, <<"exit">>} /\ stoc[t] = <<>>
  /\ IN_USE \notin flag[t]
  /\ client[t] \notin {"send", "wait", "after"}
  /\ issued[t] = executed[t]

(* While any part of the image is written, every client of the process is  *)
(* stopped between two calls: its rings are empty (but for the farewell of *)
(* an exiting client) and every call it has made, asynchronous ones        *)
(* included, has been executed.  This is what the flag word, the second    *)
(* receive_request and the barrier are for.                                *)
QuiescentDump == Dumping => \A t \in parties : Quiet(t)

(* A checkpoint implements StopTheWorld: from the moment the barrier opens *)
(* for the first time to the moment it opens for the second, no thread     *)
(* makes or executes a call, and at its start all have been executed.      *)
World == INSTANCE StopTheWorld WITH frozen <- IF gen = 1 THEN parties ELSE {}
RefinesStopTheWorld == World!WorldSpec

(* No client is left behind a lock that nobody will clear: between         *)
(* checkpoints the flag of a running thread is not write-disabled.         *)
NoStrayLock ==
  ctl = "idle" =>
    \A t \in Threads : server[t] \in Receiving => WRITE_DISABLED \notin flag[t]

(* A snapshot in the buffers of the rings stays whole until an attach has  *)
(* used it, unless the client process exits; in particular the calls a     *)
(* client makes while detached wait until the rings are rings again.       *)
SnapshotKept ==
  \A t \in Threads :
    server[t] \in {"detached", "attach"} /\ client[t] # "gone"
      => snap[t] = "valid"

Dead(t) == server[t] \in Panics \cup {"exiting", "finished"}

(* A requested checkpoint is eventually complete, unless a thread it waits *)
(* for has died or was not yet known to it.                                *)
CheckpointCompletes ==
  ctl \in {"flags", "wait1", "dump", "wait2"} ~>
    \/ ctl \in {"idle", "panicked", "gone"}
    \/ \E t \in Threads : Dead(t)

(* A call held up by a checkpoint goes on when the checkpoint is over, as  *)
(* long as the worker and the client are still there.                      *)
HeldCallResumes ==
  \A t \in Threads :
    client[t] = "before" ~>
      \/ client[t] # "before"
      \/ ctl \in {"panicked", "gone"}
      \/ server[t] = "detached"
      \/ \E u \in Threads : Dead(u)

(* What the assertion "remaining async requests" in launch_server says:    *)
(* after one ShmChannelLocked the ring is empty.                           *)
NoRemainingRequests == \A t \in Threads : server[t] # "panic_async"

(* What the guide says of attach, that it replays the snapshot: the        *)
(* handles it replays are those detach saved.                              *)
ReplaysSnapshot == \A t \in Threads : replayed[t] # "torn"

(* What the guide says of detach: it writes the snapshot and ends the      *)
(* worker.                                                                 *)
DetachCompletes ==
  ctl = "wait1" /\ mode = "Detach" ~> ctl = "idle"
=============================================================================

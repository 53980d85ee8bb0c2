# PhoenixOS (PhOS): a TLA+ verification project

PhOS runs the CUDA calls of unmodified client processes in server ("worker")
processes of its own, so that a GPU job can be checkpointed, restored, parked
("detached") and brought back ("attached") while the client knows nothing of
it. This directory holds TLA+ models of the parts of PhOS where that can go
wrong, TLC configurations that check them on small instances, and TLAPS proofs
of the safety properties of every detailed model, for every value of its
constants.

All modules are translated from the Rust sources. `PROJECT.json` maps each
definition to the lines it models, each property to a small change of the model
(a mutant) that violates it, and each hazard to the properties that watch it.

## 1. Inventory

| Component | Source | State | Operations |
|---|---|---|---|
| ring buffer channel | `network/src/ringbufferchannel/{mod,types,shm}.rs` | head, tail, flag word, data area, all in shared memory | `put_bytes`, `get_bytes`, `try_get_bytes`, `flush`, `as_buffer` |
| client call gate | `client/src/phos.rs`, `client/src/lib.rs`, stubs generated by `codegen` | the IN_USE bit of the ring it writes | `set_client_flag_blocking`, send, receive, `clear_client_flag`, `ClientThread::drop` |
| server receive loop | `server/src/worker.rs` | one thread per client thread | `launch_server`, `receive_request`, the second check, dispatch |
| checkpoint control | `server/src/phos/mod.rs` | `MANAGER` (join handles, flags), `REQUEST`, `BARRIER` | `create_thread`, `request_checkpoint`, `checkpoint_thread`, `block_and_dump_process_state`, `clear_flag` |
| detach / attach | `server/src/phos/detach.rs` | snapshot written over the two rings of the client | `dump_state`, `begin_attach`, replay, `on_restore_finished` |
| device memory manager | `server/src/phos/memory.rs`, `server/src/phos/memory/{manager,ckpt}.rs` | next address, allocations by address, user handles by proxy | `allocate`, `free`, `reserve_address`, `create/map/unmap/release_user_handle`, `set_access`, `dump`, `dump_to_slice`, `restore`, `reset` |
| kernel manager | `server/src/phos/kernel.rs` | modules by the hash of their image, the active ones of the client, the functions it has asked for | `load_module`, `checkpoint`, `restore`, `standby`, `attach_warm`, `trigger_module_loads` |
| standby cache | `server/src/phos/standby.rs` | per client: connection, kept CUDA handles | `standby`, `has_standby`, `take_standby`, `try_put_standby`, `get_client_pids` |
| handle manager | `server/src/handle.rs`, `server/src/phos/handle.rs` | per proxy: the real handle and the recorded calls on it, timestamped, keyed or not | `insert`, `insert_args`, `get` (and destroy), `serialize`, replay |
| daemon | `server/src/daemon.rs`, `server/src/phos/daemon.rs`, `server/src/control.rs` | next thread id, children by client pid, standby worker, control sockets | new client thread, checkpoint, restore, detach, attach, standby, reaping |
| RDMA channel | `network/src/ringbufferchannel/rdma.rs` | a memory region at each end, the sender's copy of head, request numbers, last poll, last tail | the same channel operations; `flush_out` posts work requests, `poll_batch` retires them |
| emulator channel | `network/src/ringbufferchannel/emulator.rs` | simulated clocks | delays sends; refused with PhOS |
| sessions and messages | `network/src/*` | none between calls | encoding, connection set-up |
| code generation, hooks, ELF and fat binaries, command line, measurement | `cudasys`, `codegen`, `client/src/{elf,dl}.rs`, `client/src/hijack`, `server/src/phos/cli.rs`, `measure` | none that other parts read | see section 6 |

**How they interact.** A client thread asks the daemon for a thread id; the
daemon starts (or finds) the worker process of that client pid and has it start a
server thread for two rings in shared memory, one per direction. From then on
the client and its server thread share nothing but the rings and the flag word
of the client-to-server one. The operator's commands go to the daemon, which
sends them over a control socket to the worker's control task. That task sets a
bit in the flag word of every ring, meets the server threads at a barrier, and
has everybody write its part of the image; the daemon's own state only changes
once the worker has answered.

**What is hard.** (a) Two processes access head, tail and the data area without
locks, and each reads the other's index more than once within a call. (b) Two
parties modify the flag word and a third reads it *after* it has looked at the
ring, so every combination of a stale look and a fresh flag occurs.
(c) Asynchronous calls return before the server has seen them, so "the client
is between two calls" does not mean "everything has been executed". (d) A
detached client's rings double as storage for its own snapshot. (e) The
worker, the server thread, the client and criu die independently of each other,
and the daemon finds out only when it reaps. (f) Warm attach reuses what an
earlier worker believed about the client. (g) Physical memory may be mapped
several times and outlive its handle, and restore has to rebuild the sharing.
(h) Over RDMA there is a third actor: the NIC reads the sender's region when it
executes a request, not when it is posted, and most requests never report back.

**What makes it correct.** The channel delivers every byte once and in order
and blocks for ever only if the other end stops; an image is written only when
every call made so far is in it; a stopped client goes on afterwards; a snapshot
is read back as it was written; a restored process finds its memory at the same
addresses, with the same contents and the same sharing; ids and workers are
never shared by two clients; a parked client can be brought back until an attach
has given its rings away.

The hazards behind these are listed one by one, with their lines, in
`PROJECT.json`.

## 2. Modules

| Module | Models | Kind |
|---|---|---|
| `ByteChannel` | what `SendChannel` / `RecvChannel` (`network/src/type_impl/mod.rs`) promise | abstract specification |
| `RingIndex` | the arithmetic on head and tail, shared by both rings | operators |
| `RingBuffer` | the ring, one access to shared memory per action | detailed specification, refines `ByteChannel` |
| `RingBuffer_proofs` | theorems about `RingBuffer` | TLAPS |
| `RdmaRing` | the ring over RDMA: two regions, the queue pair, the NIC | detailed specification, refines `ByteChannel` |
| `RdmaRing_proofs` | theorems about `RdmaRing` | TLAPS |
| `StopTheWorld` | what a checkpoint promises to the rest of the system | abstract specification |
| `CheckpointGate` | flag word, client stub, server loop, control task, barrier, detach and attach of one worker process | detailed specification, refines `StopTheWorld` |
| `CheckpointGate_proofs` | theorems about `CheckpointGate` | TLAPS |
| `MemoryManager` | device memory, its images and its restore | sequential component (one mutex) |
| `MemoryManager_proofs` | theorems about `MemoryManager` | TLAPS |
| `HandleManager` | recorded calls on CUDA library handles, their images and their replay, and the handles that standby workers keep | sequential component (one client) |
| `HandleManager_proofs` | theorems about `HandleManager` | TLAPS |
| `KernelManager` | kernel modules and functions of worker processes through images, standby and attach | composition of kernel manager and standby cache |
| `KernelManager_proofs` | theorems about `KernelManager` | TLAPS |
| `Daemon` | daemon, worker processes, clients' fate, standby cache, images | composition at the level of requests |
| `Daemon_proofs` | theorems about `Daemon` | TLAPS |
| `MCDaemon`, `MCKernels` | symmetry sets for `Daemon` and `KernelManager` | models |

`RingBuffer` is the bottom layer. `CheckpointGate` builds on its result: there a
ring is a sequence of chunks, one per `put_bytes`, which is what `ByteChannel`
allows. `Daemon`, `KernelManager` and `HandleManager` take the result of
`CheckpointGate` (a checkpoint is a `StopTheWorld`) and make a whole checkpoint,
detach or attach one action, so that many of them, for several clients and
workers, fit into one behaviour.
`MemoryManager`, `HandleManager` and `KernelManager` are the content of
"memory", "handles" and "kernels" in such an image.

### RingBuffer

`head`, `tail`, `buf` are the shared memory. `putPc`, `putLen`, `readTail`,
`writeLen` are the program counter and locals of `put_bytes`; `getPc`, `getLen`,
`readHead`, `readLen`, `recv` those of `get_bytes`. A byte is its position in
the stream, so that loss, duplication and reordering are visible in `got`. The
actions split each loop where the code reads or writes shared memory:
`PutWaitNotFull` (tail, `is_full` and the wait of `flush_out`), `PutSlice` (the
next read of head), `PutCopy`, `PutAdvance`, and likewise for `get_bytes`,
including its look at the flag when nothing was found. `PutWaitNotFull` reads
head and tail in one step: tail is only written by the producer itself, so the
turn of the loop that finds room depends on one read of head alone, and `GetEmpty` and
`GetNonEmpty` depend in the same way on one read of tail.

### RdmaRing

`lhead`, `ltail`, `lbuf` are the sender's memory region, `rhead`, `rtail`,
`rbuf` the receiver's. `put_bytes` and `get_bytes` are the code of `RingBuffer`,
each on its own region, so a turn of `put_bytes` is one action here: nobody
else touches the sender's region at that point. `flush_out` is split where it
posts a request (`FlushFirst`, `FlushSecond`, `FlushTail`, `FlushWait`) and
where it waits (`PollBatch`, entered whenever `pollFor` is set). `sq` and `cq`
are the send and the completion queue of the queue pair, and the NIC
(`NicWrite`, `NicCas`, `NicRead`, external) executes the oldest request at any
later time, reading the sender's region at that moment. `nextReq`, `lastPoll`,
`lastTail` are the three cells of `RDMAChannel`. Requests are numbered one by
one and never reordered, so a queued request needs no number of its own. The
numbers are u64 in the code and grow for ever; the code only compares them and
takes them modulo `SIGNAL_INTERVAL`, so `PollBatch` moves all of them down by
the same multiple of it, which keeps the state space finite. `SIGNAL_INTERVAL`
and `MAX_SEND_WR` are constants with the assumption that the queue holds two
intervals and an interval is at least two requests (128 and 16 in the code).

### CheckpointGate

Per server thread: the flag word as a set of bits, the two rings as sequences of
chunks, the snapshot (`none`, `valid` or `torn` by a write into the ring), and
where client and server are. The receive loop keeps the code's separation
between *looking at the ring* and *reading the flag* (`RecvEmpty`, then
`CheckFlag`), both in the first and in the second `receive_request`, and in the
middle of a request, where a lock is a panic. The control task sets the flags
one at a time (`SetFlag`), takes part in the barrier twice, and returns to its
loop only when no thread holds the read guards of `REQUEST` and `BARRIER`.
`Attach` starts the thread in a new process, so the flag manager is a new one.

`StopTheWorld` knows only how many calls each thread has issued and how many
have been executed, and which threads are frozen. A freeze takes all threads of
a process at once, when each has had every call executed; a frozen thread
neither issues nor executes. The refinement maps "frozen" to the time between
the two openings of the barrier.

### MemoryManager

Every call runs under one mutex and is one action. Addresses are relative to
the base of the reserved range; physical memory objects have an identity and
one value. The content of a user handle that is mapped nowhere is not part of
an image in the code, and is not compared after a restore.

### HandleManager

`nextProxy` and `view` are the client: the proxies it has named and what it
knows of the objects behind them. `resources` is the server thread's
`HandleManager` (real handle and recorded calls per proxy), `clock` the
process-wide `TIMESTAMP`, `gpu` the objects that exist in the worker's CUDA
libraries. A replay runs the same handlers as the client's calls
(`ExeCreate`, `ExeModify`), so it records the calls again, with new timestamps,
and a later image is made from that. Three kinds of handles stand for all
that `is_handle_type` lists: streams (made, used, destroyed by no hook), handles
whose calls have an `op_key` (of two calls with the same key only the last is
kept) and descriptors (every call is kept). `SetStream` and `SetWorkspace`
are two keyed calls whose order matters, since cuBLAS resets the workspace when
the stream is set. `ok` is whether the library accepts the call; it is an
input of the call and the same when it is replayed.

`kept` are the client's connections in standby caches: a worker with a cache
(`standby`) keeps the handles of a client that detaches from it, with its process
(`clock`, `gpu`), and goes on keeping them while the client is attached elsewhere
(`AttachCold` leaves `kept` alone; in the code the old worker is busy with another
client, so the daemon starts a new one). `AttachWarm` takes any of them, old or
new, and replays nothing if it has handles. Whether such a connection is as new as
the snapshot is the history `outdated`, set when the client's `view` has changed
since the connection was kept, and passed on through later images. `CallPanics` is
what an outdated client meets: `get_inner` panics on a handle the thread does not
have. Which worker is free at what time is left to `Daemon`; here every order of
cold and warm attaches is allowed.

### KernelManager

`worker[w]` has the manager's three fields (`all`, `active`, `functions`), what
the driver has really loaded (`loaded`: lazily, at the first
`cuModuleGetFunction` of a module), the function handles of the server thread,
and the standby cache with the handles kept per client. `mods` and `fns` are
what a client holds. A failed `unwrap` (a module that is not in `all_modules`)
is a dead server thread. `Standby` takes clients in any order, the one in
which the command names them. Two histories are kept for the properties only:
`cached`, the workers whose cache entry is as new as the client's snapshot, and
`outdated`, the clients that were once attached through an older entry, which
is the finding of `daemon_stale` and excepted here. `reused` marks a warm attach
that found kept handles: the functions are cleared (`attach_warm`), nothing is
replayed (`begin_attach` replays only if there are no handles), and so the next
snapshot of that client lists no function it had before. Nothing breaks, but a
*new* standby worker made from that snapshot registers the modules without
loading them; `FunctionsTracked` and `StandbyWarm` say exactly what is left.

### Daemon

`children` (the daemon's map), `standbyWorker`, `nextId` are the daemon;
`worker[w]` the processes with their modules, the handles of their client and
their standby cache; `client[p]` what has become of each client; `snapshot` and
`disk` what detach and checkpoint have saved. A client is `new`; `attached`;
`parked`, with locked rings, by a detach; `unserved`, if the server thread of its
last attach died after it had given the rings back; `stranded`, if its worker has
ended or a checkpoint has stopped its threads and not killed it; `gone`, or
`killed` by a checkpoint that can be restored. `begin_attach` clears
WRITE_DISABLED before the replay (`Releases`), so from then on any call of the
client ends its snapshot, served or not (`ClientWrites`, `LoadModule`). A thread
that panics in the attach has already taken its connection out of the cache, and
if it held the kernel manager's mutex it leaves it poisoned (`poisoned`): every
later attach to that worker, every dump in it and every checkpoint of it panics as
well (`AttachedWorker`, `Dumpable`, `CheckpointPanics`). A detach of a client whose
thread is dead dumps nothing and parks nobody.

criu is called once per client, with an outcome of its own (`CriuOutcome`), both
when it dumps and when it restores (`RestoreJob`: `back` are the clients that are
there again; the daemon starts workers for all). Reaping is part of the handlers
that call `reap_children`, in the order of the code (the operators `Reaped...`
are the daemon's state after it), and `ReapChildren` is what the daemon's own
loop does. A panic of the daemon is recorded in `panic`; `Restart` starts a new
one. A worker's server thread is one field, since detach and standby are only
for clients with a single one. Rings that the client has written over hold no
snapshot for a later attach: `as_buffer` asserts that they are empty, and the
header is gone.

## 3. Runs

Passing runs:

* **ring**: eight properties of the ring, 4 bytes of capacity, messages up to 5
  bytes, 8 bytes per behaviour. The ring wraps twice, fills up, and messages
  longer than it are split. `RefinesByteChannel` is the safety part of the
  channel's contract, `AllDelivered` and `PutReturns` are its liveness.
* **rdma**: seven properties of the RDMA ring, 4 bytes of capacity, a send queue
  of 4 with a signal interval of 2, messages up to 3 bytes, 6 bytes per
  behaviour. `SendQueueBound`: `post_send` never finds the queue full.
  `PendingBytesKept`: no byte is overwritten that the NIC has still to fetch.
  `TailSwapSucceeds`: the tail's compare-and-swap never fails.
  `RefinesByteChannel`: seen from the receiver this is the same channel as the
  shared-memory ring. `FlushedDelivered` and `PutReturns` are its liveness; the
  latter includes that `poll_batch` is never entered without a signaled
  request outstanding.
* **gate**: two server threads, one call each with one argument, two
  checkpoints in the modes Kill and LeaveRunning. `QuiescentDump` is what the
  protocol is for: while any part of the image is written, the rings of all
  threads are empty and every call has been executed. `RefinesStopTheWorld` is the
  same seen from outside, over time: between the two openings of the barrier
  nothing is issued or executed. `NoStrayLock`,
  `CheckpointCompletes` and `HeldCallResumes` say that a checkpoint ends and
  nobody stays locked out by it.
* **gate_detach**: one thread, two calls, three requests in the modes Detach
  and LeaveRunning, clients that may exit. `SnapshotKept`: a snapshot that lies
  in the rings is not overwritten while the client is detached.
* **memory**: two physical objects, two proxies, a range of three granules,
  sizes below, at and above the granularity. `RestoreFaithful` compares what
  the client can tell apart before and after, for both kinds of image;
  `ReservationsDisjoint` and `BorrowedBacked` say that restored bookkeeping
  does not hand out an address or a handle twice. `RestoreFaithful` and
  `BorrowedBacked` make an exception of a client that releases a handle whose
  memory is still mapped, which CUDA allows: the image then names a proxy that is not in it, so that `restore`
  returns an error on which the worker panics (`RestoreFails`, reachable), or
  one that has been given to another handle since.
* **handles**: three handles, four recorded calls per worker process, one
  value, one standby worker that the client has left (5.4 million states).
  `HandlesMatch`: after any mix of calls, checkpoints, restores, detaches
  and attaches the client finds its handles and their configuration. Two cases
  are excepted because the code does not keep it there: a refused keyed call that
  has replaced an accepted one, and an attach through a cache entry older than the
  snapshot, which is the finding of `daemon_stale`. `ReplayDefined`: no replayed
  call names a handle that is not there; `NoLeakedHandles`: neither a replay nor a
  warm attach makes a handle twice. These two hold without exception, also for
  outdated handles and for images made of them.
* **kernels**: two clients, two workers, two images. `ModulesResolve`: no lookup
  of a module fails and `active_modules` is what the client has loaded, through
  any sequence of checkpoints, parking and standby workers shared with the other
  client. `FunctionsTracked`: an image lists its own client's functions.
  `StandbyWarm`: a standby worker has really loaded what it stands by for.
* **daemon**: two clients, two workers, one module, two thread ids, with
  crashes of workers and exits of clients at any time (863,000 states).
  `UniqueIds`, `OneOwner`, `StandbyAdvertised`, and `ParkedKept`: until an attach
  has given its rings back, a parked client has its entry with its one id, a worker
  it can be detached from if any, and a snapshot with every module it has loaded,
  also after attaches that failed before they had read it. Nothing is promised to a
  client whose attach failed later: its snapshot lasts until its next call.

Runs that show where the code and what is said of it disagree (the trace is the
evidence; `PROJECT.json` has the lines under "findings"):

* **gate_async**: the assertion "remaining async requests" of `launch_server`
  can fail. `get_bytes` sees an empty ring and reads the flag later; between the
  two the client publishes an asynchronous request and leaves its call.
* **gate_replay**: attach may replay something else than detach saved.
  `begin_attach` clears the flag before it copies the handles out of the ring,
  and a waiting client may write first.
* **gate_lost**: a detach requested while an attach is still replaying may never
  complete: `begin_attach` and `on_restore_finished` clear the bit that the
  detach has just set.
* **daemon_stale**: a warm attach may find neither the modules nor the handles
  the client acquired elsewhere since it was cached. Either the replay panics, or,
  if the old entry has handles, nothing is replayed and the newer ones are missing.

Actions that stand for a failed assertion or unwrap and that the passing runs
reach are also facts about the code. Besides `RestoreFails` above:
`DetachFindsStandby` (detaching a client from a worker with a standby cache ends
the daemon if another standby worker was started in the meantime),
`FlagsMissing` (a checkpoint of a process whose newest thread has not yet
registered its flag), `DumpFails` (a checkpoint between a client's `cuMemMap` and
`cuMemSetAccess`), `CheckpointPanics`, `AttachPanics`, `StandbyPanics` and
`RestorePanics` (requests the daemon does not expect).

**Why the bounds are enough.** In the ring, only the position of head and tail
relative to each other and to the end of the data area matters; four slots give
every such case, and what holds for larger rings is proved, not inferred. Over
RDMA, a queue of 4 with an interval of 2 is the tightest that the assumption
allows: all four places are in use at times, and the mutant that polls two
requests later overflows it. Six bytes wrap the ring once and leave it full with
requests still queued. In the gate, threads interact only through the barrier and the control task, so
two show all pairs; a second checkpoint shows what the first one leaves behind,
and the first, the second and the attached life of a thread are all reached
with three. One argument chunk tells "between requests" from "inside a
request". In memory, two physical objects are what sharing needs, and three
granules make adjacent, overlapping and failing reservations. For the
handles, three are a stream, a handle that uses it and a descriptor, in any
order of creation; four calls are enough to create a handle and set the stream, the
workspace and the stream again, and images are taken after each of them. One
connection that is left behind shows every combination of an older and a newer set
of handles; `MaxPair` bounds the calls in both processes together at seven, three
and four, so that each side may use up its own bound. In the daemon
and for the kernels, two of each are what exclusion and sharing need; the
findings need no more either.
Bounds are always in guards (`MaxBytes`, `MaxCalls`, `MaxCkpts`, `NPhys`,
`MaxProxy`, `MaxKept`, `MaxPair`, `MaxIds`, `MaxLoads`); since a behaviour ends when they are used up, deadlock is
checked only for the two rings, whose receiver always has a next step.

**Fairness.** `RingBuffer` assumes weak fairness of the step inside
`put_bytes`/`flush` and of the receiving loop: both are running threads that
busy-wait. `RdmaRing` assumes it of the sender inside `put_bytes` or
`flush_out`, of the receiving loop and of the NIC, which works off its queue on
its own. `CheckpointGate` assumes it of a client inside a call, of each
server thread's loop, of its part in a checkpoint and in an attach, and of the
control task inside a request. Nothing is assumed of new calls, of exits, or of
requests by the daemon. Weak fairness is enough: each of these is one thread
with one enabled step at a time. (`BeforeCall` waits for a flag that may be set
again before the client is scheduled; `HeldCallResumes` holds under weak
fairness because the number of checkpoints is bounded, and says no more than
that a client is not left behind by the last one.)

## 4. Proofs

Seven modules, one per detailed specification, prove every safety property that
the runs check; only liveness is left to TLC. Each has the same shape: an
inductive invariant, lemmas about the operators of the model, one lemma per action
("... keeps the invariant"), the theorem `Spec => []Inv`, and the properties as
its consequences. Nothing is assumed but the `ASSUME` of each module, which TLC
evaluates in its runs.

### The ring

`RingBuffer_proofs` proves, for every `Capacity >= 2` (`CapacityAssumption`;
the configured `buf_size` is far larger) and every `MaxLen` and `MaxBytes`
(`BoundsAssumption`):

| Theorem | Statement |
|---|---|
| `RingInvariance` | `Spec => []RingInv` |
| `TypeCorrectness` | `Spec => []TypeOK`, with the code's index assertions |
| `Fifo` | `Spec => []InOrderDelivery` |
| `RaceFreedom` | `Spec => []NoDataRace` |
| `LoopProgress` | `Spec => []SlicesNonEmpty` |
| `ChannelRefinement` | `Spec => RefinesByteChannel` |

**The argument.** None of these is inductive by itself: that the next byte is
the right one depends on what lies in the ring and on how far both ends are.
`RingInv` adds to the type invariant

* `StreamInv`: bytes published = bytes released + bytes stored;
* `ContentInv`: the stored bytes are consecutive positions of the stream,
  starting at head and wrapping at the end;
* `PutInv`: the producer's locals agree with tail, its slice lies in the free
  part and leaves one slot, and before the tail moves it holds the next bytes;
* `GetInv`: the consumer's locals agree with head and its slice lies in the
  stored part;
* `InOrderDelivery` itself.

The point of `PutInv` and `GetInv` is that the *stale* values are harmless:
while the producer holds its slice only the consumer moves, which makes room,
and the other way round. The lemmas `StoredAfterPut`, `StoredAfterGet`,
`WriteSliceFits`, `ReadSliceFits`, `StoredSlotNotWritten`, `NewSlot` and
`ShiftedSlot` are the modular arithmetic; `PutPreserves` and `GetPreserves` go
through the actions of each end. The refinement maps `sent` to `Published` (the
bytes copied minus those whose tail update is still to come); `PutAdvance` is
`Send`, `GetCopy` is `Receive` and every other step is a stutter.

### The ring over RDMA

`RdmaRing_proofs` proves, for every `Capacity >= 2`, every `SignalInterval >= 2`,
every `MaxSendWr >= 2 * SignalInterval` (`RdmaAssumption`) and every bound on
messages:

| Theorem | Statement |
|---|---|
| `RdmaInvariance` | `Spec => []RdmaInv` |
| `TypeCorrectness` | `Spec => []TypeOK`: every posted write lies in the data area |
| `SendQueueNeverOverflows` | `Spec => []SendQueueBound` |
| `TailSwapsSucceed` | `Spec => []TailSwapSucceeds` |
| `StreamInvariance` | `Spec => [](RdmaInv /\ StreamInv)` |
| `PendingBytesSafe` | `Spec => PendingBytesKept` |
| `RdmaImplementsByteChannel` | `Spec => RefinesByteChannel` |

**The argument.** The bound is not inductive: whether the next request fits
depends on what the last poll has retired. `QueueInv` orders the numbers
(retired, then completed, then queued, each in ascending order) and bounds the
next number by `retired + (MaxSendWr - SignalInterval)`, plus one while the
sender runs and plus two while it polls. The check in `write_remote` counts from
`last_poll`, which is at most what is retired (it starts at 0, before request 0
has been retired); a read is posted without a check, but from a state where the
sender runs, and then waits; and every turn of `poll_batch` retires at least one
request, because what lies in the completion queue is never older than what has
been retired. The two requests beyond the margin are why the interval must be at
least two. `SwapInv` says that there is a sequence of tails, one before each
queued request, which starts with the receiver's tail, ends with `last_tail`,
changes only at a compare-and-swap and there as the request says. `SliceInv`
holds the bounds of slices that the types of the next step need. The lemmas go
through posting (`PostPreserves`), execution by the NIC (`CompletePreserves`),
polling (`PollPreserves`) and the two ends.

The stream needs a second invariant on top of `RdmaInv`. Every index is measured
by how far it is behind the sender's tail (`Behind`), which also gives the byte
that belongs in a slot (`Byte`). `OrderInv`: `lastTail`, `rtail`, `rhead` and
`lhead` follow each other around the ring in this order, so what the stale
`lhead` leaves free has been read. `BytesInv`: the sender's region holds every
byte back to `lhead`, the receiver's region every byte between its head and its
tail. `FlightInv` looks at the queue through the tails ahead of `SwapInv`: these
only advance, a queued write carries bytes that the tail before it does not
cover, and a queued compare-and-swap publishes only bytes that have arrived or
that a request before it brings (`Arrives`). `FlushInv` is what `flush_out` has
posted at each place before the compare-and-swap, `GotInv` what has been read.
`PostStreams` adds a request at the end of the queue, `ExecuteStreams` takes the
oldest away, and `TailMoves` shows that a turn of `put_bytes` moves everything
within reach back by the same distance and writes only beyond it. The last is
also why `PendingBytesKept` holds. In the refinement `NicCas` is `Send`
(or a stutter, when nothing was new), `GetCopy` is `Receive`, a turn of
`put_bytes` is hidden because the distance of `rtail` grows with `next`, and all
other steps are stutters.

### The call gate

`CheckpointGate_proofs` proves, for any finite set of threads and any number of
calls, arguments and requests (`GateAssumption`; `Control`, the control task's
place at the barrier, is not a thread):

| Theorem | Statement |
|---|---|
| `GateInvariant` | `Spec => []GateInv` |
| `GateTypes` | `Spec => []TypeOK` |
| `DumpIsQuiescent` | `Spec => []QuiescentDump` |
| `LocksAreCleared` | `Spec => []NoStrayLock` |
| `SnapshotSurvives` | `Spec => []SnapshotKept` |
| `CheckpointStopsTheWorld` | `Spec => RefinesStopTheWorld` |

**The argument.** That a dump is quiescent is decided much earlier: a server
thread looks at the ring a second time, after the lock, finds it empty and then
reads a flag without IN_USE. `LockInv` says that from that moment to the end of the
checkpoint (`Parked`) the client is locked and between two calls. It needs
`CallInv`: IN_USE is set exactly while the client is in a call, and the ring holds
exactly the chunks that were sent and not received, `Sent(t) - Got(t)` of them, each
of the kind that its position in the stream says (`Stream`). An empty ring then
means `issued = executed`. `CtlInv` is the barrier: `Gathering`, `Frozen` and
`Leaving` are the times before, between and after its two openings, who has
arrived is who waits at that place, and when the barrier opens the set of
parties has been used up, which is a fact about cardinalities
(`FiniteSetTheorems`). `SnapInv` ties the snapshot to the detached thread; it is kept
because that client is locked. For the refinement, the first opening of the
barrier is `Freeze`, since by `LockInv` every thread is quiet then, and every step
of a thread between the openings is a stutter.

### Device memory

`MemoryManager_proofs`, for any granularity, range, sizes and amount of physical
memory (`MemoryAssumption`: the range is a multiple of the granularity, and so are
the sizes of handles, which the driver demands):

| Theorem | Statement |
|---|---|
| `MemoryInvariant` | `Spec => []MemoryInv` |
| `MemoryTypes` | `Spec => []TypeOK` |
| `RestoresAreFaithful` | `Spec => []RestoreFaithful` |
| `AddressesAreDisjoint` | `Spec => []ReservationsDisjoint` |
| `BorrowedSegmentsAreBacked` | `Spec => []BorrowedBacked` |

**The argument.** `Store` is what a state of the manager looks like: segments lie
below the next address, the GPU has content for exactly the memory that a segment
or a handle refers to, and owned memory is shared with nobody. `Imaged` says the
same of the state that was saved, and that the image holds its metadata and, under
the key of each segment, the right content. In a directory the key is the
address; in a snapshot it is the running sum of the rounded sizes before it
(`SliceOffset`), and two segments have different sums because sizes are positive,
shown by a least counterexample. The restored state is then described outright:
new objects for handles and owned segments, numbered in order. That there are
enough of them is a count: handles and owned segments together are at most as many
as there were objects before. `Below` keeps addresses apart: every
reservation, rounded up, lies below the next address, in the image too.

### Library handles

`HandleManager_proofs`, for any set of arguments and any number of handles and
calls (`HandleAssumption`):

| Theorem | Statement |
|---|---|
| `HandleInvariant` | `Spec => []HandleInv` |
| `HandleTypes` | `Spec => []TypeOK` |
| `HandlesAlwaysMatch` | `Spec => []HandlesMatch` |
| `ReplaysAreDefined` | `Spec => []ReplayDefined` |
| `NoHandleLeaks` | `Spec => []NoLeakedHandles` |

**The argument.** The invariant is about one set of calls: those that are
recorded together with those still to be replayed (`Rest`), which are given the
timestamps that they will get. `Script` says that this set, in the order of its
timestamps, makes what the client has: one creation per handle, before everything
else on it; streams created before they are named; and, per attribute, a last call
that sets or resets it to the value the client knows (`Leaves`), unless a
refused call has taken its place (`Clean`). A step of a replay moves a call from one part
of the set to the other and changes nothing else. `serialize` numbers the
recorded calls by how many are older (`RankFacts`), and a set of calls that is
numbered again in the same order is the same script (`ScriptRenamed`): this is
where the order of the image matters. `Entries` says that real handles are in
one-to-one correspondence with entries and are configured as the recorded calls
leave them. Both leave the same value, because a set of calls with different
timestamps leaves only one (`LeavesUnique`).

With standby workers the handles in a thread need not be the ones the client has.
The invariant therefore does not speak of the client's `view` but of *some* view
that the calls make (`HeldFor`, `Shows`), which is the client's unless `outdated`,
and which names no proxy the client has not used and no other kind of handle
(`MadeBy`): a call that an outdated client makes on a handle that is there is then
still a call on a handle of its kind, and `ReplayDefined` and `NoLeakedHandles`
hold for outdated handles too. The same is said of every kept connection (`KeptOK`),
about the view that the client had when it left, and is not touched by what the
client does elsewhere. A kept connection without handles may replay the snapshot:
its script is empty, so the snapshot may be numbered from the old process's clock
on (`ScriptShift`).

### Kernel modules

`KernelManager_proofs`, for any clients, workers and images, and for any order in
which a standby worker takes its clients (`KernelAssumption`: `None` is none of
the values it stands in for):

| Theorem | Statement |
|---|---|
| `KernelInvariant` | `Spec => []KernelInv` |
| `KernelTypes` | `Spec => []TypeOK` |
| `ModulesAlwaysResolve` | `Spec => []ModulesResolve` |
| `FunctionsAreTracked` | `Spec => []FunctionsTracked` |
| `StandbyIsWarm` | `Spec => []StandbyWarm` |

**The argument.** `KernelInv` follows a client through the places where its state
can be: the worker that serves it (`ServedOK`), its image or snapshot (`SavedOK`),
and the caches that are as new as the snapshot (`KeptOK`). What a cache keeps must
survive the service of others in the same process, which holds because
`all_modules` and what is loaded only grow. A client is served once (`ServedOnce`),
and listed functions are loaded in every worker (`WorkerOK`).

### The daemon

`Daemon_proofs`, for any clients, workers, modules and ids, with or without crashes
(`DaemonAssumption`):

| Theorem | Statement |
|---|---|
| `DaemonInvariant` | `Spec => []DaemonInv` |
| `DaemonTypes` | `Spec => []TypeOK` |
| `IdsAreUnique` | `Spec => []UniqueIds` |
| `WorkersHaveOneOwner` | `Spec => []OneOwner` |
| `StandbyIsAdvertised` | `Spec => []StandbyAdvertised` |
| `ParkedClientsAreKept` | `Spec => []ParkedKept` |

**The argument.** Handlers reap first and then work on what is left, so the
invariant (`Consistent`) is about values rather than variables: `ReapingKeeps`
shows that it survives the reaping, and the lemma of each handler starts
from any values that satisfy it. Four parts are needed besides the properties. A worker that is
referred to is a process (`Processes`), so a new one is never confused with it. An
attached client has a running server thread in a worker whose kernel manager is not
poisoned and, if it has one thread, in which its modules are active (`Attached`);
without this a later detach could save less than the client has loaded. An
unserved client is no attached one, and of its snapshot only this is known: while it
is there it is complete, and the thread of its entry is dead (`Parked`), so that a
second attach before the client's next call may still succeed. A client that has
not started is unknown and has loaded nothing (`Fresh`). And the
images on disk hold disjoint ids below the bound and at least the modules in use
(`SavedOK`), since a restore brings them back.

**Only model-checked**: liveness (`AllDelivered`, `PutReturns`,
`FlushedDelivered`, `CheckpointCompletes`, `HeldCallResumes`), which is out of the
prover's reach. Of the inductive invariants the run **ring** checks `RingInv`; the
others quantify over natural numbers and infinite types in places and are not
listed in a run. TLC evaluated them over bounded ranges before they were proved.

## 5. Plan

Done: all modules of section 2, their runs, and the proofs of section 4, which
cover every safety property and every refinement that a run checks.

Left: nothing that the runs check. The hazards without a property are listed with
their reasons.

## 6. Not modelled, and why

* Contents of messages and formats of images: a chunk is a chunk, an image is
  what can be read back from it. Encoding is a pure function of its input and
  belongs to unit tests.
* Creation, sizing and unlinking of shared-memory objects, criu, the CUDA
  driver: external. criu is a step that succeeds or fails, for each client on its
  own, without the code noticing; the driver's rules for mapping are the guard `Mappable`.
* The memory model of the processor: an access to shared memory is atomic and
  in program order. The indices are read and written with volatile accesses and
  a sequentially consistent fence separates the copy from the update of the
  index; on the consumer's side nothing but program order keeps the copy behind
  the read of tail.
* Requests that are published in parts. A `put_bytes` that wraps publishes twice,
  and in `RingBuffer` it does; in `CheckpointGate` a chunk arrives whole. The
  window between an empty ring and the read of the flag, which `gate_async`
  shows, also lies between the two parts of a chunk, where it would fail
  `get_bytes`' own assertion that nothing has been received.
* Of library handles: a create that fails (the code then stores whatever the
  uninitialised output holds); backend descriptors whose attributes are arrays
  of other descriptors; handles made on one connection and used on another.
  `HandlesMatch` excepts a handle for which the last call of some key was refused
  by the library: the manager records it all the same, and it has replaced the
  accepted one. It also excepts a client with outdated handles.
* Whether a snapshot may by chance survive a call that is written over it: the
  magic number and sizes at its head are not followed byte by byte.
* The set-up of an RDMA channel (device, connection, exchange of keys) happens
  before there is a channel. A request that the NIC completes with an error ends
  the process (`poll_send_cq` is unwrapped) and is not modelled.
* Of kernel modules: several functions per module, images whose hashes collide,
  and modules the driver refuses (the call then changes nothing).
* Deadlines of the daemon's calls are a failed call, not a clock. A late answer
  has no reader left.
* `Daemon` does not track images of clients that are left running: their pids
  are taken, so they cannot be restored while the clients live.
* The emulator channel simulates latency for measurements and is refused
  together with PhOS. Code generation, hooks, ELF and fat binary parsing, the
  command line and the measurement code keep no state that the other parts
  read.
* `rperf/libs/vanilla` holds almost all C and C++ lines of the repository. They are
  copies of NVIDIA's headers (input of its code generator), one generated
  pass-through wrapper per API function, and samples. The library records how long
  each call of an application takes, for the cost model of `rperf`; it is not
  linked into PhOS and shares nothing with it. The logic of PhOS itself is
  written in Rust, and that is what the map covers. The one place with state,
  `trace.cpp`, is listed as a hazard: starting or ending a trace while another
  thread is inside a call leaves its two lists of different lengths.

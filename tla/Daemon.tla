------------------------------- MODULE Daemon -------------------------------
(***************************************************************************)
(* The PhOS daemon (server/src/daemon.rs, server/src/phos/daemon.rs) and   *)
(* the worker processes it starts: which worker serves which client, what  *)
(* a detached client leaves behind, and the standby worker that keeps      *)
(* kernel modules warm (server/src/phos/standby.rs, kernel.rs).            *)
(*                                                                         *)
(* The daemon serves one session at a time and waits for the answer of     *)
(* every worker it calls, so a handler is one action.  Between handlers    *)
(* clients run, workers end, and ended workers wait to be reaped.  A panic *)
(* in a handler ends the daemon.  What happens inside a checkpoint is the  *)
(* subject of CheckpointGate.                                              *)
(*                                                                         *)
(* A kernel module stands for the module and for the function handle that  *)
(* the client gets from it; the handle is a resource of the server thread. *)
(***************************************************************************)
EXTENDS Integers, FiniteSets

CONSTANTS Pids,      \* client processes
          Workers,   \* worker processes
          Modules,   \* kernel modules
          MaxIds,    \* bound: threads created
          Crashes,   \* may worker processes end by themselves
          None

(* What the daemon keeps of a client, what a client's detach leaves, the   *)
(* standby worker it knows, the connections in a worker's cache, and the   *)
(* clients in a checkpoint directory.  All are optional.                   *)
ChildType == [worker : Workers \cup {None}, ids : SUBSET (0..MaxIds)]
SnapshotType == [active : SUBSET Modules, handles : SUBSET Modules]
StandbyType == [worker : Workers, pids : SUBSET Pids]
CacheType == UNION {[ps -> SUBSET Modules] : ps \in SUBSET Pids}
DiskType == UNION {[ps -> [ids : SUBSET (0..MaxIds), used : SUBSET Modules,
                           active : SUBSET Modules, handles : SUBSET Modules]] :
                     ps \in SUBSET Pids}

ASSUME DaemonAssumption ==
  /\ IsFiniteSet(Pids) /\ IsFiniteSet(Workers)
  /\ MaxIds \in Nat /\ Crashes \in BOOLEAN
  /\ None \notin Workers
  /\ None \notin ChildType \cup SnapshotType \cup StandbyType \cup CacheType

VARIABLES
  panic,              \* why the daemon has ended, or None
  nextId, children,   \* DaemonInner: next_id, children,
  standbyWorker,      \*   standby_worker
  worker,             \* the worker processes
  snapshot,           \* what a detach left in the shared memory of a client
  client, used,       \* clients, and the modules they have loaded
  disk                \* checkpoint directory: client pid -> ids and modules

daemonVars == <<nextId, children, standbyWorker>>
vars == <<panic, daemonVars, worker, snapshot, client, used, disk>>

(* A worker process: its server thread; whether a thread of it has been    *)
(* the main one (is_main_thread); STANDBY_CACHE; KERNEL_MANAGER's          *)
(* all_modules and active_modules, and whether a thread has panicked while *)
(* it held its mutex; the thread's handles.                                *)
NoWorker == [proc |-> "none", thread |-> "none", main |-> "unused",
             cache |-> None, modules |-> {}, active |-> {},
             poisoned |-> FALSE, resources |-> {}]
Spawned == [NoWorker EXCEPT !.proc = "running"]
WorkerType == [proc : {"none", "running", "zombie"},
               thread : {"none", "run", "dead"},
               main : {"unused", "running", "over"},
               cache : {None} \cup CacheType,
               modules : SUBSET Modules, active : SUBSET Modules,
               poisoned : BOOLEAN, resources : SUBSET Modules]

(* Where a client is: parked by a detach, with its rings locked; unserved  *)
(* since the server thread of its last attach died after it gave the rings *)
(* back; stranded by a worker that has ended or a checkpoint.              *)
ClientType == {"new", "attached", "parked", "unserved", "stranded", "gone",
               "killed"}

Child(w, ids) == [worker |-> w, ids |-> ids]
Known(ch, p) == ch[p] # None
Detached(ch, p) == Known(ch, p) /\ ch[p].worker = None

Up == panic = None

Init ==
  /\ panic = None
  /\ nextId = 0 /\ children = [p \in Pids |-> None] /\ standbyWorker = None
  /\ worker = [w \in Workers |-> NoWorker]
  /\ snapshot = [p \in Pids |-> None]
  /\ client = [p \in Pids |-> "new"] /\ used = [p \in Pids |-> {}]
  /\ disk = None

(* The daemon ends.  Its workers end with their control channels, and its  *)
(* clients are lost, except those a checkpoint has killed.                 *)
DaemonEnds(reason) ==
  /\ panic' = reason
  /\ nextId' = 0
  /\ children' = [p \in Pids |-> None] /\ standbyWorker' = None
  /\ worker' = [w \in Workers |-> NoWorker]
  /\ snapshot' = [p \in Pids |-> None]
  /\ client' = [p \in Pids |->
       IF client[p] \in {"new", "killed"} THEN client[p] ELSE "gone"]
  /\ UNCHANGED <<used, disk>>

-----------------------------------------------------------------------------
(* reap_children, at the start of some handlers and on SIGCHLD             *)

Zombies == {w \in Workers : worker[w].proc = "zombie"}

(* Mutant: entries without a worker go as well.                            *)
ReapedChildren_Detached ==
  [p \in Pids |-> IF /\ Known(children, p) /\ Zombies # {}
                     /\ children[p].worker \in Zombies \cup {None}
                  THEN None ELSE children[p]]

(* The entry of a client whose worker has ended goes, that of a detached   *)
(* client stays.                                                           *)
ReapedChildren ==
  [p \in Pids |-> IF Known(children, p) /\ children[p].worker \in Zombies
                  THEN None ELSE children[p]]

ReapedStandby ==
  IF standbyWorker # None /\ standbyWorker.worker \in Zombies
  THEN None ELSE standbyWorker

ReapedWorkers ==
  [w \in Workers |-> IF w \in Zombies THEN NoWorker ELSE worker[w]]

ReapChildren ==
  /\ Up /\ Zombies # {}
  /\ children' = ReapedChildren /\ standbyWorker' = ReapedStandby
  /\ worker' = ReapedWorkers
  /\ UNCHANGED <<panic, nextId, snapshot, client, used, disk>>

-----------------------------------------------------------------------------
(* Clients and workers                                                     *)

(* A thread starts in a process; the first one is the main thread.         *)
StartThread(wk) ==
  [wk EXCEPT !.thread = "run", !.main = IF @ = "unused" THEN "running" ELSE @]

(* Clients that may open a connection: a parked one waits for its rings.   *)
Connects(p) == client[p] \in {"new", "attached", "unserved", "stranded"}

(* new_client_thread: for the first thread of a client process the daemon  *)
(* starts a worker.                                                        *)
NewClientThread(p, w) ==
  /\ Up /\ Connects(p) /\ nextId < MaxIds
  /\ nextId' = nextId + 1
  /\ IF Known(ReapedChildren, p) THEN children[p].worker = w
                                 ELSE ReapedWorkers[w] = NoWorker
  /\ children' = [ReapedChildren EXCEPT ![p] =
       IF @ = None THEN Child(w, {nextId}) ELSE Child(w, @.ids \cup {nextId})]
  /\ standbyWorker' = ReapedStandby
  /\ worker' = [ReapedWorkers EXCEPT ![w] =
       StartThread(IF @ = NoWorker THEN Spawned ELSE @)]
  /\ client' = [client EXCEPT ![p] = CASE @ = "new" -> "attached"
                                        [] @ = "unserved" -> "stranded"
                                        [] OTHER -> @]
  /\ UNCHANGED <<panic, snapshot, used, disk>>

NewClientThreadPanics(p) ==
  /\ Up /\ Connects(p) /\ Detached(ReapedChildren, p)
  /\ DaemonEnds("new client thread")

Serves(w, p) ==
  /\ client[p] = "attached" /\ Known(children, p) /\ children[p].worker = w
  /\ worker[w].proc = "running" /\ worker[w].thread = "run"

(* cuModuleLoadData, which registers the module once and makes it active,  *)
(* and cuModuleGetFunction.  The requests go over what is left of a        *)
(* snapshot in the rings.                                                  *)
LoadModule(p, w, m) ==
  /\ Up /\ Serves(w, p) /\ m \notin used[p]
  /\ used' = [used EXCEPT ![p] = @ \cup {m}]
  /\ worker' = [worker EXCEPT ![w].modules = @ \cup {m},
                              ![w].active = @ \cup {m},
                              ![w].resources = @ \cup {m}]
  /\ snapshot' = [snapshot EXCEPT ![p] = None]
  /\ UNCHANGED <<panic, daemonVars, client, disk>>

(* Any other request of a client whose rings are not locked, served or not *)
(* (as_buffer wants empty rings, and the header is overwritten).           *)
ClientWrites(p) ==
  /\ Up /\ client[p] \in {"attached", "unserved", "stranded"}
  /\ snapshot[p] # None
  /\ snapshot' = [snapshot EXCEPT ![p] = None]
  /\ UNCHANGED <<panic, daemonVars, worker, client, used, disk>>

(* The client process ends.  Its -1 ends the server thread, and the        *)
(* process if that thread is the main one.                                 *)
ClientExit(p) ==
  /\ Up /\ client[p] \in {"attached", "parked", "unserved", "stranded"}
  /\ client' = [client EXCEPT ![p] = "gone"]
  /\ worker' = [w \in Workers |->
       IF Serves(w, p)
       THEN [worker[w] EXCEPT !.thread = "dead",
               !.proc = IF worker[w].main = "running" THEN "zombie" ELSE @]
       ELSE worker[w]]
  /\ UNCHANGED <<panic, daemonVars, snapshot, used, disk>>

Referenced(w) ==
  \/ \E p \in Pids : Known(children, p) /\ children[p].worker = w
  \/ standbyWorker # None /\ standbyWorker.worker = w

(* server_process returns when its control channel is closed, and a worker *)
(* may crash.  The daemon drops the entry of its client, which is stranded *)
(* even if its snapshot was never read.                                    *)
WorkerEnds(w) ==
  /\ Up /\ worker[w].proc = "running"
  /\ Referenced(w) => Crashes
  /\ worker' = [worker EXCEPT ![w].proc = "zombie", ![w].thread = "dead"]
  /\ client' = [p \in Pids |->
       IF /\ client[p] \in {"attached", "parked", "unserved"}
          /\ Known(children, p) /\ children[p].worker = w
       THEN "stranded" ELSE client[p]]
  /\ UNCHANGED <<panic, daemonVars, snapshot, used, disk>>

-----------------------------------------------------------------------------
(* detach                                                                  *)

CanDetach(p) ==
  /\ Known(ReapedChildren, p) /\ ~Detached(ReapedChildren, p)
  /\ Cardinality(children[p].ids) = 1

(* dump_state and try_put_standby in a server thread that is running; one  *)
(* that has died takes no part in the checkpoint.                          *)
DetachedWorker(wk, p) ==
  IF wk.thread # "run" THEN wk
  ELSE [wk EXCEPT
          !.thread = "none", !.main = IF @ = "running" THEN "over" ELSE @,
          !.resources = {},
          !.cache = IF @ = None THEN None
                    ELSE [q \in DOMAIN @ \cup {p} |->
                            IF q = p THEN wk.resources ELSE @[q]]]

(* KernelManager::checkpoint gets the mutex and finds the image of every   *)
(* active module.                                                          *)
CanDump(wk) == ~wk.poisoned /\ wk.active \subseteq wk.modules

(* Only a server thread that is running dumps at a detach.                 *)
Dumpable(wk) == wk.thread = "run" => CanDump(wk)

(* Mutant: only the client just detached is advertised.                    *)
StandbyAfterDetach_OnlySelf(w, p) ==
  IF worker[w].cache = None THEN ReapedStandby
                            ELSE [worker |-> w, pids |-> {p}]

(* What the worker answers to Control::detach, get_client_pids, decides    *)
(* whether it becomes the standby worker; if not its control is dropped.   *)
StandbyAfterDetach(w, p) ==
  LET cached == DetachedWorker(worker[w], p).cache
  IN  IF cached = None THEN ReapedStandby
                       ELSE [worker |-> w, pids |-> DOMAIN cached]

Detach(p, w) ==
  /\ Up /\ CanDetach(p) /\ children[p].worker = w
  /\ Dumpable(worker[w])
  /\ worker[w].cache # None => ReapedStandby = None
  /\ children' = [ReapedChildren EXCEPT ![p].worker = None]
  /\ worker' = [ReapedWorkers EXCEPT ![w] = DetachedWorker(@, p)]
  /\ standbyWorker' = StandbyAfterDetach(w, p)
  /\ snapshot' = IF worker[w].thread = "run"
                 THEN [snapshot EXCEPT ![p] = [active |-> worker[w].active,
                                               handles |-> worker[w].resources]]
                 ELSE snapshot
  /\ client' = [client EXCEPT ![p] =
       IF @ = "attached" /\ worker[w].thread = "run" THEN "parked" ELSE @]
  /\ UNCHANGED <<panic, nextId, used, disk>>

(* The client is unknown, already detached or has several threads, or the  *)
(* checkpoint does not end in time.                                        *)
DetachFails(p) ==
  /\ Up
  /\ CanDetach(p) => ~Dumpable(worker[children[p].worker])
  /\ DaemonEnds("detach")

(* set_standby_worker: there is another standby worker by now.             *)
DetachFindsStandby(p) ==
  /\ Up /\ CanDetach(p) /\ Dumpable(worker[children[p].worker])
  /\ worker[children[p].worker].cache # None /\ ReapedStandby # None
  /\ DaemonEnds("detach: standby worker already exists")

-----------------------------------------------------------------------------
(* attach                                                                  *)

Warm(wk, p) == wk.cache # None /\ p \in DOMAIN wk.cache

(* begin_attach reads the snapshot, takes the modules to be there for a    *)
(* connection from the cache or restores them into an empty manager, and   *)
(* then clears WRITE_DISABLED: the client may write again.                 *)
Releases(wk, p) ==
  snapshot[p] # None /\ ~wk.poisoned /\ (Warm(wk, p) \/ wk.modules = {})

(* take_standby, which nothing undoes when the thread panics later.        *)
ThreadForAttach(wk, p) ==
  [StartThread(wk) EXCEPT !.cache =
     IF Warm(wk, p) THEN [q \in DOMAIN @ \ {p} |-> @[q]] ELSE @]

PanickedThread(wk) ==
  [wk EXCEPT !.thread = "dead", !.main = "over", !.resources = {}]

(* Handles kept with a connection are reused.  Otherwise those of the      *)
(* snapshot are made again; cu_module_get_function panics under the mutex  *)
(* if the module is not there, as restore does if the manager has modules. *)
AttachedWorker(wk, p) ==
  LET new    == ThreadForAttach(wk, p)
      kept   == IF Warm(wk, p) THEN wk.cache[p] ELSE {}
      loaded == IF Warm(wk, p) THEN wk.modules ELSE snapshot[p].active
      begun  == [new EXCEPT !.modules = loaded, !.active = snapshot[p].active]
  IN  IF ~Releases(wk, p)
        THEN [PanickedThread(new) EXCEPT !.poisoned = @ \/ snapshot[p] # None]
      ELSE IF kept # {}
        THEN [begun EXCEPT !.resources = kept]
      ELSE IF snapshot[p].handles \subseteq loaded
        THEN [begun EXCEPT !.resources = snapshot[p].handles]
      ELSE [PanickedThread(begun) EXCEPT !.poisoned = TRUE]

(* take_standby_worker comes before the children are reaped.               *)
TakesStandby(p) == standbyWorker # None /\ p \in standbyWorker.pids

CanAttach(p) ==
  /\ Detached(ReapedChildren, p)
  /\ TakesStandby(p) => standbyWorker.worker \notin Zombies

(* Mutant: the standby worker is looked at and not taken.                  *)
StandbyAfterTake_Keeps(p) == ReapedStandby

StandbyAfterTake(p) == IF TakesStandby(p) THEN None ELSE ReapedStandby

(* A client whose rings were not given back waits on as before.            *)
AttachedClient(wk, p) ==
  IF client[p] \notin {"parked", "unserved"} \/ ~Releases(wk, p) THEN client[p]
  ELSE IF AttachedWorker(wk, p).thread = "run" THEN "attached" ELSE "unserved"

Attach(p, w) ==
  /\ Up /\ CanAttach(p)
  /\ IF TakesStandby(p) THEN w = standbyWorker.worker
                        ELSE ReapedWorkers[w] = NoWorker
  /\ standbyWorker' = StandbyAfterTake(p)
  /\ children' = [ReapedChildren EXCEPT ![p].worker = w]
  /\ LET wk == IF ReapedWorkers[w] = NoWorker THEN Spawned ELSE ReapedWorkers[w]
     IN  /\ worker' = [ReapedWorkers EXCEPT ![w] = AttachedWorker(wk, p)]
         /\ client' = [client EXCEPT ![p] = AttachedClient(wk, p)]
  /\ UNCHANGED <<panic, nextId, snapshot, used, disk>>

AttachPanics(p) == Up /\ ~CanAttach(p) /\ DaemonEnds("attach")

-----------------------------------------------------------------------------
(* standby                                                                 *)

(* standby_request, and read_snapshot in the worker.                       *)
CanStandby(ps) ==
  standbyWorker = None /\ \A p \in ps : Detached(children, p) /\ snapshot[p] # None

StandbyOf(ps, w) == [worker |-> w, pids |-> ps]

(* A new worker that loads the modules of all the clients' snapshots.      *)
Standby(ps, w) ==
  /\ Up /\ CanStandby(ps)
  /\ worker[w] = NoWorker
  /\ worker' = [worker EXCEPT ![w] =
       [Spawned EXCEPT !.modules = UNION {snapshot[p].active : p \in ps},
                       !.cache = [p \in ps |-> {}]]]
  /\ standbyWorker' = StandbyOf(ps, w)
  /\ UNCHANGED <<panic, nextId, children, snapshot, client, used, disk>>

StandbyPanics(ps) == Up /\ ~CanStandby(ps) /\ DaemonEnds("standby")

-----------------------------------------------------------------------------
(* checkpoint_job and restore_job                                          *)

Controls == {p \in Pids : Known(children, p) /\ ~Detached(children, p)}

(* The clients whose server threads take part.                             *)
Dumped == {p \in Controls : worker[children[p].worker].thread = "run"}

(* criu is called by the main thread of each process, and nobody looks at  *)
(* its exit status: it kills the client or fails.  With mode Kill the      *)
(* server threads stop all the same, and a client that is still there is   *)
(* stranded.                                                               *)
CriuOutcome(p, mode) ==
  IF ~(p \in Dumped /\ client[p] = "attached") THEN {client[p]}
  ELSE {IF mode = "Kill" THEN "stranded" ELSE "attached"}
         \cup (IF worker[children[p].worker].main = "running" THEN {"killed"} ELSE {})

CriuOutcomes(mode) ==
  {c \in [Pids -> ClientType] : \A p \in Pids : c[p] \in CriuOutcome(p, mode)}

(* The handles of every running thread and the modules of its process.     *)
Image == [p \in Dumped |->
            [ids |-> children[p].ids, used |-> used[p],
             active |-> worker[children[p].worker].active,
             handles |-> worker[children[p].worker].resources]]

(* The directory has to be empty.  An image that lacks a client, or whose  *)
(* clients live on with their pids, is not kept.  The processes of stopped *)
(* threads stay.                                                           *)
CheckpointJob(mode) ==
  /\ Up /\ Controls # {} /\ disk = None
  /\ \A p \in Controls : LET wk == worker[children[p].worker]
                         IN  wk.proc = "running" /\ CanDump(wk)
  /\ client' \in CriuOutcomes(mode)
  /\ disk' = IF \A p \in Dumped : client[p] = "attached" /\ client'[p] = "killed"
             THEN Image ELSE None
  /\ worker' = [w \in Workers |->
       IF mode = "Kill" /\ \E p \in Dumped : children[p].worker = w
       THEN [worker[w] EXCEPT !.thread = "dead", !.main = "over"] ELSE worker[w]]
  /\ UNCHANGED <<panic, daemonVars, snapshot, used>>

(* The children are not reaped first: the call of a worker that has ended, *)
(* or that panics while it dumps, fails.                                   *)
CheckpointPanics ==
  /\ Up /\ \E p \in Controls : LET wk == worker[children[p].worker]
                               IN  wk.proc = "zombie" \/ ~CanDump(wk)
  /\ DaemonEnds("checkpoint")

(* The operator ends the daemon and starts a new one, or starts one after  *)
(* a panic.                                                                *)
Restart == DaemonEnds(None)

(* RestoreInfo::scan: the ids of the directories in the image.             *)
SavedIds == UNION {disk[p].ids : p \in DOMAIN disk}
MaxSavedId == CHOOSE i \in SavedIds : \A j \in SavedIds : j <= i

(* reserve_ids: the ids must be new to this daemon.  An image without ids  *)
(* has min_id > max_id.                                                    *)
CanReserve == SavedIds # {} /\ \A i \in SavedIds : nextId <= i

(* Mutants: the ids of the image are not reserved, or reserved twice.      *)
IdAfterRestore_Unchanged == nextId
IdAfterRestore_Twice == MaxSavedId + 1 + Cardinality(SavedIds)

IdAfterRestore == MaxSavedId + 1

(* A daemon that passes the assertion knows no client of the image, so a   *)
(* worker f[p] is started for each of them.  Nobody looks at the exit      *)
(* status of criu restore: the clients in back are there again.            *)
RestoreJob(f, back) ==
  /\ Up /\ disk # None /\ CanReserve
  /\ \A p \in DOMAIN disk : client[p] = "killed"
  /\ DOMAIN f = DOMAIN disk /\ back \subseteq DOMAIN disk
  /\ \A p, q \in DOMAIN f : ReapedWorkers[f[p]] = NoWorker /\ (f[p] = f[q] => p = q)
  /\ nextId' = IdAfterRestore
  /\ children' = [p \in Pids |->
       IF p \in DOMAIN f THEN Child(f[p], disk[p].ids) ELSE ReapedChildren[p]]
  /\ standbyWorker' = ReapedStandby
  /\ worker' = [w \in Workers |->
       IF \E p \in DOMAIN f : f[p] = w
       THEN LET p == CHOOSE p \in DOMAIN f : f[p] = w
            IN  [StartThread(Spawned) EXCEPT !.modules = disk[p].active,
                   !.active = disk[p].active, !.resources = disk[p].handles]
       ELSE ReapedWorkers[w]]
  /\ client' = [p \in Pids |-> IF p \in back THEN "attached" ELSE client[p]]
  /\ used' = [p \in Pids |-> IF p \in DOMAIN f THEN disk[p].used ELSE used[p]]
  /\ disk' = IF back = {} THEN disk ELSE None
  /\ UNCHANGED <<panic, snapshot>>

RestorePanics == Up /\ disk # None /\ ~CanReserve /\ DaemonEnds("restore")

-----------------------------------------------------------------------------
Next ==
  \/ ReapChildren \/ Restart \/ CheckpointPanics \/ RestorePanics
  \/ \E p \in Pids :
       \/ ClientExit(p) \/ ClientWrites(p)
       \/ NewClientThreadPanics(p) \/ AttachPanics(p)
       \/ DetachFails(p) \/ DetachFindsStandby(p)
       \/ \E w \in Workers :
            \/ NewClientThread(p, w) \/ Detach(p, w) \/ Attach(p, w)
            \/ \E m \in Modules : LoadModule(p, w, m)
  \/ \E w \in Workers : WorkerEnds(w)
  \/ \E ps \in SUBSET Pids \ {{}} :
       StandbyPanics(ps) \/ \E w \in Workers : Standby(ps, w)
  \/ \E mode \in {"Kill", "LeaveRunning"} : CheckpointJob(mode)
  \/ disk # None /\ \E f \in [DOMAIN disk -> Workers], back \in SUBSET DOMAIN disk :
       RestoreJob(f, back)

Spec == Init /\ [][Next]_vars

-----------------------------------------------------------------------------
(* Properties                                                              *)

(* Every variable has its type.                                            *)
TypeOK ==
  /\ nextId \in 0..MaxIds
  /\ children \in [Pids -> {None} \cup ChildType]
  /\ standbyWorker \in {None} \cup StandbyType
  /\ worker \in [Workers -> WorkerType]
  /\ snapshot \in [Pids -> {None} \cup SnapshotType]
  /\ client \in [Pids -> ClientType]
  /\ used \in [Pids -> SUBSET Modules]
  /\ disk \in {None} \cup DiskType

(* Thread ids name the shared memory of a client, so no two clients of a   *)
(* daemon ever have the same one: not across detach and attach, and not    *)
(* when an image with ids of its own is restored.                          *)
UniqueIds ==
  \A p \in Pids : Known(children, p) =>
    /\ \A i \in children[p].ids : i < nextId
    /\ \A q \in Pids \ {p} :
         Known(children, q) => children[p].ids \cap children[q].ids = {}

(* A worker belongs to one client, or is the standby worker, never both:   *)
(* its single kernel and memory manager hold the state of one client.      *)
OneOwner ==
  /\ \A p, q \in Pids :
       Known(children, p) /\ Known(children, q) /\ p # q /\ children[p].worker # None
         => children[p].worker # children[q].worker
  /\ standbyWorker # None =>
       \A p \in Pids : Known(children, p) => children[p].worker # standbyWorker.worker

(* What the daemon believes of the standby worker is what the worker has:  *)
(* an attach that is sent there finds its connection in the cache.         *)
StandbyAdvertised ==
  standbyWorker # None =>
    LET wk == worker[standbyWorker.worker]
    IN  /\ wk.cache # None /\ DOMAIN wk.cache = standbyWorker.pids
        /\ wk.thread # "run"

(* A parked client can be brought back: the daemon keeps its entry,        *)
(* whatever workers are reaped and whatever attaches fail before they read *)
(* its snapshot, with the one id its rings are named after; the entry is   *)
(* detached, or a detach makes it so, since the server thread is dead; and *)
(* the snapshot has every kernel module the client has loaded.  An attach  *)
(* that fails after it gave the rings back leaves the client unserved, and *)
(* no snapshot is promised then.                                           *)
ParkedKept ==
  \A p \in Pids : client[p] = "parked" =>
    /\ Known(children, p) /\ Cardinality(children[p].ids) = 1
    /\ children[p].worker # None =>
         /\ worker[children[p].worker].proc = "running"
         /\ worker[children[p].worker].thread = "dead"
    /\ snapshot[p] # None /\ used[p] \subseteq snapshot[p].active

(* What the guide says of attach, that it brings a worker back and the     *)
(* engine can serve again: after an attach, the worker of a client has     *)
(* every handle the client holds.                                          *)
AttachServes ==
  \A p \in Pids :
    client[p] \in {"attached", "unserved"} /\ snapshot[p] # None /\ Known(children, p)
      /\ children[p].worker # None /\ worker[children[p].worker].proc = "running"
      => /\ worker[children[p].worker].thread = "run"
         /\ used[p] \subseteq worker[children[p].worker].resources
=============================================================================

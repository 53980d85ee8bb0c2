--------------------------- MODULE KernelManager ---------------------------
(***************************************************************************)
(* The kernel modules of worker processes (server/src/phos/kernel.rs), and *)
(* what becomes of them when a client is checkpointed, parked and brought  *)
(* back, to a new process or to the standby worker.                        *)
(*                                                                         *)
(* A client names a module by the hash of its image and keeps using that   *)
(* name in every later process.  A module has one function here; the       *)
(* driver loads a module lazily, when its function is first asked for.     *)
(* Which worker an attach goes to is the daemon's rule (see Daemon); calls *)
(* of one process run under the KERNEL_MANAGER mutex, and each is one      *)
(* action.  A call that the driver refuses changes nothing.                *)
(***************************************************************************)
EXTENDS Integers, Sequences, FiniteSets, Functions, SequencesExt

CONSTANTS Clients, Workers,
          Images,      \* module images, which stand for their hashes
          MaxLoads,    \* bound: cuModuleLoadData calls per client
          None

(* What KernelManager::checkpoint writes and the handles beside it; the    *)
(* connections of a standby cache, by client, with the handles they keep.  *)
SavedType == [active : BoundedSeq(Images, MaxLoads), functions : SUBSET Images,
              modules : SUBSET Images, handles : SUBSET Images]
CacheType == UNION {[cs -> SUBSET Images] : cs \in SUBSET Clients}

(* None stands for the absence of a value, and is none.                    *)
ASSUME KernelAssumption ==
  /\ IsFiniteSet(Clients) /\ IsFiniteSet(Workers) /\ IsFiniteSet(Images)
  /\ MaxLoads \in Nat
  /\ None \notin Clients \cup Workers \cup SavedType \cup CacheType

VARIABLES
  worker,          \* the worker processes
  standbyWorker,   \* the worker the daemon has in standby
  client,          \* where each client is
  mods, fns,       \* the modules and the functions it holds
  saved,           \* its snapshot, or its checkpoint on disk
  cached,          \* workers whose cache entry is as new as the snapshot
  outdated         \* clients attached through an older entry

clientVars == <<mods, fns>>
vars == <<worker, standbyWorker, client, mods, fns, saved, cached,
          outdated>>

(* all, active, functions: KernelManager.  loaded: modules the driver has  *)
(* really loaded.  handles: the function handles of the server thread.     *)
(* cache: per client, the handles kept with its connection.  reused: were  *)
(* such handles reused by the last attach.                                 *)
NoWorker == [proc |-> "none", serves |-> None, cache |-> None,
             all |-> {}, active |-> <<>>, functions |-> {},
             loaded |-> {}, handles |-> {}, reused |-> FALSE]
Spawned == [NoWorker EXCEPT !.proc = "running"]

WorkerType ==
  [proc : {"none", "running", "dead"}, serves : Clients \cup {None},
   cache : CacheType \cup {None},
   all : SUBSET Images, active : BoundedSeq(Images, MaxLoads),
   functions : SUBSET Images, loaded : SUBSET Images,
   handles : SUBSET Images, reused : BOOLEAN]

Unused(w) == worker[w] = NoWorker
Serving(w, c) == worker[w].proc = "running" /\ worker[w].serves = c

Init ==
  /\ worker = [w \in Workers |-> NoWorker]
  /\ standbyWorker = None
  /\ client = [c \in Clients |-> "new"]
  /\ mods = [c \in Clients |-> {}] /\ fns = [c \in Clients |-> {}]
  /\ saved = [c \in Clients |-> None]
  /\ cached = [c \in Clients |-> {}] /\ outdated = {}

-----------------------------------------------------------------------------
(* KernelManager                                                           *)

(* Mutant: a module that another client has brought is not made active.    *)
LoadedModule_OnlyNew(wk, i) ==
  IF i \in wk.all THEN wk
  ELSE [wk EXCEPT !.all = @ \cup {i}, !.active = Append(@, i)]

(* load_module: registered once, active once per call.                     *)
LoadedModule(wk, i) ==
  [wk EXCEPT !.all = @ \cup {i}, !.active = Append(@, i)]

(* cu_module_get_function for every function of fs, whose modules are in   *)
(* all_modules; the server thread keeps a handle.                          *)
WithFunctions(wk, fs) ==
  [wk EXCEPT !.functions = @ \cup fs, !.loaded = @ \cup fs, !.handles = @ \cup fs]

(* Mutant: only the modules that have been used are written.               *)
Checkpoint_OnlyUsed(wk) ==
  [active |-> wk.active, functions |-> wk.functions,
   modules |-> ToSet(wk.active) \cap wk.loaded, handles |-> wk.handles]

(* checkpoint, and the handles that are saved with it.                     *)
Checkpoint(wk) ==
  [active |-> wk.active, functions |-> wk.functions,
   modules |-> ToSet(wk.active), handles |-> wk.handles]

(* The image of every active module is looked up in all_modules.           *)
Dumpable(wk) == ToSet(wk.active) \subseteq wk.all

(* restore, into an empty manager.                                         *)
Restored(wk, s) ==
  [wk EXCEPT !.all = s.modules, !.active = s.active, !.functions = {}]

(* Mutant: the modules are registered and none of them is loaded.          *)
StandbyLoaded_NoTrigger(wk, order) ==
  [wk EXCEPT !.all = @ \cup UNION {saved[order[i]].modules : i \in DOMAIN order}]

(* standby, for the snapshots of the clients in order: register_modules,   *)
(* then trigger_module_loads, which passes over a function whose module is *)
(* not registered by then.                                                 *)
StandbyLoaded(wk, order) ==
  LET registered(i) == wk.all \cup UNION {saved[order[j]].modules : j \in 1..i}
  IN  [wk EXCEPT !.all = registered(Len(order)),
                 !.loaded = @ \cup UNION {saved[order[i]].functions \cap registered(i) :
                                           i \in DOMAIN order}]

(* Mutant: the functions of the last client stay.                          *)
AttachedWarm_KeepsFunctions(wk, s) == [wk EXCEPT !.active = s.active]

(* attach_warm: the modules are taken to be there.                         *)
AttachedWarm(wk, s) == [wk EXCEPT !.active = s.active, !.functions = {}]

(* A server thread dies of a failed unwrap; its client is stranded.        *)
Dead(wk) == [wk EXCEPT !.proc = "dead"]

(* The saved handles are replayed through the same handler as the client's *)
(* calls.                                                                  *)
Replayed(wk, s) ==
  IF s.handles \subseteq wk.all THEN WithFunctions(wk, s.handles) ELSE Dead(wk)

-----------------------------------------------------------------------------
(* Calls of clients                                                        *)

Create(c, w) ==
  /\ client[c] = "new" /\ Unused(w)
  /\ worker' = [worker EXCEPT ![w] = [Spawned EXCEPT !.serves = c]]
  /\ client' = [client EXCEPT ![c] = "attached"]
  /\ UNCHANGED <<standbyWorker, clientVars, saved, cached, outdated>>

LoadModule(c, w, i) ==
  /\ Serving(w, c) /\ Len(worker[w].active) < MaxLoads
  /\ worker' = [worker EXCEPT ![w] = LoadedModule(@, i)]
  /\ mods' = [mods EXCEPT ![c] = @ \cup {i}]
  /\ UNCHANGED <<standbyWorker, client, fns, saved, cached, outdated>>

GetFunction(c, w, i) ==
  /\ Serving(w, c) /\ i \in mods[c] \ fns[c]
  /\ IF i \in worker[w].all
     THEN /\ worker' = [worker EXCEPT ![w] = WithFunctions(@, {i})]
          /\ fns' = [fns EXCEPT ![c] = @ \cup {i}]
     ELSE worker' = [worker EXCEPT ![w] = Dead(@)] /\ fns' = fns
  /\ UNCHANGED <<standbyWorker, client, mods, saved, cached, outdated>>

-----------------------------------------------------------------------------
(* Checkpoint and restore of a process                                     *)

(* The image goes to disk and the server threads stop; nothing is sent to  *)
(* the process any more, whatever its cache holds.                         *)
CheckpointProcess(c, w) ==
  /\ Serving(w, c) /\ Dumpable(worker[w])
  /\ saved' = [saved EXCEPT ![c] = Checkpoint(worker[w])]
  /\ worker' = [worker EXCEPT ![w] = NoWorker]
  /\ client' = [client EXCEPT ![c] = "onDisk"]
  /\ cached' = [d \in Clients |-> IF d = c THEN {} ELSE cached[d] \ {w}]
  /\ UNCHANGED <<standbyWorker, clientVars, outdated>>

RestoreProcess(c, w) ==
  /\ client[c] = "onDisk" /\ Unused(w)
  /\ worker' = [worker EXCEPT ![w] =
       Replayed(Restored([Spawned EXCEPT !.serves = c], saved[c]), saved[c])]
  /\ client' = [client EXCEPT ![c] = "attached"]
  /\ UNCHANGED <<standbyWorker, clientVars, saved, cached, outdated>>

-----------------------------------------------------------------------------
(* Detach, standby and attach                                              *)

(* dump_state and try_put_standby; a worker without a cache ends.          *)
Detach(c, w) ==
  LET wk == worker[w]
  IN  /\ Serving(w, c) /\ Dumpable(wk)
      /\ wk.cache # None => standbyWorker = None
      /\ saved' = [saved EXCEPT ![c] = Checkpoint(wk)]
      /\ client' = [client EXCEPT ![c] = "parked"]
      /\ IF wk.cache = None
         THEN /\ worker' = [worker EXCEPT ![w] = NoWorker]
              /\ cached' = [cached EXCEPT ![c] = {}]
              /\ standbyWorker' = standbyWorker
         ELSE /\ worker' = [worker EXCEPT ![w] =
                   [wk EXCEPT !.serves = None, !.handles = {},
                      !.reused = FALSE,
                      !.cache = [d \in DOMAIN @ \cup {c} |->
                                   IF d = c THEN wk.handles ELSE @[d]]]]
              /\ cached' = [cached EXCEPT ![c] = {w}]
              /\ standbyWorker' = w
      /\ UNCHANGED <<clientVars, outdated>>

(* An unwrap fails while the image is written.                             *)
DumpPanics(c, w) ==
  /\ Serving(w, c) /\ ~Dumpable(worker[w])
  /\ worker' = [worker EXCEPT ![w] = Dead(@)]
  /\ UNCHANGED <<standbyWorker, client, clientVars, saved, cached, outdated>>

(* standby: one snapshot after the other into a new process, for clients   *)
(* that the command names once each.                                       *)
Standby(order, w) ==
  LET cs == ToSet(order)
  IN  /\ standbyWorker = None /\ Unused(w)
      /\ \A c \in cs : client[c] = "parked"
      /\ worker' = [worker EXCEPT ![w] =
           StandbyLoaded([Spawned EXCEPT !.cache = [c \in cs |-> {}]], order)]
      /\ cached' = [c \in Clients |-> IF c \in cs THEN cached[c] \cup {w} ELSE cached[c]]
      /\ standbyWorker' = w
      /\ UNCHANGED <<client, clientVars, saved, outdated>>

TakesStandby(c) == standbyWorker # None /\ c \in DOMAIN worker[standbyWorker].cache

(* begin_attach with a connection from the cache: kept handles are not     *)
(* replayed.                                                               *)
AttachStandby(c, w) ==
  LET kept == worker[w].cache[c]
      warm == [AttachedWarm(worker[w], saved[c]) EXCEPT
                 !.serves = c, !.handles = kept,
                 !.reused = kept # {},
                 !.cache = [d \in DOMAIN @ \ {c} |-> @[d]]]
  IN  /\ client[c] = "parked" /\ TakesStandby(c) /\ w = standbyWorker
      /\ worker' = [worker EXCEPT ![w] =
                      IF kept = {} THEN Replayed(warm, saved[c]) ELSE warm]
      /\ client' = [client EXCEPT ![c] = "attached"]
      /\ cached' = [cached EXCEPT ![c] = {}]
      /\ outdated' = IF w \in cached[c] THEN outdated ELSE outdated \cup {c}
      /\ standbyWorker' = None
      /\ UNCHANGED <<clientVars, saved>>

AttachCold(c, w) ==
  /\ client[c] = "parked" /\ ~TakesStandby(c) /\ Unused(w)
  /\ worker' = [worker EXCEPT ![w] =
       Replayed(Restored([Spawned EXCEPT !.serves = c], saved[c]), saved[c])]
  /\ client' = [client EXCEPT ![c] = "attached"]
  /\ cached' = [cached EXCEPT ![c] = {}]
  /\ UNCHANGED <<standbyWorker, clientVars, saved, outdated>>

(* The standby worker ends and is reaped.                                  *)
StandbyEnds ==
  /\ standbyWorker # None
  /\ worker' = [worker EXCEPT ![standbyWorker] = NoWorker]
  /\ cached' = [c \in Clients |-> cached[c] \ {standbyWorker}]
  /\ standbyWorker' = None
  /\ UNCHANGED <<client, clientVars, saved, outdated>>

-----------------------------------------------------------------------------
Next ==
  \/ \E c \in Clients, w \in Workers :
       \/ Create(c, w)
       \/ \E i \in Images : LoadModule(c, w, i) \/ GetFunction(c, w, i)
       \/ CheckpointProcess(c, w) \/ RestoreProcess(c, w)
       \/ Detach(c, w) \/ DumpPanics(c, w)
       \/ AttachStandby(c, w) \/ AttachCold(c, w)
  \/ \E n \in 1..Cardinality(Clients) :
       \E order \in Injection(1..n, Clients), w \in Workers : Standby(order, w)
  \/ StandbyEnds

Spec == Init /\ [][Next]_vars

-----------------------------------------------------------------------------
(* Properties                                                              *)

(* Every variable has its type, and an image has the modules it calls      *)
(* active.                                                                 *)
TypeOK ==
  /\ worker \in [Workers -> WorkerType]
  /\ standbyWorker \in Workers \cup {None}
  /\ client \in [Clients -> {"new", "attached", "parked", "onDisk"}]
  /\ mods \in [Clients -> SUBSET Images] /\ fns \in [Clients -> SUBSET Images]
  /\ saved \in [Clients -> SavedType \cup {None}]
  /\ cached \in [Clients -> SUBSET Workers] /\ outdated \subseteq Clients
  /\ \A c \in Clients : saved[c] # None =>
       ToSet(saved[c].active) \subseteq saved[c].modules

(* No unwrap of the kernel manager fails: the modules of a client are in   *)
(* all_modules of the process that serves it, through any sequence of      *)
(* checkpoints, parking and standby workers shared with other clients; and *)
(* what will be saved is what the client has.  The exception is a client   *)
(* that was once attached through a cache entry older than its snapshot.   *)
ModulesResolve ==
  \A w \in Workers, c \in Clients :
    worker[w].serves = c /\ c \notin outdated =>
      /\ worker[w].proc = "running"
      /\ mods[c] \subseteq worker[w].all
      /\ ToSet(worker[w].active) = mods[c]
      /\ fns[c] \subseteq worker[w].loaded

(* A saved image lists the functions of its own client and of no other     *)
(* that the process has served, so that standby can load them in advance.  *)
(* Those are all it holds, unless a warm attach has reused kept handles:   *)
(* then functions was cleared and nothing was replayed.                    *)
FunctionsTracked ==
  \A w \in Workers, c \in Clients :
    Serving(w, c) /\ c \notin outdated =>
      /\ worker[w].functions \subseteq fns[c]
      /\ ~worker[w].reused => worker[w].functions = fns[c]

(* What standby is for: the standby worker has really loaded the modules   *)
(* of every client it can take over, whichever it has served in between,   *)
(* as far as their snapshots list the functions.                           *)
StandbyWarm ==
  \A w \in Workers, c \in Clients :
    w \in cached[c] /\ saved[c].functions = fns[c] => fns[c] \subseteq worker[w].loaded
=============================================================================

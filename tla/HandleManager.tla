--------------------------- MODULE HandleManager ---------------------------
(***************************************************************************)
(* The CUDA library handles of a client (server/src/phos/handle.rs and the *)
(* handlers generated by codegen).  A client names a handle by a proxy of  *)
(* its own and never learns the real one.  The server thread records the   *)
(* calls that made and configured each live handle; a checkpoint or detach *)
(* saves them in the order of their timestamps, and a restore or attach    *)
(* feeds them to the same handlers.                                        *)
(*                                                                         *)
(* Three kinds of handles stand for all: streams, which no hook destroys;  *)
(* handles with keyed calls (cuBLAS, events, functions), of which only the *)
(* last call per key is kept; descriptors, of which every call is kept.  A *)
(* call is one action, since requests reach the server in order.           *)
(*                                                                         *)
(* A worker with a standby cache keeps the handles of a client that        *)
(* detaches from it, also while the client is elsewhere and makes other    *)
(* handles there.                                                          *)
(***************************************************************************)
EXTENDS Integers, Sequences, FiniteSets

CONSTANTS Values,     \* arguments of configuring calls
          MaxProxy,   \* bound: handles a client creates
          MaxCalls,   \* bound: recorded calls per worker process
          MaxKept,    \* bound: standby workers the client detaches from
          MaxPair     \* bound: calls until it makes no more, in its worker
                      \* process and one that keeps a connection together

ASSUME HandleAssumption ==
  /\ Values \subseteq Nat \ {0}
  /\ MaxProxy \in Nat /\ MaxCalls \in Nat /\ MaxKept \in Nat /\ MaxPair \in Nat

VARIABLES
  nextProxy, view,       \* client: VALUE; what it has made of its handles
  resources,             \* the server thread's HandleManager
  clock, gpu, standby,   \* of the worker process: TIMESTAMP, real handles,
                         \* whether it has a standby cache
  phase, log,            \* of the server thread; calls still to be replayed
  image,                 \* the last checkpoint or snapshot
  kept,                  \* the client's connections in standby caches
  outdated               \* history: the handles are those of an outdated one

clientVars == <<nextProxy, view>>
workerVars == <<resources, clock, gpu, standby>>
vars == <<clientVars, workerVars, phase, log, image, kept, outdated>>

Null == 0          \* the null handle, and what an attribute is by default
Unkeyed == "unkeyed"

(* The calls that configure a handle, and whether they have an op_key.     *)
Kinds == {"stream", "blas", "desc"}
Ops(kind) == CASE kind = "stream" -> {}
               [] kind = "blas"   -> {"SetStream", "SetWorkspace"}
               [] kind = "desc"   -> {"Set"}
OpKey(kind, op) == IF kind = "blas" THEN op ELSE Unkeyed

(* What the libraries do: a call sets its attribute, and cublasSetStream   *)
(* also resets the workspace.                                              *)
NewObject(kind) == [kind |-> kind, attrs |-> [op \in Ops(kind) |-> Null]]
Configured(obj, op, v) ==
  [obj EXCEPT !.attrs =
     [o \in DOMAIN @ |-> CASE o = op -> v
                           [] o = "SetWorkspace" /\ op = "SetStream" -> Null
                           [] OTHER -> @[o]]]

With(f, x, e) == [y \in DOMAIN f \cup {x} |-> IF y = x THEN e ELSE f[y]]
Without(f, x) == [y \in DOMAIN f \ {x} |-> f[y]]

NoImage == [where |-> "none", log |-> <<>>, view |-> <<>>, nextProxy |-> 1,
            outdated |-> FALSE]

Init ==
  /\ nextProxy = 1 /\ view = <<>>
  /\ resources = <<>> /\ clock = 1 /\ gpu = <<>> /\ standby = FALSE
  /\ phase = "serving" /\ log = <<>> /\ image = NoImage
  /\ kept = {} /\ outdated = FALSE

-----------------------------------------------------------------------------
(* The manager                                                             *)

(* Mutant: a keyed call takes the place of the earlier one in the order.   *)
PayloadsInsert_InPlace(payloads, x) ==
  LET old == {y \in payloads : y.key = x.key}
  IN  IF x.key = Unkeyed \/ old = {} THEN payloads \cup {x}
      ELSE (payloads \ old) \cup {[x EXCEPT !.timestamp = y.timestamp] : y \in old}

PayloadsInsert(payloads, x) ==
  IF x.key = Unkeyed THEN payloads \cup {x}
                     ELSE {y \in payloads : y.key # x.key} \cup {x}

(* get_inner: the null handle needs no proxy.                              *)
KnownHandle(proxy) == proxy \in {Null} \cup DOMAIN resources
RealHandle(proxy) == IF proxy = Null THEN Null ELSE resources[proxy].value

(* The handler of c finds the handles that c names and does not panic.     *)
Executable(c) ==
  c.op # "create" =>
    KnownHandle(c.proxy) /\ (c.op = "SetStream" => KnownHandle(c.arg))

Payload(c) ==
  [timestamp |-> clock, key |-> OpKey(c.kind, c.op), call |-> c]

(* The calls of payloads, sorted by a key that is different for each.      *)
SortedBy(payloads, key) ==
  [i \in 1..Cardinality(payloads) |->
     (CHOOSE x \in payloads :
        Cardinality({y \in payloads : key[y] < key[x]}) = i - 1).call]

Recorded(handles) == UNION {handles[p].payloads : p \in DOMAIN handles}

(* Mutant: in the order of the proxies.                                    *)
Serialize_ByProxy(handles) ==
  LET payloads == Recorded(handles)
  IN  SortedBy(payloads,
        [x \in payloads |-> x.call.proxy * (MaxCalls + 1) + x.timestamp])

(* serialize: the recorded calls of all live handles, by timestamp.        *)
Serialize(handles) ==
  LET payloads == Recorded(handles)
  IN  SortedBy(payloads, [x \in payloads |-> x.timestamp])

-----------------------------------------------------------------------------
(* The generated handler of a call that creates or modifies a handle,      *)
(* called by the client or by a replay                                     *)

FreshHandle == CHOOSE n \in 1..(Cardinality(DOMAIN gpu) + 1) :
                 n \notin DOMAIN gpu /\ 1..(n - 1) \subseteq DOMAIN gpu

ExeCreate(c) ==
  /\ resources' = With(resources, c.proxy,
       [value |-> FreshHandle, payloads |-> {Payload(c)}])
  /\ gpu' = With(gpu, FreshHandle, NewObject(c.kind))
  /\ clock' = clock + 1

(* The call is recorded whether the library accepts it or not.             *)
ExeModify(c) ==
  LET arg == IF c.op = "SetStream" THEN RealHandle(c.arg) ELSE c.arg
  IN  /\ resources' = [resources EXCEPT ![c.proxy].payloads =
                         PayloadsInsert(@, Payload(c))]
      /\ gpu' = IF c.ok THEN [gpu EXCEPT ![RealHandle(c.proxy)] =
                                Configured(@, c.op, arg)]
                        ELSE gpu
      /\ clock' = clock + 1

-----------------------------------------------------------------------------
(* Calls of the client                                                     *)

Call(op, kind, proxy, arg, ok) ==
  [op |-> op, kind |-> kind, proxy |-> proxy, arg |-> arg, ok |-> ok]

MayCall == /\ phase = "serving" /\ clock <= MaxCalls
           /\ \A k \in kept : k.clock + clock <= MaxPair

(* next_handle names the new handle before the server has seen the call.   *)
Create(kind) ==
  /\ MayCall /\ nextProxy <= MaxProxy
  /\ ExeCreate(Call("create", kind, nextProxy, Null, TRUE))
  /\ nextProxy' = nextProxy + 1
  /\ view' = With(view, nextProxy, NewObject(kind))
  /\ UNCHANGED <<standby, phase, log, image, kept, outdated>>

ArgsOf(op) ==
  IF op = "SetStream" THEN {Null} \cup {s \in DOMAIN view : view[s].kind = "stream"}
                      ELSE Values

Modify(p, op, arg, ok) ==
  /\ MayCall
  /\ Executable(Call(op, view[p].kind, p, arg, ok))
  /\ ExeModify(Call(op, view[p].kind, p, arg, ok))
  /\ view' = IF ok THEN [view EXCEPT ![p] = Configured(@, op, arg)] ELSE view
  /\ UNCHANGED <<nextProxy, standby, phase, log, image, kept, outdated>>

(* Mutant: the real handle is destroyed and the entry stays.               *)
Destroy_KeepsEntry(p) ==
  /\ phase = "serving" /\ view[p].kind # "stream" /\ KnownHandle(p)
  /\ gpu' = Without(gpu, RealHandle(p))
  /\ view' = Without(view, p)
  /\ UNCHANGED <<resources, nextProxy, clock, standby, phase, log, image, kept,
                 outdated>>

(* get with is_destroy: the entry goes, with everything recorded about it. *)
Destroy(p) ==
  /\ phase = "serving" /\ view[p].kind # "stream" /\ KnownHandle(p)
  /\ gpu' = Without(gpu, RealHandle(p))
  /\ resources' = Without(resources, p)
  /\ view' = Without(view, p)
  /\ UNCHANGED <<nextProxy, clock, standby, phase, log, image, kept, outdated>>

-----------------------------------------------------------------------------
(* Checkpoint, detach and the way back                                     *)

Saved(where) == [where |-> where, log |-> Serialize(resources), view |-> view,
                 nextProxy |-> nextProxy, outdated |-> outdated]

(* What a process that has not served the client yet starts with, and what *)
(* is left of one that is not the client's any more.                       *)
NewProcess(cache) ==
  resources' = <<>> /\ clock' = 1 /\ gpu' = <<>> /\ standby' = cache

(* Nobody serves the client: only an image on disk brings it back, with    *)
(* another daemon, whose workers keep nothing of it.                       *)
Stopped == phase' = "stopped" /\ kept' = {} /\ NewProcess(FALSE)

(* get_inner panics on a handle that the server thread does not have.      *)
CallPanics(p) ==
  /\ phase = "serving"
  /\ \/ ~KnownHandle(p)
     \/ "SetStream" \in Ops(view[p].kind) /\ ~(ArgsOf("SetStream") \subseteq
                                               {Null} \cup DOMAIN resources)
  /\ Stopped
  /\ UNCHANGED <<clientVars, log, image, outdated>>

(* dump_handles; the client's own state is in the image that criu makes.   *)
Checkpoint(mode) ==
  /\ phase = "serving"
  /\ image' = Saved("disk")
  /\ \/ mode = "Kill" /\ Stopped
     \/ mode = "LeaveRunning" /\ UNCHANGED <<phase, workerVars, kept>>
  /\ UNCHANGED <<clientVars, log, outdated>>

(* The entry that try_put_standby makes: the handles go out of the thread, *)
(* the process stays.  view and outdated say what the client had then.     *)
Connection == [handles |-> resources, clock |-> clock, gpu |-> gpu,
               view |-> view, outdated |-> outdated]

(* dump_state and, in a worker with a standby cache, try_put_standby.      *)
Detach ==
  /\ phase = "serving"
  /\ image' = Saved("snapshot")
  /\ kept' = IF standby THEN kept \cup {Connection} ELSE kept
  /\ phase' = "detached" /\ NewProcess(FALSE)
  /\ UNCHANGED <<clientVars, log, outdated>>

(* begin_handle_restore in a new worker of another daemon, for the client  *)
(* that criu brings back.                                                  *)
RestoreDisk ==
  /\ phase \in {"serving", "stopped"} /\ image.where = "disk"
  /\ NewProcess(FALSE) /\ kept' = {}
  /\ nextProxy' = image.nextProxy /\ view' = image.view
  /\ log' = image.log /\ phase' = "replaying" /\ outdated' = image.outdated
  /\ UNCHANGED image

(* begin_attach in a worker that has none of the client's handles: a new   *)
(* one, or one that was made standby for the parked client.  The rings are *)
(* the client's again.  Standby workers that have served it before keep    *)
(* what they have of it.                                                   *)
AttachCold(cache) ==
  /\ phase = "detached" /\ (cache => Cardinality(kept) < MaxKept)
  /\ NewProcess(cache)
  /\ log' = image.log /\ image' = NoImage /\ phase' = "replaying"
  /\ UNCHANGED <<clientVars, kept, outdated>>

(* Mutant: kept handles do not keep the snapshot from being replayed.      *)
HandlesToReplay_Always(handles) == image.log

HandlesToReplay(handles) == IF DOMAIN handles = {} THEN image.log ELSE <<>>

(* begin_attach with a connection from a standby cache.  Nobody looks how  *)
(* old it is.                                                              *)
AttachWarm(k) ==
  /\ phase = "detached"
  /\ k.clock + Len(HandlesToReplay(k.handles)) <= MaxCalls + 1
  /\ resources' = k.handles /\ clock' = k.clock /\ gpu' = k.gpu /\ standby' = TRUE
  /\ kept' = kept \ {k}
  /\ log' = HandlesToReplay(k.handles) /\ phase' = "replaying"
  /\ outdated' = IF DOMAIN k.handles = {} THEN outdated
                 ELSE k.outdated \/ k.view # view
  /\ image' = NoImage
  /\ UNCHANGED clientVars

(* One request out of the RestoreVec; results go into the BlackHole.       *)
ReplayCall ==
  /\ phase = "replaying" /\ log # <<>>
  /\ Executable(Head(log))
  /\ IF Head(log).op = "create" THEN ExeCreate(Head(log)) ELSE ExeModify(Head(log))
  /\ log' = Tail(log)
  /\ UNCHANGED <<clientVars, standby, phase, image, kept, outdated>>

RestoreEof ==
  /\ phase = "replaying" /\ log = <<>>
  /\ phase' = "serving"
  /\ UNCHANGED <<clientVars, workerVars, log, image, kept, outdated>>

-----------------------------------------------------------------------------
Next ==
  \/ \E kind \in Kinds : Create(kind)
  \/ \E p \in DOMAIN view :
       \/ Destroy(p) \/ CallPanics(p)
       \/ \E op \in Ops(view[p].kind) : \E arg \in ArgsOf(op), ok \in BOOLEAN :
            Modify(p, op, arg, ok)
  \/ \E mode \in {"Kill", "LeaveRunning"} : Checkpoint(mode)
  \/ \E cache \in BOOLEAN : AttachCold(cache)
  \/ \E k \in kept : AttachWarm(k)
  \/ Detach \/ RestoreDisk \/ ReplayCall \/ RestoreEof

Spec == Init /\ [][Next]_vars

-----------------------------------------------------------------------------
(* Properties                                                              *)

(* Every variable has its type, and every entry names a real handle.       *)
TypeOK ==
  /\ nextProxy \in 1..(MaxProxy + 1) /\ clock \in 1..(MaxCalls + 1)
  /\ DOMAIN view \subseteq 1..MaxProxy
  /\ \A p \in DOMAIN resources :
       /\ resources[p].value \in DOMAIN gpu
       /\ \A x \in resources[p].payloads : x.timestamp \in 1..(clock - 1)
  /\ phase \in {"serving", "stopped", "detached", "replaying"}
  /\ standby \in BOOLEAN /\ outdated \in BOOLEAN
  /\ image.where \in {"none", "disk", "snapshot"}

(* A keyed call that the library has refused has replaced the last one it  *)
(* accepted.                                                               *)
Spoiled(p) ==
  \E x \in resources[p].payloads : x.key # Unkeyed /\ ~x.call.ok

SameAttr(op, real, seen) ==
  IF op = "SetStream" THEN KnownHandle(seen) /\ real = RealHandle(seen)
                      ELSE real = seen

(* Whatever the client has created, configured, destroyed, checkpointed    *)
(* and restored: it can use every handle it holds, and the real handle     *)
(* behind it is configured the way the client has configured it.  This     *)
(* needs the order of the timestamps: a replay of the calls in another     *)
(* order may reset what a later call has set.                              *)
(*                                                                         *)
(* Two cases are left out, in which the code does not keep this: handles   *)
(* for which a refused keyed call was recorded last, and a client that was *)
(* attached through a cache entry older than its snapshot, whose handles   *)
(* keep the ones in the snapshot from being replayed.                      *)
HandlesMatch ==
  phase = "serving" /\ ~outdated =>
    /\ DOMAIN resources = DOMAIN view
    /\ \A p \in DOMAIN view :
         LET obj == gpu[resources[p].value]
         IN  /\ obj.kind = view[p].kind
             /\ ~Spoiled(p) =>
                  \A op \in Ops(obj.kind) :
                    SameAttr(op, obj.attrs[op], view[p].attrs[op])

(* A replay never meets a handle that is not there yet or not any more, so *)
(* the handlers do not panic on an invalid proxy: not even the replay of   *)
(* an image of handles that are outdated.                                  *)
ReplayDefined == phase = "replaying" /\ log # <<>> => Executable(Head(log))

(* A worker that serves a client has no real handles but those of its      *)
(* entries, one each: neither a replay nor a warm attach makes one twice,  *)
(* through an outdated entry neither.                                      *)
NoLeakedHandles ==
  phase = "serving" =>
    /\ {resources[p].value : p \in DOMAIN resources} = DOMAIN gpu
    /\ Cardinality(DOMAIN resources) = Cardinality(DOMAIN gpu)
=============================================================================

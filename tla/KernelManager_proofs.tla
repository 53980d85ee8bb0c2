------------------------- MODULE KernelManager_proofs -------------------------
(***************************************************************************)
(* Proofs about the kernel modules of worker processes: the invariants of  *)
(* KernelManager, for any clients, workers and images, and whatever order  *)
(* a standby command names its clients in.                                 *)
(***************************************************************************)
EXTENDS KernelManager, FiniteSetTheorems, TLAPS

-----------------------------------------------------------------------------
(* The inductive invariant                                                 *)

(* A worker wk that serves a client with the modules m and the functions   *)
(* f; out says whether the client is outdated.                             *)
ServedOK(wk, m, f, out) ==
  /\ ToSet(wk.active) = m /\ wk.handles \subseteq f /\ wk.functions \subseteq f
  /\ ~out => /\ wk.proc = "running" /\ m \subseteq wk.all /\ f \subseteq wk.loaded
             /\ wk.handles = f /\ (~wk.reused => wk.functions = f)

(* What has been saved of such a client.                                   *)
SavedOK(s, m, f, out) ==
  /\ s \in SavedType /\ ToSet(s.active) = m /\ s.modules = m
  /\ s.functions \subseteq f /\ s.handles \subseteq f
  /\ ~out => s.handles = f

(* A worker whose cache entry for client c is as new as the snapshot s: it *)
(* has the modules and what the snapshot lists is loaded; handles, if it   *)
(* keeps any, are those of all the client's functions.                     *)
KeptOK(wk, c, s, m, f, out) ==
  /\ wk.cache \in CacheType /\ c \in DOMAIN wk.cache
  /\ m \subseteq wk.all /\ s.functions \subseteq wk.loaded
  /\ ~out => wk.cache[c] = {} \/ (wk.cache[c] = f /\ f \subseteq wk.loaded)

WorkerOK(w) ==
  worker[w] \in WorkerType /\ worker[w].functions \subseteq worker[w].loaded

ClientOK(c) ==
  /\ client[c] \in {"new", "attached", "parked", "onDisk"}
  /\ mods[c] \subseteq Images /\ fns[c] \subseteq mods[c]
  /\ client[c] = "new" => mods[c] = {}
  /\ saved[c] \in SavedType \cup {None}
  /\ saved[c] # None => ToSet(saved[c].active) \subseteq saved[c].modules
  /\ client[c] \in {"parked", "onDisk"} =>
       SavedOK(saved[c], mods[c], fns[c], c \in outdated)

Served(w, c) ==
  worker[w].serves = c =>
    /\ client[c] = "attached"
    /\ ServedOK(worker[w], mods[c], fns[c], c \in outdated)

CachedIn(w, c) ==
  w \in cached[c] =>
    /\ client[c] = "parked"
    /\ KeptOK(worker[w], c, saved[c], mods[c], fns[c], c \in outdated)

(* Handles that a cache keeps are of functions the client has.             *)
Entry(w, c) ==
  worker[w].cache \in CacheType /\ c \in DOMAIN worker[w].cache =>
    worker[w].cache[c] \subseteq fns[c]

ServedOnce ==
  \A w, v \in Workers : worker[w].serves = worker[v].serves /\ worker[w].serves # None
                          => w = v

StandbyOK ==
  standbyWorker # None =>
    /\ standbyWorker \in Workers /\ worker[standbyWorker].proc = "running"
    /\ worker[standbyWorker].serves = None
    /\ worker[standbyWorker].cache \in CacheType

Shapes ==
  /\ worker = [w \in Workers |-> worker[w]]
  /\ client = [c \in Clients |-> client[c]] /\ mods = [c \in Clients |-> mods[c]]
  /\ fns = [c \in Clients |-> fns[c]] /\ saved = [c \in Clients |-> saved[c]]
  /\ cached \in [Clients -> SUBSET Workers] /\ outdated \subseteq Clients

KernelInv ==
  /\ Shapes
  /\ \A w \in Workers : WorkerOK(w)
  /\ \A c \in Clients : ClientOK(c)
  /\ \A w \in Workers, c \in Clients : Served(w, c) /\ CachedIn(w, c) /\ Entry(w, c)
  /\ ServedOnce /\ StandbyOK

-----------------------------------------------------------------------------
(* Constants, sequences and records                                        *)

(* What the assumption says of None.                                       *)
LEMMA NoneIsNone ==
  /\ None \notin Clients /\ None \notin Workers /\ None \notin SavedType
  /\ None \notin CacheType /\ MaxLoads \in Nat
BY KernelAssumption

(* The list of active modules: empty at first, and one longer with a load. *)
LEMMA ActiveLists ==
  /\ <<>> \in BoundedSeq(Images, MaxLoads) /\ ToSet(<<>>) = {}
  /\ \A s \in BoundedSeq(Images, MaxLoads), i \in Images :
       /\ ToSet(s) \subseteq Images
       /\ ToSet(Append(s, i)) = ToSet(s) \cup {i}
       /\ Len(s) < MaxLoads => Append(s, i) \in BoundedSeq(Images, MaxLoads)
<1>0. MaxLoads \in Nat
  BY NoneIsNone
<1>1. <<>> \in BoundedSeq(Images, MaxLoads)
  <2>1. <<>> \in [1..0 -> Images] /\ 0 \in 0..MaxLoads
    BY <1>0
  <2> QED BY <2>1 DEF BoundedSeq, SeqOf
<1>2. ToSet(<<>>) = {}
  BY DEF ToSet
<1>3. ASSUME NEW s \in BoundedSeq(Images, MaxLoads), NEW i \in Images
      PROVE  /\ ToSet(s) \subseteq Images
             /\ ToSet(Append(s, i)) = ToSet(s) \cup {i}
             /\ Len(s) < MaxLoads => Append(s, i) \in BoundedSeq(Images, MaxLoads)
  <2>1. PICK m \in 0..MaxLoads : s \in [1..m -> Images]
    BY DEF BoundedSeq, SeqOf
  <2>2. m \in Nat /\ s \in Seq(Images) /\ Len(s) = m
    BY <1>0, <2>1
  <2>3. /\ Append(s, i) \in Seq(Images) /\ Len(Append(s, i)) = m + 1
        /\ \A j \in 1..m : Append(s, i)[j] = s[j]
        /\ Append(s, i)[m + 1] = i
    BY <2>2
  <2>4. DOMAIN Append(s, i) = 1..(m + 1) /\ DOMAIN s = 1..m
    BY <2>1, <2>2, <2>3
  <2>5. ToSet(s) \subseteq Images
    BY <2>1 DEF ToSet
  <2>6. ToSet(Append(s, i)) = ToSet(s) \cup {i}
    <3> DEFINE t == Append(s, i)
    <3>1. \A j \in 1..(m + 1) : j \in 1..m \/ j = m + 1
      BY <2>2
    <3>2. \A j \in 1..m : j \in 1..(m + 1)
      BY <2>2
    <3>3. m + 1 \in 1..(m + 1)
      BY <2>2
    <3> HIDE DEF t
    <3>4. /\ DOMAIN t = 1..(m + 1) /\ t[m + 1] = i /\ \A j \in 1..m : t[j] = s[j]
      BY <2>3, <2>4 DEF t
    <3>5. ToSet(t) \subseteq ToSet(s) \cup {i}
      BY <2>4, <3>1, <3>4 DEF ToSet
    <3>6. ToSet(s) \cup {i} \subseteq ToSet(t)
      BY <2>4, <3>2, <3>3, <3>4 DEF ToSet
    <3>7. ToSet(t) = ToSet(s) \cup {i}
      BY <3>5, <3>6
    <3> QED BY <3>7 DEF t
  <2>7. Len(s) < MaxLoads => Append(s, i) \in BoundedSeq(Images, MaxLoads)
    <3> SUFFICES ASSUME Len(s) < MaxLoads
                 PROVE  Append(s, i) \in BoundedSeq(Images, MaxLoads)
      OBVIOUS
    <3>1. m + 1 \in 0..MaxLoads
      BY <1>0, <2>2
    <3>2. Append(s, i) \in [1..(m + 1) -> Images]
      <4> DEFINE t == Append(s, i)
      <4>1. t \in Seq(Images) /\ Len(t) = m + 1
        BY <2>3
      <4> HIDE DEF t
      <4>2. t \in [1..(m + 1) -> Images]
        BY <4>1
      <4> QED BY <4>2 DEF t
    <3> QED BY <3>1, <3>2 DEF BoundedSeq, SeqOf
  <2> QED BY <2>5, <2>6, <2>7
<1> QED BY <1>1, <1>2, <1>3

(* The fields of a worker.                                                 *)
LEMMA WorkerFields ==
  ASSUME NEW wk \in WorkerType
  PROVE  /\ wk.proc \in {"none", "running", "dead"} /\ wk.serves \in Clients \cup {None}
         /\ wk.cache \in CacheType \cup {None}
         /\ wk.all \in SUBSET Images /\ wk.active \in BoundedSeq(Images, MaxLoads)
         /\ wk.functions \in SUBSET Images /\ wk.loaded \in SUBSET Images
         /\ wk.handles \in SUBSET Images /\ wk.reused \in BOOLEAN
BY DEF WorkerType

(* The fields of a saved state.                                            *)
LEMMA SavedFields ==
  ASSUME NEW s \in SavedType
  PROVE  /\ s.active \in BoundedSeq(Images, MaxLoads) /\ s.functions \in SUBSET Images
         /\ s.modules \in SUBSET Images /\ s.handles \in SUBSET Images
BY DEF SavedType

-----------------------------------------------------------------------------
(* What the operations of the manager make of a worker                     *)

(* The fields in which a and b agree.                                      *)
SameProcess(a, b) ==
  /\ a.proc = b.proc /\ a.serves = b.serves /\ a.cache = b.cache /\ a.reused = b.reused

(* A new process.                                                          *)
LEMMA SpawnedFacts ==
  ASSUME NEW c \in Clients
  PROVE  LET wk == [Spawned EXCEPT !.serves = c]
         IN  /\ wk \in WorkerType /\ wk.proc = "running" /\ wk.serves = c
             /\ wk.cache = None /\ wk.all = {} /\ wk.active = <<>>
             /\ wk.functions = {} /\ wk.loaded = {} /\ wk.handles = {}
             /\ wk.reused = FALSE
<1>1. <<>> \in BoundedSeq(Images, MaxLoads)
  BY ActiveLists
<1> QED BY <1>1 DEF Spawned, NoWorker, WorkerType

(* The entry of a worker that does not run.                                *)
LEMMA NoWorkerFacts ==
  /\ NoWorker \in WorkerType /\ NoWorker.serves = None /\ NoWorker.cache = None
  /\ NoWorker.functions = {}
<1>1. <<>> \in BoundedSeq(Images, MaxLoads)
  BY ActiveLists
<1> QED BY <1>1 DEF NoWorker, WorkerType

(* cu_module_load_data adds one module to both lists and nothing else.     *)
LEMMA LoadedModuleFacts ==
  ASSUME NEW wk \in WorkerType, NEW i \in Images, Len(wk.active) < MaxLoads,
         NEW nw, nw = LoadedModule(wk, i)
  PROVE  /\ nw \in WorkerType /\ SameProcess(nw, wk)
         /\ nw.all = wk.all \cup {i} /\ ToSet(nw.active) = ToSet(wk.active) \cup {i}
         /\ nw.functions = wk.functions /\ nw.loaded = wk.loaded
         /\ nw.handles = wk.handles
<1>1. wk.active \in BoundedSeq(Images, MaxLoads)
  BY WorkerFields
<1> DEFINE t == Append(wk.active, i)
           u == wk.all \cup {i}
<1>2. /\ u \in SUBSET Images
      /\ t \in BoundedSeq(Images, MaxLoads) /\ ToSet(t) = ToSet(wk.active) \cup {i}
  BY <1>1, ActiveLists, WorkerFields
<1>3. nw = [wk EXCEPT !.all = u, !.active = t]
  BY DEF LoadedModule
<1> HIDE DEF t, u
<1>4. /\ nw \in WorkerType /\ nw.active = t /\ nw.all = u
      /\ nw.functions = wk.functions /\ nw.loaded = wk.loaded
      /\ nw.handles = wk.handles /\ SameProcess(nw, wk)
  BY <1>2, <1>3 DEF WorkerType, SameProcess
<1> QED BY <1>2, <1>4 DEF u

(* Functions that are got are listed, loaded and given handles.            *)
LEMMA WithFunctionsFacts ==
  ASSUME NEW wk \in WorkerType, NEW fs \in SUBSET Images,
         NEW nw, nw = WithFunctions(wk, fs)
  PROVE  /\ nw \in WorkerType /\ SameProcess(nw, wk)
         /\ nw.all = wk.all /\ nw.active = wk.active
         /\ nw.functions = wk.functions \cup fs /\ nw.loaded = wk.loaded \cup fs
         /\ nw.handles = wk.handles \cup fs
BY DEF WithFunctions, WorkerType, SameProcess

(* A process that ends keeps its entry, but for its state.                 *)
LEMMA DeadFacts ==
  ASSUME NEW wk \in WorkerType, NEW nw, nw = Dead(wk)
  PROVE  /\ nw \in WorkerType /\ nw.serves = wk.serves /\ nw.cache = wk.cache
         /\ nw.all = wk.all /\ nw.active = wk.active /\ nw.functions = wk.functions
         /\ nw.loaded = wk.loaded /\ nw.handles = wk.handles
BY DEF Dead, WorkerType

(* What checkpoint writes.                                                 *)
LEMMA CheckpointFacts ==
  ASSUME NEW wk \in WorkerType, NEW s, s = Checkpoint(wk)
  PROVE  /\ s \in SavedType /\ s.active = wk.active /\ s.functions = wk.functions
         /\ s.modules = ToSet(wk.active) /\ s.handles = wk.handles
<1>1. wk.active \in BoundedSeq(Images, MaxLoads)
  BY WorkerFields
<1>2. ToSet(wk.active) \in SUBSET Images
  <2>1. CASE Images = {}
    <3>1. PICK m \in 0..MaxLoads : wk.active \in [1..m -> Images]
      BY <1>1 DEF BoundedSeq, SeqOf
    <3> QED BY <3>1 DEF ToSet
  <2>2. CASE Images # {}
    BY <1>1, <2>2, ActiveLists
  <2> QED BY <2>1, <2>2
<1> QED BY <1>2 DEF Checkpoint, WorkerType, SavedType

(* A replay of handles whose modules are there.                            *)
LEMMA ReplayedFacts ==
  ASSUME NEW wk \in WorkerType, NEW s \in SavedType, s.handles \subseteq wk.all
  PROVE  LET nw == Replayed(wk, s)
         IN  /\ nw \in WorkerType /\ SameProcess(nw, wk)
             /\ nw.all = wk.all /\ nw.active = wk.active
             /\ nw.functions = wk.functions \cup s.handles
             /\ nw.loaded = wk.loaded \cup s.handles
             /\ nw.handles = wk.handles \cup s.handles
<1> DEFINE fs == s.handles
           nw == Replayed(wk, s)
<1>1. fs \in SUBSET Images /\ nw = WithFunctions(wk, fs)
  BY SavedFields DEF Replayed
<1> HIDE DEF fs, nw
<1>2. /\ nw \in WorkerType /\ SameProcess(nw, wk)
      /\ nw.all = wk.all /\ nw.active = wk.active
      /\ nw.functions = wk.functions \cup fs
      /\ nw.loaded = wk.loaded \cup fs /\ nw.handles = wk.handles \cup fs
  BY <1>1, WithFunctionsFacts
<1> QED BY <1>2 DEF fs, nw

(* A saved state, read into a new process for client c and replayed there. *)
LEMMA RestoredFacts ==
  ASSUME NEW c \in Clients, NEW s \in SavedType, s.handles \subseteq s.modules
  PROVE  LET nw == Replayed(Restored([Spawned EXCEPT !.serves = c], s), s)
         IN  /\ nw \in WorkerType /\ nw.proc = "running" /\ nw.serves = c
             /\ nw.cache = None /\ nw.all = s.modules /\ nw.active = s.active
             /\ nw.functions = s.handles /\ nw.loaded = s.handles
             /\ nw.handles = s.handles /\ nw.reused = FALSE
<1> DEFINE wk == [Spawned EXCEPT !.serves = c]
           rw == Restored(wk, s)
           nw == Replayed(rw, s)
<1>1. /\ wk \in WorkerType /\ wk.proc = "running" /\ wk.serves = c
      /\ wk.cache = None /\ wk.loaded = {} /\ wk.handles = {} /\ wk.reused = FALSE
  BY SpawnedFacts
<1>2. s.modules \in SUBSET Images /\ s.active \in BoundedSeq(Images, MaxLoads)
  BY SavedFields
<1> HIDE DEF wk
<1>3. /\ rw \in WorkerType /\ SameProcess(rw, wk) /\ rw.all = s.modules
      /\ rw.active = s.active /\ rw.functions = {} /\ rw.loaded = wk.loaded
      /\ rw.handles = wk.handles
  BY <1>1, <1>2 DEF Restored, WorkerType, SameProcess
<1> HIDE DEF rw
<1>4. /\ nw \in WorkerType /\ SameProcess(nw, rw)
      /\ nw.all = rw.all /\ nw.active = rw.active
      /\ nw.functions = rw.functions \cup s.handles
      /\ nw.loaded = rw.loaded \cup s.handles
      /\ nw.handles = rw.handles \cup s.handles
  BY <1>3, ReplayedFacts
<1> HIDE DEF nw
<1>5. /\ nw \in WorkerType /\ nw.proc = "running" /\ nw.serves = c
      /\ nw.cache = None /\ nw.all = s.modules /\ nw.active = s.active
      /\ nw.functions = s.handles /\ nw.loaded = s.handles
      /\ nw.handles = s.handles /\ nw.reused = FALSE
  BY <1>1, <1>3, <1>4 DEF SameProcess
<1> QED BY <1>5 DEF nw, rw, wk

(* The standby worker wk once it serves c, restored from s and with the    *)
(* handles of its cache entry.                                             *)
TakenOver(wk, s, c, kept) ==
  [AttachedWarm(wk, s) EXCEPT
     !.serves = c, !.handles = kept, !.reused = kept # {},
     !.cache = [d \in DOMAIN @ \ {c} |-> @[d]]]

(* A worker of the cache that takes a client over: its handles are those   *)
(* that were kept, its other entries stay.                                 *)
LEMMA WarmFacts ==
  ASSUME NEW wk \in WorkerType, wk.cache \in CacheType, NEW c \in Clients,
         NEW s \in SavedType, NEW kept \in SUBSET Images
  PROVE  LET warm == TakenOver(wk, s, c, kept)
         IN  /\ warm \in WorkerType /\ warm.proc = wk.proc /\ warm.serves = c
             /\ warm.all = wk.all /\ warm.active = s.active /\ warm.functions = {}
             /\ warm.loaded = wk.loaded /\ warm.handles = kept
             /\ warm.reused = (kept # {}) /\ warm.cache \in CacheType
             /\ DOMAIN warm.cache = DOMAIN wk.cache \ {c}
             /\ \A d \in DOMAIN wk.cache : d # c => warm.cache[d] = wk.cache[d]
<1> DEFINE rest == [d \in DOMAIN wk.cache \ {c} |-> wk.cache[d]]
           re == (kept # {})
           aw == AttachedWarm(wk, s)
           warm == TakenOver(wk, s, c, kept)
<1>1. PICK cs \in SUBSET Clients : wk.cache \in [cs -> SUBSET Images]
  BY DEF CacheType
<1>2. /\ rest \in [cs \ {c} -> SUBSET Images] /\ cs \ {c} \in SUBSET Clients
      /\ DOMAIN rest = DOMAIN wk.cache \ {c}
      /\ \A d \in DOMAIN wk.cache : d # c => rest[d] = wk.cache[d]
  BY <1>1
<1>3. rest \in CacheType
  BY <1>2 DEF CacheType
<1>4. s.active \in BoundedSeq(Images, MaxLoads)
  BY SavedFields
<1>5. /\ aw \in WorkerType /\ aw.cache = wk.cache /\ aw.proc = wk.proc /\ aw.all = wk.all
      /\ aw.active = s.active /\ aw.functions = {} /\ aw.loaded = wk.loaded
  BY <1>4 DEF AttachedWarm, WorkerType
<1>6. warm = [aw EXCEPT !.serves = c, !.handles = kept, !.reused = kept # {},
                        !.cache = [d \in DOMAIN @ \ {c} |-> @[d]]]
  BY DEF TakenOver
<1> HIDE DEF aw, warm
<1>7. warm = [aw EXCEPT !.serves = c, !.handles = kept, !.reused = re, !.cache = rest]
  BY <1>5, <1>6
<1>8. re \in BOOLEAN
  OBVIOUS
<1> HIDE DEF rest, re
<1>9. /\ warm \in WorkerType /\ warm.proc = aw.proc /\ warm.serves = c
      /\ warm.all = aw.all /\ warm.active = aw.active /\ warm.functions = aw.functions
      /\ warm.loaded = aw.loaded /\ warm.handles = kept
      /\ warm.reused = re /\ warm.cache = rest
  BY <1>3, <1>5, <1>7, <1>8 DEF WorkerType
<1>10. /\ warm \in WorkerType /\ warm.proc = wk.proc /\ warm.serves = c
      /\ warm.all = wk.all /\ warm.active = s.active /\ warm.functions = {}
      /\ warm.loaded = wk.loaded /\ warm.handles = kept
      /\ warm.reused = re /\ warm.cache \in CacheType
      /\ DOMAIN warm.cache = DOMAIN wk.cache \ {c}
      /\ \A d \in DOMAIN wk.cache : d # c => warm.cache[d] = wk.cache[d]
  BY <1>2, <1>3, <1>5, <1>9
<1> QED BY <1>10 DEF warm, aw, re

(* A worker with a cache whose client is parked: the handles go into the   *)
(* cache.                                                                  *)
LEMMA ParkedFacts ==
  ASSUME NEW wk \in WorkerType, wk.cache \in CacheType, NEW c \in Clients
  PROVE  LET nw == [wk EXCEPT !.serves = None, !.handles = {}, !.reused = FALSE,
                              !.cache = [d \in DOMAIN @ \cup {c} |->
                                           IF d = c THEN wk.handles ELSE @[d]]]
         IN  /\ nw \in WorkerType /\ nw.proc = wk.proc /\ nw.serves = None
             /\ nw.all = wk.all /\ nw.functions = wk.functions /\ nw.loaded = wk.loaded
             /\ nw.cache \in CacheType /\ DOMAIN nw.cache = DOMAIN wk.cache \cup {c}
             /\ nw.cache[c] = wk.handles
             /\ \A d \in DOMAIN wk.cache : d # c => nw.cache[d] = wk.cache[d]
<1> DEFINE more == [d \in DOMAIN wk.cache \cup {c} |->
                      IF d = c THEN wk.handles ELSE wk.cache[d]]
           nw == [wk EXCEPT !.serves = None, !.handles = {}, !.reused = FALSE,
                            !.cache = [d \in DOMAIN @ \cup {c} |->
                                         IF d = c THEN wk.handles ELSE @[d]]]
<1>1. PICK cs \in SUBSET Clients : wk.cache \in [cs -> SUBSET Images]
  BY DEF CacheType
<1>2. wk.handles \in SUBSET Images
  BY WorkerFields
<1>3. /\ more \in [cs \cup {c} -> SUBSET Images] /\ cs \cup {c} \in SUBSET Clients
      /\ DOMAIN more = DOMAIN wk.cache \cup {c} /\ more[c] = wk.handles
      /\ \A d \in DOMAIN wk.cache : d # c => more[d] = wk.cache[d]
  BY <1>1, <1>2
<1>4. more \in CacheType
  BY <1>3 DEF CacheType
<1>5. nw = [wk EXCEPT !.serves = None, !.handles = {}, !.reused = FALSE, !.cache = more]
  OBVIOUS
<1> HIDE DEF more, nw
<1>6. /\ nw \in WorkerType /\ nw.proc = wk.proc /\ nw.serves = None
      /\ nw.all = wk.all /\ nw.functions = wk.functions /\ nw.loaded = wk.loaded
      /\ nw.cache = more
  BY <1>4, <1>5 DEF WorkerType
<1>7. /\ nw \in WorkerType /\ nw.proc = wk.proc /\ nw.serves = None
      /\ nw.all = wk.all /\ nw.functions = wk.functions /\ nw.loaded = wk.loaded
      /\ nw.cache \in CacheType /\ DOMAIN nw.cache = DOMAIN wk.cache \cup {c}
      /\ nw.cache[c] = wk.handles
      /\ \A d \in DOMAIN wk.cache : d # c => nw.cache[d] = wk.cache[d]
  BY <1>3, <1>4, <1>6
<1> QED BY <1>7 DEF nw

(* A standby worker: it has the modules of every client it was made for,   *)
(* and has loaded the functions that their own modules have, whatever the  *)
(* order.                                                                  *)
LEMMA StandbyFacts ==
  ASSUME NEW n \in Nat, NEW order \in [1..n -> Clients],
         \A i \in 1..n : saved[order[i]] \in SavedType
  PROVE  LET cs == ToSet(order)
             nw == StandbyLoaded([Spawned EXCEPT !.cache = [c \in cs |-> {}]], order)
         IN  /\ nw \in WorkerType /\ nw.proc = "running" /\ nw.serves = None
             /\ nw.functions = {} /\ nw.cache \in CacheType /\ DOMAIN nw.cache = cs
             /\ \A c \in cs :
                  /\ nw.cache[c] = {} /\ saved[c].modules \subseteq nw.all
                  /\ saved[c].functions \subseteq saved[c].modules =>
                       saved[c].functions \subseteq nw.loaded
<1> DEFINE cs == ToSet(order)
           cache == [c \in cs |-> {}]
           wk == [Spawned EXCEPT !.cache = cache]
           registered(i) == wk.all \cup UNION {saved[order[j]].modules : j \in 1..i}
           u == registered(n)
           l == UNION {saved[order[i]].functions \cap registered(i) : i \in 1..n}
           nw == StandbyLoaded(wk, order)
<1>1. cs = {order[i] : i \in 1..n} /\ DOMAIN order = 1..n /\ cs \in SUBSET Clients
  BY DEF ToSet
<1>2. Len(order) = n
  <2>1. order \in Seq(Clients)
    OBVIOUS
  <2> QED BY <1>1, <2>1
<1>3. cache \in CacheType /\ DOMAIN cache = cs /\ \A c \in cs : cache[c] = {}
  <2>1. cache \in [cs -> SUBSET Images]
    OBVIOUS
  <2> HIDE DEF cs
  <2> QED BY <1>1, <2>1 DEF CacheType
<1>4. /\ wk \in WorkerType /\ wk.proc = "running" /\ wk.serves = None /\ wk.all = {}
      /\ wk.loaded = {} /\ wk.functions = {} /\ wk.cache = cache
  <2>1. <<>> \in BoundedSeq(Images, MaxLoads)
    BY ActiveLists
  <2> HIDE DEF cache
  <2> QED BY <1>3, <2>1 DEF Spawned, NoWorker, WorkerType
<1>5. nw = [wk EXCEPT !.all = u, !.loaded = wk.loaded \cup l]
  BY <1>1, <1>2 DEF StandbyLoaded
<1> HIDE DEF cs, cache, wk
<1>6. ASSUME NEW i \in 1..n PROVE saved[order[i]].modules \subseteq registered(i)
  <2>1. i \in 1..i
    OBVIOUS
  <2> QED BY <2>1
<1>7. ASSUME NEW i \in 1..n PROVE registered(i) \subseteq u
  <2>1. \A j \in 1..i : j \in 1..n
    OBVIOUS
  <2> QED BY <2>1
<1>8. u \in SUBSET Images
  <2>1. \A i \in 1..n : saved[order[i]].modules \subseteq Images
    BY SavedFields
  <2> QED BY <1>4, <2>1
<1>9. \A i \in 1..n : saved[order[i]].functions \cap registered(i) \subseteq l
  OBVIOUS
<1>10. l \in SUBSET Images
  <2>1. \A i \in 1..n : saved[order[i]].functions \subseteq Images
    BY SavedFields
  <2> HIDE DEF registered
  <2> QED BY <2>1
<1> HIDE DEF registered, u, l, nw
<1>11. /\ nw \in WorkerType /\ nw.proc = wk.proc /\ nw.serves = wk.serves
       /\ nw.functions = wk.functions /\ nw.cache = wk.cache
       /\ nw.all = u /\ nw.loaded = l
  <2>1. nw = [wk EXCEPT !.all = u, !.loaded = l]
    BY <1>4, <1>5
  <2> QED BY <1>4, <1>8, <1>10, <2>1 DEF WorkerType
<1>12. ASSUME NEW c \in cs
       PROVE  /\ saved[c].modules \subseteq nw.all
              /\ saved[c].functions \subseteq saved[c].modules =>
                   saved[c].functions \subseteq nw.loaded
  <2>1. PICK i \in 1..n : c = order[i]
    BY <1>1
  <2>2. saved[c].modules \subseteq registered(i) /\ registered(i) \subseteq u
    BY <1>6, <1>7, <2>1
  <2>3. saved[c].functions \cap registered(i) \subseteq l
    BY <1>9, <2>1
  <2> QED BY <1>11, <2>2, <2>3
<1>13. /\ nw \in WorkerType /\ nw.proc = "running" /\ nw.serves = None
       /\ nw.functions = {} /\ nw.cache \in CacheType /\ DOMAIN nw.cache = cs
       /\ \A c \in cs : nw.cache[c] = {}
  BY <1>3, <1>4, <1>11
<1> QED BY <1>12, <1>13 DEF nw, wk, cache, cs

-----------------------------------------------------------------------------
(* A step of one worker and one client                                     *)

(* Worker b still has what a's cache entry for d stands for.               *)
Keeps(a, b, d) ==
  /\ b.cache \in CacheType /\ d \in DOMAIN b.cache /\ b.cache[d] = a.cache[d]
  /\ a.all \subseteq b.all /\ a.loaded \subseteq b.loaded

(* A worker that keeps an entry and what it needs keeps it in order.       *)
LEMMA KeepsKept ==
  ASSUME NEW a, NEW b, NEW d, NEW s, NEW m, NEW f, NEW out,
         Keeps(a, b, d), KeptOK(a, d, s, m, f, out)
  PROVE  KeptOK(b, d, s, m, f, out)
BY DEF Keeps, KeptOK

(* All entries of the cache b, but that of c, are those of the cache a.    *)
OldEntries(a, b, c) ==
  \A d \in DOMAIN b \ {c} : a \in CacheType /\ d \in DOMAIN a /\ b[d] = a[d]

(* The step changes worker w and client c alone.  Nobody else serves c.    *)
Touches(w, c) ==
  /\ worker' = [worker EXCEPT ![w] = worker'[w]]
  /\ client' = [client EXCEPT ![c] = client'[c]]
  /\ mods' = [mods EXCEPT ![c] = mods'[c]] /\ fns' = [fns EXCEPT ![c] = fns'[c]]
  /\ saved' = [saved EXCEPT ![c] = saved'[c]]
  /\ cached' \in [Clients -> SUBSET Workers] /\ outdated' \subseteq Clients
  /\ \A d \in Clients \ {c} : /\ d \in outdated' <=> d \in outdated
                              /\ cached'[d] \subseteq cached[d]
                              /\ w \in cached'[d] => Keeps(worker[w], worker'[w], d)
  /\ worker'[w].cache \in CacheType => OldEntries(worker[w].cache, worker'[w].cache, c)
  /\ fns[c] \subseteq fns'[c] /\ worker'[w].serves \in {None, c}
  /\ \A v \in Workers \ {w} : worker[v].serves # c

(* Then it is enough to look at those two.                                 *)
LEMMA TouchesKeeps ==
  ASSUME KernelInv, NEW w \in Workers, NEW c \in Clients, Touches(w, c),
         WorkerOK(w)', ClientOK(c)', Served(w, c)', Entry(w, c)',
         \A v \in Workers : CachedIn(v, c)', StandbyOK'
  PROVE  KernelInv'
<1>0. Shapes /\ None \notin Clients
  BY NoneIsNone DEF KernelInv
<1>1. Shapes'
  BY <1>0 DEF Shapes, Touches
<1>2. \A v \in Workers \ {w} : worker'[v] = worker[v]
  BY <1>0 DEF Touches, Shapes
<1>3. \A d \in Clients \ {c} : /\ client'[d] = client[d] /\ mods'[d] = mods[d]
                               /\ fns'[d] = fns[d] /\ saved'[d] = saved[d]
                               /\ (d \in outdated') = (d \in outdated)
  BY <1>0 DEF Touches, Shapes
<1>4. ASSUME NEW v \in Workers PROVE WorkerOK(v)'
  <2>1. CASE v # w
    <3>1. worker'[v] = worker[v] /\ WorkerOK(v)
      BY <1>2, <2>1 DEF KernelInv
    <3> QED BY <3>1 DEF WorkerOK
  <2> QED BY <2>1
<1>5. ASSUME NEW d \in Clients PROVE ClientOK(d)'
  <2>1. CASE d # c
    <3>1. ClientOK(d)
      BY DEF KernelInv
    <3> QED BY <1>3, <2>1, <3>1 DEF ClientOK
  <2> QED BY <2>1
<1>6. ASSUME NEW v \in Workers, NEW d \in Clients PROVE Served(v, d)'
  <2>1. CASE v = w /\ d = c
    BY <2>1
  <2>2. CASE v = w /\ d # c
    <3>1. worker'[v].serves # d
      BY <1>0, <2>2 DEF Touches
    <3> QED BY <3>1 DEF Served
  <2>3. CASE v # w /\ d = c
    <3>1. worker'[v].serves # d
      BY <1>2, <2>3 DEF Touches
    <3> QED BY <3>1 DEF Served
  <2>4. CASE v # w /\ d # c
    <3>1. Served(v, d)
      BY DEF KernelInv
    <3>2. worker'[v] = worker[v]
      BY <1>2, <2>4
    <3> QED BY <1>3, <2>4, <3>1, <3>2 DEF Served
  <2> QED BY <2>1, <2>2, <2>3, <2>4
<1>7. ASSUME NEW v \in Workers, NEW d \in Clients PROVE CachedIn(v, d)'
  <2>1. CASE d = c
    BY <2>1
  <2>2. CASE d # c
    <3> SUFFICES ASSUME v \in cached'[d] PROVE CachedIn(v, d)'
      BY DEF CachedIn
    <3>1. v \in cached[d]
      BY <2>2 DEF Touches
    <3>2. /\ client[d] = "parked"
          /\ KeptOK(worker[v], d, saved[d], mods[d], fns[d], d \in outdated)
      BY <3>1 DEF KernelInv, CachedIn
    <3>3. CASE v = w
      <4>1. Keeps(worker[v], worker'[v], d)
        BY <2>2, <3>3 DEF Touches
      <4>2. KeptOK(worker'[v], d, saved[d], mods[d], fns[d], d \in outdated)
        BY <3>2, <4>1, KeepsKept
      <4> QED BY <1>3, <2>2, <3>2, <4>2 DEF CachedIn
    <3>4. CASE v # w
      <4>1. worker'[v] = worker[v]
        BY <1>2, <3>4
      <4> QED BY <1>3, <2>2, <3>2, <4>1 DEF CachedIn
    <3> QED BY <3>3, <3>4
  <2> QED BY <2>1, <2>2
<1>8. ASSUME NEW v \in Workers, NEW d \in Clients PROVE Entry(v, d)'
  <2>0. Entry(v, d)
    BY DEF KernelInv
  <2>1. CASE v = w /\ d = c
    BY <2>1
  <2>2. CASE v = w /\ d # c
    <3> SUFFICES ASSUME worker'[v].cache \in CacheType, d \in DOMAIN worker'[v].cache
                 PROVE  worker'[v].cache[d] \subseteq fns'[d]
      BY DEF Entry
    <3>1. /\ worker[v].cache \in CacheType /\ d \in DOMAIN worker[v].cache
          /\ worker'[v].cache[d] = worker[v].cache[d]
      BY <2>2 DEF Touches, OldEntries
    <3> QED BY <1>3, <2>0, <2>2, <3>1 DEF Entry
  <2>3. CASE v # w
    <3>1. worker'[v] = worker[v]
      BY <1>2, <2>3
    <3>2. fns[d] \subseteq fns'[d]
      BY <1>3 DEF Touches
    <3> QED BY <2>0, <3>1, <3>2 DEF Entry
  <2> QED BY <2>1, <2>2, <2>3
<1>9. ServedOnce'
  <2> SUFFICES ASSUME NEW u \in Workers, NEW v \in Workers,
                      worker'[u].serves = worker'[v].serves, worker'[u].serves # None
               PROVE  u = v
    BY DEF ServedOnce
  <2>1. CASE u # w /\ v # w
    BY <1>2, <2>1 DEF KernelInv, ServedOnce
  <2>2. CASE u = w /\ v # w
    <3>1. worker'[u].serves = c /\ worker'[v] = worker[v] /\ worker[v].serves # c
      BY <1>2, <2>2 DEF Touches
    <3> QED BY <3>1
  <2>3. CASE u # w /\ v = w
    <3>1. worker'[v].serves = c /\ worker'[u] = worker[u] /\ worker[u].serves # c
      BY <1>2, <2>3 DEF Touches
    <3> QED BY <3>1
  <2> QED BY <2>1, <2>2, <2>3
<1> QED BY <1>1, <1>4, <1>5, <1>6, <1>7, <1>8, <1>9 DEF KernelInv

(* What the invariant says of one worker and one client.                   *)
LEMMA Before ==
  ASSUME KernelInv, NEW w \in Workers, NEW c \in Clients
  PROVE  /\ worker[w] \in WorkerType /\ worker[w].functions \subseteq worker[w].loaded
         /\ ClientOK(c) /\ Served(w, c) /\ CachedIn(w, c) /\ Entry(w, c)
         /\ worker = [v \in Workers |-> worker[v]]
         /\ client = [d \in Clients |-> client[d]] /\ mods = [d \in Clients |-> mods[d]]
         /\ fns = [d \in Clients |-> fns[d]] /\ saved = [d \in Clients |-> saved[d]]
         /\ cached \in [Clients -> SUBSET Workers] /\ outdated \subseteq Clients
         /\ \A d \in Clients : w \in cached[d] =>
              worker[w].cache \in CacheType /\ d \in DOMAIN worker[w].cache
BY DEF KernelInv, WorkerOK, Shapes, CachedIn, KeptOK

(* The worker that serves a client is the only one, and not in standby.    *)
LEMMA ServingFacts ==
  ASSUME KernelInv, NEW w \in Workers, NEW c \in Clients, worker[w].serves = c
  PROVE  /\ client[c] = "attached" /\ cached[c] = {} /\ standbyWorker # w
         /\ ServedOK(worker[w], mods[c], fns[c], c \in outdated)
         /\ \A v \in Workers \ {w} : worker[v].serves # c
<1>0. None \notin Clients
  BY NoneIsNone
<1>1. client[c] = "attached" /\ ServedOK(worker[w], mods[c], fns[c], c \in outdated)
  BY Before DEF Served
<1>2. cached[c] = {}
  <2>1. \A v \in Workers : v \notin cached[c]
    BY <1>1, Before DEF CachedIn
  <2> QED BY <2>1, Before
<1>3. standbyWorker # w
  BY <1>0, NoneIsNone DEF KernelInv, StandbyOK
<1>4. \A v \in Workers \ {w} : worker[v].serves # c
  BY <1>0 DEF KernelInv, ServedOnce
<1> QED BY <1>1, <1>2, <1>3, <1>4

(* A client that is not attached is served by nobody, and one that is not  *)
(* parked is in no cache that counts.                                      *)
LEMMA AwayFacts ==
  ASSUME KernelInv, NEW c \in Clients
  PROVE  /\ client[c] # "attached" => \A v \in Workers : worker[v].serves # c
         /\ client[c] # "parked" => cached[c] = {}
<1>1. client[c] # "attached" => \A v \in Workers : worker[v].serves # c
  BY Before DEF Served
<1>2. client[c] # "parked" => cached[c] = {}
  <2> SUFFICES ASSUME client[c] # "parked" PROVE cached[c] = {}
    OBVIOUS
  <2>1. \A v \in Workers : v \notin cached[c]
    BY Before DEF CachedIn
  <2>2. cached[c] \subseteq Workers
    BY DEF KernelInv, Shapes
  <2> QED BY <2>1, <2>2
<1> QED BY <1>1, <1>2

(* A process that does not exist is in no cache and not in standby.        *)
LEMMA UnusedFacts ==
  ASSUME KernelInv, NEW w \in Workers, Unused(w)
  PROVE  /\ \A d \in Clients : w \notin cached[d]
         /\ standbyWorker # w
<1>1. worker[w].cache = None /\ None \notin CacheType
  BY NoWorkerFacts, NoneIsNone DEF Unused
<1>2. \A d \in Clients : w \notin cached[d]
  BY <1>1, Before
<1>3. standbyWorker # w
  BY <1>1, NoneIsNone DEF KernelInv, StandbyOK
<1> QED BY <1>2, <1>3

(* The standby worker stays what it is when a step changes another one.    *)
LEMMA StandbyUntouched ==
  ASSUME KernelInv, NEW w \in Workers, standbyWorker # w,
         standbyWorker' = standbyWorker, worker' = [worker EXCEPT ![w] = worker'[w]]
  PROVE  StandbyOK'
<1> SUFFICES ASSUME standbyWorker # None PROVE StandbyOK'
  BY DEF StandbyOK
<1>1. StandbyOK
  BY DEF KernelInv
<1>2. worker'[standbyWorker] = worker[standbyWorker]
  <2>1. worker = [v \in Workers |-> worker[v]] /\ standbyWorker \in Workers
    BY <1>1 DEF KernelInv, Shapes, StandbyOK
  <2> QED BY <2>1
<1> QED BY <1>1, <1>2 DEF StandbyOK

-----------------------------------------------------------------------------
(* The actions                                                             *)

(* A new client gets a new process.                                        *)
LEMMA CreateKeeps ==
  ASSUME KernelInv, NEW c \in Clients, NEW w \in Workers, Create(c, w)
  PROVE  KernelInv'
<1> DEFINE nw == [Spawned EXCEPT !.serves = c]
<1>1. /\ client[c] = "new" /\ Unused(w) /\ standbyWorker' = standbyWorker
      /\ worker' = [worker EXCEPT ![w] = nw]
      /\ client' = [client EXCEPT ![c] = "attached"]
      /\ mods' = mods /\ fns' = fns /\ saved' = saved /\ cached' = cached
      /\ outdated' = outdated
  BY DEF Create, clientVars
<1>2. /\ nw \in WorkerType /\ nw.proc = "running" /\ nw.serves = c
      /\ nw.cache = None /\ nw.all = {} /\ nw.active = <<>> /\ nw.functions = {}
      /\ nw.loaded = {}
      /\ nw.handles = {} /\ nw.reused = FALSE
  BY SpawnedFacts
<1> HIDE DEF nw
<1>3. worker'[w] = nw /\ client'[c] = "attached"
  BY <1>1, Before
<1>4. /\ \A d \in Clients : w \notin cached[d]
      /\ standbyWorker # w /\ cached[c] = {}
      /\ \A v \in Workers : worker[v].serves # c
  BY <1>1, UnusedFacts, AwayFacts
<1>4a. nw.cache \notin CacheType
  BY <1>2, NoneIsNone
<1>5. Touches(w, c)
  BY <1>1, <1>2, <1>3, <1>4, <1>4a, Before DEF Touches
<1>5a. Entry(w, c)'
  BY <1>3, <1>4a DEF Entry
<1>6. WorkerOK(w)'
  BY <1>2, <1>3 DEF WorkerOK
<1>7. mods[c] = {} /\ fns[c] = {}
  BY <1>1, Before DEF ClientOK
<1>8. ClientOK(c)'
  BY <1>1, <1>3, Before DEF ClientOK
<1>9. ServedOK(nw, {}, {}, c \in outdated)
  <2>1. ToSet(<<>>) = {}
    BY ActiveLists
  <2> QED BY <1>2, <2>1 DEF ServedOK
<1>10. Served(w, c)'
  BY <1>1, <1>3, <1>7, <1>9 DEF Served
<1>11. \A v \in Workers : CachedIn(v, c)'
  BY <1>1, <1>4 DEF CachedIn
<1>12. StandbyOK'
  BY <1>1, <1>3, <1>4, StandbyUntouched
<1> QED BY <1>5, <1>5a, <1>6, <1>8, <1>10, <1>11, <1>12, TouchesKeeps

(* cuModuleLoadData.                                                       *)
LEMMA LoadModuleKeeps ==
  ASSUME KernelInv, NEW c \in Clients, NEW w \in Workers, NEW i \in Images,
         LoadModule(c, w, i)
  PROVE  KernelInv'
<1> DEFINE wk == worker[w]
           nw == LoadedModule(wk, i)
<1>1. /\ wk.serves = c /\ Len(wk.active) < MaxLoads /\ standbyWorker' = standbyWorker
      /\ worker' = [worker EXCEPT ![w] = nw] /\ mods' = [mods EXCEPT ![c] = @ \cup {i}]
      /\ client' = client /\ fns' = fns /\ saved' = saved /\ cached' = cached
      /\ outdated' = outdated
  BY DEF LoadModule, Serving
<1>2. /\ wk \in WorkerType /\ wk.functions \subseteq wk.loaded
  BY Before
<1>3. /\ client[c] = "attached" /\ cached[c] = {} /\ standbyWorker # w
      /\ ServedOK(wk, mods[c], fns[c], c \in outdated)
      /\ \A v \in Workers \ {w} : worker[v].serves # c
  BY <1>1, ServingFacts
<1> HIDE DEF wk
<1>4. /\ nw \in WorkerType /\ SameProcess(nw, wk)
      /\ nw.all = wk.all \cup {i} /\ ToSet(nw.active) = ToSet(wk.active) \cup {i}
      /\ nw.functions = wk.functions /\ nw.loaded = wk.loaded
      /\ nw.handles = wk.handles
  BY <1>1, <1>2, LoadedModuleFacts
<1> HIDE DEF nw
<1>5. worker'[w] = nw /\ mods'[c] = mods[c] \cup {i} /\ worker[w] = wk
  BY <1>1, Before DEF wk
<1>6. \A d \in Clients : w \in cached[d] => Keeps(wk, nw, d)
  <2>1. \A d \in Clients : w \in cached[d] =>
          wk.cache \in CacheType /\ d \in DOMAIN wk.cache
    BY <1>5, Before
  <2> QED BY <1>4, <2>1 DEF Keeps, SameProcess
<1>7. Touches(w, c) /\ Entry(w, c)'
  <2>1. OldEntries(wk.cache, nw.cache, c) \/ nw.cache \notin CacheType
    BY <1>4 DEF OldEntries, SameProcess
  <2>2. Touches(w, c)
    BY <1>1, <1>3, <1>4, <1>5, <1>6, <2>1, Before DEF Touches, SameProcess
  <2>3. Entry(w, c)'
    BY <1>1, <1>4, <1>5, Before DEF Entry, SameProcess
  <2> QED BY <2>2, <2>3
<1>8. WorkerOK(w)'
  BY <1>2, <1>4, <1>5 DEF WorkerOK
<1>9. ClientOK(c)'
  BY <1>1, <1>3, <1>5, Before DEF ClientOK
<1>10. ServedOK(nw, mods[c] \cup {i}, fns[c], c \in outdated)
  BY <1>3, <1>4 DEF ServedOK, SameProcess
<1>11. Served(w, c)'
  BY <1>1, <1>3, <1>5, <1>10 DEF Served
<1>12. \A v \in Workers : CachedIn(v, c)'
  BY <1>1, <1>3 DEF CachedIn
<1>13. StandbyOK'
  BY <1>1, <1>3, <1>5, StandbyUntouched
<1> QED BY <1>7, <1>8, <1>9, <1>11, <1>12, <1>13, TouchesKeeps

(* A server thread that dies: only of a client that is outdated.           *)
LEMMA DeathKeeps ==
  ASSUME KernelInv, NEW c \in Clients, NEW w \in Workers, worker[w].serves = c,
         c \in outdated, worker' = [worker EXCEPT ![w] = Dead(@)],
         standbyWorker' = standbyWorker, client' = client, mods' = mods, fns' = fns,
         saved' = saved, cached' = cached, outdated' = outdated
  PROVE  KernelInv'
<1> DEFINE wk == worker[w]
           nw == Dead(wk)
<1>2. /\ wk \in WorkerType /\ wk.functions \subseteq wk.loaded
  BY Before
<1>3. /\ client[c] = "attached" /\ cached[c] = {} /\ standbyWorker # w
      /\ ServedOK(wk, mods[c], fns[c], c \in outdated) /\ wk.serves = c
      /\ \A v \in Workers \ {w} : worker[v].serves # c
  BY ServingFacts
<1> HIDE DEF wk
<1>4. /\ nw \in WorkerType /\ nw.serves = wk.serves /\ nw.cache = wk.cache
      /\ nw.all = wk.all /\ nw.active = wk.active /\ nw.functions = wk.functions
      /\ nw.loaded = wk.loaded /\ nw.handles = wk.handles
  BY <1>2, DeadFacts
<1>5. worker'[w] = nw /\ worker[w] = wk
  BY Before DEF wk
<1> HIDE DEF nw
<1>6. \A d \in Clients : w \in cached[d] => Keeps(wk, nw, d)
  <2>1. \A d \in Clients : w \in cached[d] =>
          wk.cache \in CacheType /\ d \in DOMAIN wk.cache
    BY <1>5, Before
  <2> QED BY <1>4, <2>1 DEF Keeps
<1>7. Touches(w, c) /\ Entry(w, c)'
  <2>1. OldEntries(wk.cache, nw.cache, c) \/ nw.cache \notin CacheType
    BY <1>4 DEF OldEntries
  <2>2. Touches(w, c)
    BY <1>3, <1>4, <1>5, <1>6, <2>1, Before DEF Touches
  <2>3. Entry(w, c)'
    BY <1>4, <1>5, Before DEF Entry
  <2> QED BY <2>2, <2>3
<1>8. WorkerOK(w)'
  BY <1>2, <1>4, <1>5 DEF WorkerOK
<1>9. ClientOK(c)'
  BY Before DEF ClientOK
<1>10. ServedOK(nw, mods[c], fns[c], c \in outdated)
  BY <1>3, <1>4 DEF ServedOK
<1>11. Served(w, c)'
  BY <1>3, <1>5, <1>10 DEF Served
<1>12. \A v \in Workers : CachedIn(v, c)'
  BY <1>3 DEF CachedIn
<1>13. StandbyOK'
  BY <1>3, <1>5, StandbyUntouched
<1> QED BY <1>7, <1>8, <1>9, <1>11, <1>12, <1>13, TouchesKeeps

(* cuModuleGetFunction: the module is there, or the client is outdated.    *)
LEMMA GetFunctionKeeps ==
  ASSUME KernelInv, NEW c \in Clients, NEW w \in Workers, NEW i \in Images,
         GetFunction(c, w, i)
  PROVE  KernelInv'
<1> DEFINE wk == worker[w]
           fs == {i}
           nw == WithFunctions(wk, fs)
<1>1. /\ wk.serves = c /\ i \in mods[c] /\ standbyWorker' = standbyWorker
      /\ client' = client /\ mods' = mods /\ saved' = saved /\ cached' = cached
      /\ outdated' = outdated
  BY DEF GetFunction, Serving
<1>2. /\ wk \in WorkerType /\ wk.functions \subseteq wk.loaded
  BY Before
<1>3. /\ client[c] = "attached" /\ cached[c] = {} /\ standbyWorker # w
      /\ ServedOK(wk, mods[c], fns[c], c \in outdated)
      /\ \A v \in Workers \ {w} : worker[v].serves # c
  BY <1>1, ServingFacts
<1>a. CASE i \notin wk.all
  <2>1. worker' = [worker EXCEPT ![w] = Dead(@)] /\ fns' = fns
    BY <1>a DEF GetFunction
  <2>2. c \in outdated
    BY <1>1, <1>3, <1>a DEF ServedOK
  <2> QED BY <1>1, <2>1, <2>2, DeathKeeps
<1>b. CASE i \in wk.all
  <2>1. worker' = [worker EXCEPT ![w] = nw] /\ fns' = [fns EXCEPT ![c] = @ \cup {i}]
    BY <1>b DEF GetFunction
  <2> HIDE DEF wk
  <2>2. /\ nw \in WorkerType /\ SameProcess(nw, wk)
        /\ nw.all = wk.all /\ nw.active = wk.active
        /\ nw.functions = wk.functions \cup fs /\ nw.loaded = wk.loaded \cup fs
        /\ nw.handles = wk.handles \cup fs
    <3>1. fs \in SUBSET Images
      OBVIOUS
    <3> HIDE DEF fs
    <3> QED BY <1>2, <3>1, WithFunctionsFacts
  <2> HIDE DEF nw
  <2>3. worker'[w] = nw /\ fns'[c] = fns[c] \cup {i} /\ worker[w] = wk
    BY <2>1, Before DEF wk
  <2>4. \A d \in Clients : w \in cached[d] => Keeps(wk, nw, d)
    <3>1. \A d \in Clients : w \in cached[d] =>
            wk.cache \in CacheType /\ d \in DOMAIN wk.cache
      BY <2>3, Before
    <3> QED BY <2>2, <3>1 DEF Keeps, SameProcess
  <2>5. Touches(w, c) /\ Entry(w, c)'
    <3>1. OldEntries(wk.cache, nw.cache, c) \/ nw.cache \notin CacheType
      BY <2>2 DEF OldEntries, SameProcess
    <3>2. Touches(w, c)
      BY <1>1, <1>3, <2>1, <2>2, <2>3, <2>4, <3>1, Before DEF Touches, SameProcess
    <3>3. Entry(w, c)'
      BY <2>2, <2>3, Before DEF Entry, SameProcess
    <3> QED BY <3>2, <3>3
  <2>6. WorkerOK(w)'
    BY <1>2, <2>2, <2>3 DEF WorkerOK
  <2>7. ClientOK(c)'
    BY <1>1, <1>3, <2>3, Before DEF ClientOK
  <2>8. ServedOK(nw, mods[c], fns[c] \cup {i}, c \in outdated)
    BY <1>3, <2>2 DEF ServedOK, SameProcess
  <2>9. Served(w, c)'
    BY <1>1, <1>3, <2>3, <2>8 DEF Served
  <2>10. \A v \in Workers : CachedIn(v, c)'
    BY <1>1, <1>3 DEF CachedIn
  <2>11. StandbyOK'
    BY <1>1, <1>3, <2>1, <2>3, StandbyUntouched
  <2> QED BY <2>5, <2>6, <2>7, <2>9, <2>10, <2>11, TouchesKeeps
<1> QED BY <1>a, <1>b

(* Writing an image panics only for a client that is outdated.             *)
LEMMA DumpPanicsKeeps ==
  ASSUME KernelInv, NEW c \in Clients, NEW w \in Workers, DumpPanics(c, w)
  PROVE  KernelInv'
<1>1. /\ worker[w].serves = c /\ ~Dumpable(worker[w])
      /\ worker' = [worker EXCEPT ![w] = Dead(@)] /\ standbyWorker' = standbyWorker
      /\ client' = client /\ mods' = mods /\ fns' = fns /\ saved' = saved
      /\ cached' = cached /\ outdated' = outdated
  BY DEF DumpPanics, Serving, clientVars
<1>2. ServedOK(worker[w], mods[c], fns[c], c \in outdated)
  BY <1>1, ServingFacts
<1>3. c \in outdated
  BY <1>1, <1>2 DEF ServedOK, Dumpable
<1> QED BY <1>1, <1>3, DeathKeeps

(* What a checkpoint or a detach saves is what the client has.             *)
LEMMA CheckpointSaves ==
  ASSUME NEW wk \in WorkerType, NEW m, NEW f, NEW out, ServedOK(wk, m, f, out)
  PROVE  /\ SavedOK(Checkpoint(wk), m, f, out)
         /\ Checkpoint(wk).functions = wk.functions
         /\ Checkpoint(wk) \in SavedType
         /\ ToSet(Checkpoint(wk).active) \subseteq Checkpoint(wk).modules
<1> DEFINE s == Checkpoint(wk)
<1>1. /\ s \in SavedType /\ s.active = wk.active /\ s.functions = wk.functions
      /\ s.modules = ToSet(wk.active) /\ s.handles = wk.handles
  BY CheckpointFacts
<1> HIDE DEF s
<1>2. /\ SavedOK(s, m, f, out) /\ s.functions = wk.functions /\ s \in SavedType
      /\ ToSet(s.active) \subseteq s.modules
  BY <1>1 DEF SavedOK, ServedOK
<1> QED BY <1>2 DEF s

(* The client of a process that ends goes to disk.                         *)
LEMMA CheckpointProcessKeeps ==
  ASSUME KernelInv, NEW c \in Clients, NEW w \in Workers, CheckpointProcess(c, w)
  PROVE  KernelInv'
<1> DEFINE s == Checkpoint(worker[w])
<1>1. /\ worker[w].serves = c /\ saved' = [saved EXCEPT ![c] = s]
      /\ worker' = [worker EXCEPT ![w] = NoWorker]
      /\ client' = [client EXCEPT ![c] = "onDisk"]
      /\ cached' = [d \in Clients |-> IF d = c THEN {} ELSE cached[d] \ {w}]
      /\ standbyWorker' = standbyWorker /\ mods' = mods /\ fns' = fns
      /\ outdated' = outdated
  BY DEF CheckpointProcess, Serving, clientVars
<1>2. /\ standbyWorker # w /\ ServedOK(worker[w], mods[c], fns[c], c \in outdated)
      /\ \A v \in Workers \ {w} : worker[v].serves # c
      /\ client[c] = "attached"
  BY <1>1, ServingFacts
<1>3. /\ SavedOK(s, mods[c], fns[c], c \in outdated) /\ s \in SavedType
      /\ ToSet(s.active) \subseteq s.modules
  BY <1>2, Before, CheckpointSaves
<1> HIDE DEF s
<1>4. worker'[w] = NoWorker /\ client'[c] = "onDisk" /\ saved'[c] = s
  BY <1>1, Before
<1>5. /\ cached' \in [Clients -> SUBSET Workers] /\ cached'[c] = {}
      /\ \A d \in Clients : w \notin cached'[d] /\ cached'[d] \subseteq cached[d]
  BY <1>1, Before
<1>6. /\ NoWorker \in WorkerType /\ NoWorker.serves = None /\ NoWorker.functions = {}
      /\ NoWorker.cache \notin CacheType /\ None \notin Clients
  BY NoWorkerFacts, NoneIsNone
<1>7. Touches(w, c)
  BY <1>1, <1>2, <1>4, <1>5, <1>6, Before DEF Touches
<1>8. WorkerOK(w)' /\ Entry(w, c)' /\ Served(w, c)'
  BY <1>4, <1>6 DEF WorkerOK, Entry, Served
<1>9. ClientOK(c)'
  BY <1>1, <1>3, <1>4, Before DEF ClientOK
<1>10. \A v \in Workers : CachedIn(v, c)'
  BY <1>5 DEF CachedIn
<1>11. StandbyOK'
  BY <1>1, <1>2, <1>4, StandbyUntouched
<1> QED BY <1>7, <1>8, <1>9, <1>10, <1>11, TouchesKeeps

(* A client comes back, to a new process, with what was saved.             *)
LEMMA ComesBack ==
  ASSUME KernelInv, NEW c \in Clients, NEW w \in Workers, Unused(w),
         client[c] \in {"parked", "onDisk"},
         worker' = [worker EXCEPT ![w] =
           Replayed(Restored([Spawned EXCEPT !.serves = c], saved[c]), saved[c])],
         client' = [client EXCEPT ![c] = "attached"],
         cached' = [cached EXCEPT ![c] = {}],
         standbyWorker' = standbyWorker, mods' = mods, fns' = fns, saved' = saved,
         outdated' = outdated
  PROVE  KernelInv'
<1> DEFINE s == saved[c]
           nw == Replayed(Restored([Spawned EXCEPT !.serves = c], s), s)
<1>1. worker' = [worker EXCEPT ![w] = nw]
  OBVIOUS
<1>2. SavedOK(s, mods[c], fns[c], c \in outdated) /\ fns[c] \subseteq mods[c]
  BY Before DEF ClientOK
<1>3. s \in SavedType /\ s.handles \subseteq s.modules
  BY <1>2 DEF SavedOK
<1>4. /\ nw \in WorkerType /\ nw.proc = "running" /\ nw.serves = c
      /\ nw.cache = None /\ nw.all = s.modules /\ nw.active = s.active
      /\ nw.functions = s.handles /\ nw.loaded = s.handles
      /\ nw.handles = s.handles /\ nw.reused = FALSE
  BY <1>3, RestoredFacts
<1> HIDE DEF nw
<1>5. worker'[w] = nw /\ client'[c] = "attached"
  BY <1>1, Before
<1>6. /\ \A d \in Clients : w \notin cached[d]
      /\ standbyWorker # w
      /\ \A v \in Workers : worker[v].serves # c
  BY UnusedFacts, AwayFacts
<1>7. /\ cached' \in [Clients -> SUBSET Workers] /\ cached'[c] = {}
      /\ \A d \in Clients : w \notin cached'[d] /\ cached'[d] \subseteq cached[d]
  BY <1>6, Before
<1>8. nw.cache \notin CacheType
  BY <1>4, NoneIsNone
<1>9. Touches(w, c)
  BY <1>1, <1>4, <1>5, <1>6, <1>7, <1>8, Before DEF Touches
<1>10. WorkerOK(w)' /\ Entry(w, c)'
  BY <1>4, <1>5, <1>8 DEF WorkerOK, Entry
<1>11. ClientOK(c)'
  BY <1>5, Before DEF ClientOK
<1>12. ServedOK(nw, mods[c], fns[c], c \in outdated)
  BY <1>2, <1>4 DEF ServedOK, SavedOK
<1>13. Served(w, c)'
  BY <1>5, <1>12 DEF Served
<1>14. \A v \in Workers : CachedIn(v, c)'
  BY <1>7 DEF CachedIn
<1>15. StandbyOK'
  BY <1>1, <1>5, <1>6, StandbyUntouched
<1> QED BY <1>9, <1>10, <1>11, <1>13, <1>14, <1>15, TouchesKeeps

(* A restore from disk.                                                    *)
LEMMA RestoreProcessKeeps ==
  ASSUME KernelInv, NEW c \in Clients, NEW w \in Workers, RestoreProcess(c, w)
  PROVE  KernelInv'
<1>1. /\ client[c] = "onDisk" /\ Unused(w) /\ cached' = cached
      /\ worker' = [worker EXCEPT ![w] =
           Replayed(Restored([Spawned EXCEPT !.serves = c], saved[c]), saved[c])]
      /\ client' = [client EXCEPT ![c] = "attached"]
      /\ standbyWorker' = standbyWorker /\ mods' = mods /\ fns' = fns /\ saved' = saved
      /\ outdated' = outdated
  BY DEF RestoreProcess, clientVars
<1>2. cached' = [cached EXCEPT ![c] = {}]
  <2>1. cached[c] = {} /\ cached \in [Clients -> SUBSET Workers]
    BY <1>1, AwayFacts DEF KernelInv, Shapes
  <2> QED BY <1>1, <2>1
<1> QED BY <1>1, <1>2, ComesBack

(* An attach to a new worker.                                              *)
LEMMA AttachColdKeeps ==
  ASSUME KernelInv, NEW c \in Clients, NEW w \in Workers, AttachCold(c, w)
  PROVE  KernelInv'
BY ComesBack DEF AttachCold, clientVars

(* A detach: the worker ends, or keeps the handles and becomes the standby *)
(* worker.                                                                 *)
LEMMA DetachKeeps ==
  ASSUME KernelInv, NEW c \in Clients, NEW w \in Workers, Detach(c, w)
  PROVE  KernelInv'
<1> DEFINE wk == worker[w]
           s == Checkpoint(wk)
           nw == [wk EXCEPT !.serves = None, !.handles = {}, !.reused = FALSE,
                            !.cache = [d \in DOMAIN @ \cup {c} |->
                                         IF d = c THEN wk.handles ELSE @[d]]]
<1>1. /\ wk.serves = c /\ wk.proc = "running" /\ Dumpable(wk)
      /\ saved' = [saved EXCEPT ![c] = s]
      /\ client' = [client EXCEPT ![c] = "parked"]
      /\ mods' = mods /\ fns' = fns /\ outdated' = outdated
  BY DEF Detach, Serving, clientVars
<1>2. /\ standbyWorker # w /\ ServedOK(wk, mods[c], fns[c], c \in outdated)
      /\ \A v \in Workers \ {w} : worker[v].serves # c
  BY <1>1, ServingFacts
<1>3. /\ SavedOK(s, mods[c], fns[c], c \in outdated) /\ s \in SavedType
      /\ ToSet(s.active) \subseteq s.modules /\ s.functions = wk.functions
  BY <1>2, Before, CheckpointSaves
<1>4. client'[c] = "parked" /\ saved'[c] = s
  BY <1>1, Before
<1>5. ClientOK(c)'
  <2> HIDE DEF s
  <2> QED BY <1>1, <1>3, <1>4, Before DEF ClientOK
<1>6. None \notin Clients
  BY NoneIsNone
<1>a. CASE wk.cache = None
  <2>1. /\ worker' = [worker EXCEPT ![w] = NoWorker]
        /\ cached' = [cached EXCEPT ![c] = {}] /\ standbyWorker' = standbyWorker
    BY <1>a DEF Detach
  <2>2. worker'[w] = NoWorker
    BY <2>1, Before
  <2>3. \A d \in Clients : w \notin cached[d]
    <3>1. wk.cache \notin CacheType
      BY <1>a, NoneIsNone
    <3> QED BY <3>1, Before
  <2>4. /\ cached' \in [Clients -> SUBSET Workers] /\ cached'[c] = {}
        /\ \A d \in Clients : w \notin cached'[d] /\ cached'[d] \subseteq cached[d]
    BY <2>1, <2>3, Before
  <2>5. /\ NoWorker \in WorkerType /\ NoWorker.serves = None /\ NoWorker.functions = {}
        /\ NoWorker.cache \notin CacheType
    BY NoWorkerFacts, NoneIsNone
  <2> HIDE DEF s
  <2>6. Touches(w, c)
    BY <1>1, <1>2, <1>4, <2>1, <2>2, <2>4, <2>5, Before DEF Touches
  <2>7. WorkerOK(w)' /\ Entry(w, c)' /\ Served(w, c)'
    BY <1>6, <2>2, <2>5 DEF WorkerOK, Entry, Served
  <2>8. \A v \in Workers : CachedIn(v, c)'
    BY <2>4 DEF CachedIn
  <2>9. StandbyOK'
    BY <1>2, <2>1, <2>2, StandbyUntouched
  <2> QED BY <1>5, <2>6, <2>7, <2>8, <2>9, TouchesKeeps
<1>b. CASE wk.cache # None
  <2>1. /\ worker' = [worker EXCEPT ![w] = nw]
        /\ cached' = [cached EXCEPT ![c] = {w}] /\ standbyWorker' = w
    BY <1>b DEF Detach
  <2>2. wk \in WorkerType /\ wk.functions \subseteq wk.loaded /\ worker[w] = wk
    BY Before
  <2>3. wk.cache \in CacheType
    BY <1>b, <2>2, WorkerFields
  <2> HIDE DEF wk, s
  <2>4. /\ nw \in WorkerType /\ nw.proc = wk.proc /\ nw.serves = None
        /\ nw.all = wk.all /\ nw.functions = wk.functions /\ nw.loaded = wk.loaded
        /\ nw.cache \in CacheType /\ DOMAIN nw.cache = DOMAIN wk.cache \cup {c}
        /\ nw.cache[c] = wk.handles
        /\ \A d \in DOMAIN wk.cache : d # c => nw.cache[d] = wk.cache[d]
    BY <2>2, <2>3, ParkedFacts
  <2> HIDE DEF nw
  <2>5. worker'[w] = nw
    BY <2>1, Before
  <2>6. \A d \in Clients \ {c} : w \in cached[d] => Keeps(wk, nw, d)
    <3>1. \A d \in Clients : w \in cached[d] => d \in DOMAIN wk.cache
      BY <2>2, Before
    <3> QED BY <2>4, <3>1 DEF Keeps
  <2>7. OldEntries(wk.cache, nw.cache, c)
    BY <2>3, <2>4 DEF OldEntries
  <2>8. /\ cached' \in [Clients -> SUBSET Workers] /\ cached'[c] = {w}
        /\ \A d \in Clients \ {c} : cached'[d] = cached[d]
    BY <2>1, Before
  <2>9. Touches(w, c)
    BY <1>1, <1>2, <1>4, <2>1, <2>2, <2>4, <2>5, <2>6, <2>7, <2>8, Before DEF Touches
  <2>10. WorkerOK(w)' /\ Served(w, c)'
    BY <1>6, <2>2, <2>4, <2>5 DEF WorkerOK, Served
  <2>11. Entry(w, c)'
    BY <1>1, <1>2, <2>4, <2>5 DEF Entry, ServedOK
  <2>12. KeptOK(nw, c, s, mods[c], fns[c], c \in outdated)
    BY <1>1, <1>2, <1>3, <2>2, <2>4 DEF KeptOK, ServedOK, Dumpable
  <2>13. \A v \in Workers : CachedIn(v, c)'
    BY <1>1, <1>4, <2>5, <2>8, <2>12 DEF CachedIn
  <2>14. StandbyOK'
    BY <1>1, <2>1, <2>4, <2>5 DEF StandbyOK
  <2> QED BY <1>5, <2>9, <2>10, <2>11, <2>13, <2>14, TouchesKeeps
<1> QED BY <1>a, <1>b

(* A warm attach: the worker of the cache takes the client over.  Unless   *)
(* the entry was older than the snapshot, the modules are there, and the   *)
(* handles are replayed or are all that the client has.                    *)
LEMMA AttachStandbyKeeps ==
  ASSUME KernelInv, NEW c \in Clients, NEW w \in Workers, AttachStandby(c, w)
  PROVE  KernelInv'
<1> DEFINE wk == worker[w]
           s == saved[c]
           m == mods[c]
           f == fns[c]
           kept == wk.cache[c]
           warm == TakenOver(wk, s, c, kept)
           nw == IF kept = {} THEN Replayed(warm, s) ELSE warm
<1>1. /\ client[c] = "parked" /\ w = standbyWorker /\ standbyWorker # None
      /\ c \in DOMAIN wk.cache /\ worker' = [worker EXCEPT ![w] = nw]
      /\ client' = [client EXCEPT ![c] = "attached"]
      /\ cached' = [cached EXCEPT ![c] = {}]
      /\ outdated' = IF w \in cached[c] THEN outdated ELSE outdated \cup {c}
      /\ standbyWorker' = None /\ mods' = mods /\ fns' = fns /\ saved' = saved
  BY DEF AttachStandby, TakesStandby, TakenOver, clientVars
<1>2. wk \in WorkerType /\ wk.functions \subseteq wk.loaded /\ worker[w] = wk
  BY Before
<1>3. wk.proc = "running" /\ wk.serves = None /\ wk.cache \in CacheType
  BY <1>1 DEF KernelInv, StandbyOK
<1>4. SavedOK(s, m, f, c \in outdated) /\ f \subseteq m
  BY <1>1, Before DEF ClientOK
<1>5. /\ s \in SavedType /\ s.handles \subseteq f /\ s.modules = m
      /\ ToSet(s.active) = m
  BY <1>4 DEF SavedOK
<1>6. kept \subseteq f
  BY <1>1, <1>3, Before DEF Entry
<1>7. kept \in SUBSET Images
  <2>1. PICK cs \in SUBSET Clients : wk.cache \in [cs -> SUBSET Images]
    BY <1>3 DEF CacheType
  <2> QED BY <1>1, <2>1
<1>8. c \notin outdated' =>
        /\ s.handles = f /\ m \subseteq wk.all
        /\ kept = {} \/ (kept = f /\ f \subseteq wk.loaded)
  <2> SUFFICES ASSUME c \notin outdated'
               PROVE  /\ s.handles = f /\ m \subseteq wk.all
                      /\ kept = {} \/ (kept = f /\ f \subseteq wk.loaded)
    OBVIOUS
  <2>1. w \in cached[c] /\ c \notin outdated
    BY <1>1
  <2>2. KeptOK(wk, c, s, m, f, c \in outdated)
    BY <2>1, Before DEF CachedIn
  <2> QED BY <1>4, <2>1, <2>2 DEF KeptOK, SavedOK
<1> HIDE DEF kept, wk, s, m, f
<1>9. /\ warm \in WorkerType /\ warm.proc = wk.proc /\ warm.serves = c
      /\ warm.all = wk.all /\ warm.active = s.active /\ warm.functions = {}
      /\ warm.loaded = wk.loaded /\ warm.handles = kept
      /\ warm.reused = (kept # {}) /\ warm.cache \in CacheType
      /\ DOMAIN warm.cache = DOMAIN wk.cache \ {c}
      /\ \A d \in DOMAIN wk.cache : d # c => warm.cache[d] = wk.cache[d]
  BY <1>2, <1>3, <1>5, <1>7, WarmFacts
<1> HIDE DEF warm
<1>10. /\ nw \in WorkerType /\ nw.serves = c /\ nw.cache = warm.cache
       /\ nw.all = wk.all /\ nw.functions \subseteq nw.loaded
       /\ wk.loaded \subseteq nw.loaded
       /\ ServedOK(nw, m, f, c \in outdated')
  <2>1. CASE kept # {}
    <3>1. nw = warm
      BY <2>1
    <3> HIDE DEF nw
    <3>2. ServedOK(nw, m, f, c \in outdated')
      BY <1>3, <1>5, <1>6, <1>8, <1>9, <2>1, <3>1 DEF ServedOK
    <3> QED BY <1>9, <3>1, <3>2
  <2>2. CASE kept = {} /\ s.handles \subseteq warm.all
    <3>1. nw = Replayed(warm, s)
      BY <2>2
    <3> HIDE DEF nw
    <3>2. /\ nw \in WorkerType /\ SameProcess(nw, warm)
          /\ nw.all = warm.all /\ nw.active = warm.active
          /\ nw.functions = warm.functions \cup s.handles
          /\ nw.loaded = warm.loaded \cup s.handles
          /\ nw.handles = warm.handles \cup s.handles
      BY <1>5, <1>9, <2>2, <3>1, ReplayedFacts
    <3>3. /\ nw.functions = s.handles /\ nw.handles = s.handles
          /\ s.handles \subseteq nw.loaded
      BY <1>9, <2>2, <3>2
    <3>4. nw.proc = "running" /\ nw.serves = c /\ nw.cache = warm.cache /\ nw.all = wk.all
      BY <1>3, <1>9, <3>2 DEF SameProcess
    <3>5. ServedOK(nw, m, f, c \in outdated')
      BY <1>5, <1>8, <1>9, <3>2, <3>3, <3>4 DEF ServedOK
    <3>6. wk.loaded \subseteq nw.loaded
      BY <1>9, <3>2
    <3> QED BY <3>2, <3>3, <3>4, <3>5, <3>6
  <2>3. CASE kept = {} /\ ~(s.handles \subseteq warm.all)
    <3>1. nw = Dead(warm)
      BY <2>3 DEF Replayed
    <3> HIDE DEF nw
    <3>2. /\ nw \in WorkerType /\ nw.serves = warm.serves /\ nw.cache = warm.cache
          /\ nw.all = warm.all /\ nw.active = warm.active
          /\ nw.functions = warm.functions
          /\ nw.loaded = warm.loaded /\ nw.handles = warm.handles
      BY <1>9, <3>1, DeadFacts
    <3>3. c \in outdated'
      BY <1>4, <1>5, <1>8, <1>9, <2>3
    <3>4. ServedOK(nw, m, f, c \in outdated')
      BY <1>5, <1>6, <1>9, <3>2, <3>3 DEF ServedOK
    <3> QED BY <1>9, <3>2, <3>4
  <2> QED BY <2>1, <2>2, <2>3
<1> HIDE DEF nw
<1>11. worker'[w] = nw /\ client'[c] = "attached"
  BY <1>1, Before
<1>12. \A d \in Clients \ {c} : w \in cached[d] => Keeps(wk, nw, d)
  <2>1. \A d \in Clients : w \in cached[d] => d \in DOMAIN wk.cache
    BY <1>2, Before
  <2> QED BY <1>9, <1>10, <2>1 DEF Keeps
<1>13. OldEntries(wk.cache, nw.cache, c)
  BY <1>3, <1>9, <1>10 DEF OldEntries
<1>14. /\ cached' \in [Clients -> SUBSET Workers] /\ cached'[c] = {}
       /\ \A d \in Clients \ {c} : cached'[d] = cached[d]
  BY <1>1, Before
<1>15. /\ outdated' \subseteq Clients
       /\ \A d \in Clients \ {c} : d \in outdated' <=> d \in outdated
  BY <1>1, Before
<1>16. \A v \in Workers : worker[v].serves # c
  BY <1>1, AwayFacts
<1>17. Touches(w, c)
  BY <1>1, <1>2, <1>10, <1>11, <1>12, <1>13, <1>14, <1>15, <1>16, Before DEF Touches
<1>18. WorkerOK(w)'
  BY <1>10, <1>11 DEF WorkerOK
<1>19. Entry(w, c)'
  BY <1>9, <1>10, <1>11 DEF Entry
<1>20. ClientOK(c)'
  BY <1>1, <1>11, Before DEF ClientOK
<1>21. Served(w, c)'
  BY <1>1, <1>10, <1>11 DEF Served, m, f
<1>22. \A v \in Workers : CachedIn(v, c)'
  BY <1>14 DEF CachedIn
<1>23. StandbyOK'
  BY <1>1 DEF StandbyOK
<1> QED BY <1>17, <1>18, <1>19, <1>20, <1>21, <1>22, <1>23, TouchesKeeps

(* A step that makes or ends the standby worker, with every client as it   *)
(* was.                                                                    *)
LEMMA StandbyStep ==
  ASSUME KernelInv, NEW w \in Workers,
         worker' = [worker EXCEPT ![w] = worker'[w]], WorkerOK(w)',
         worker'[w].serves = None,
         \A d \in Clients : Entry(w, d)' /\ CachedIn(w, d)',
         cached' \in [Clients -> SUBSET Workers],
         \A d \in Clients : cached'[d] \subseteq cached[d] \cup {w},
         client' = client, mods' = mods, fns' = fns, saved' = saved,
         outdated' = outdated, StandbyOK'
  PROVE  KernelInv'
<1>0. Shapes /\ None \notin Clients
  BY NoneIsNone DEF KernelInv
<1>1. Shapes'
  BY <1>0 DEF Shapes
<1>2. \A v \in Workers \ {w} : worker'[v] = worker[v]
  BY <1>0 DEF Shapes
<1>3. ASSUME NEW v \in Workers PROVE WorkerOK(v)'
  <2>1. CASE v # w
    <3>1. worker'[v] = worker[v] /\ WorkerOK(v)
      BY <1>2, <2>1 DEF KernelInv
    <3> QED BY <3>1 DEF WorkerOK
  <2> QED BY <2>1
<1>4. ASSUME NEW d \in Clients PROVE ClientOK(d)'
  BY DEF KernelInv, ClientOK
<1>5. ASSUME NEW v \in Workers, NEW d \in Clients
      PROVE  Served(v, d)' /\ CachedIn(v, d)' /\ Entry(v, d)'
  <2>1. CASE v = w
    <3>1. worker'[w].serves # d
      BY <1>0
    <3> QED BY <2>1, <3>1 DEF Served
  <2>2. CASE v # w
    <3>1. worker'[v] = worker[v] /\ Served(v, d) /\ CachedIn(v, d) /\ Entry(v, d)
      BY <1>2, <2>2 DEF KernelInv
    <3>2. v \in cached'[d] => v \in cached[d]
      BY <2>2
    <3> QED BY <3>1, <3>2 DEF Served, CachedIn, Entry
  <2> QED BY <2>1, <2>2
<1>6. ServedOnce'
  BY <1>2 DEF KernelInv, ServedOnce
<1> QED BY <1>1, <1>3, <1>4, <1>5, <1>6 DEF KernelInv

(* standby: whatever the order of the clients, each finds its modules.     *)
LEMMA StandbyKeeps ==
  ASSUME KernelInv, NEW n \in Nat, NEW order \in [1..n -> Clients], NEW w \in Workers,
         Standby(order, w)
  PROVE  KernelInv'
<1> DEFINE cs == ToSet(order)
           nw == StandbyLoaded([Spawned EXCEPT !.cache = [c \in cs |-> {}]], order)
<1>1. /\ standbyWorker = None /\ Unused(w) /\ \A c \in cs : client[c] = "parked"
      /\ worker' = [worker EXCEPT ![w] = nw]
      /\ cached' = [c \in Clients |-> IF c \in cs THEN cached[c] \cup {w} ELSE cached[c]]
      /\ standbyWorker' = w /\ client' = client /\ mods' = mods /\ fns' = fns
      /\ saved' = saved /\ outdated' = outdated
  BY DEF Standby, clientVars
<1>2. cs \subseteq Clients /\ \A i \in 1..n : order[i] \in cs
  BY DEF ToSet
<1>3. \A c \in cs : SavedOK(saved[c], mods[c], fns[c], c \in outdated)
                      /\ fns[c] \subseteq mods[c]
  BY <1>1, <1>2 DEF KernelInv, ClientOK
<1>4. /\ nw \in WorkerType /\ nw.proc = "running" /\ nw.serves = None
      /\ nw.functions = {} /\ nw.cache \in CacheType /\ DOMAIN nw.cache = cs
      /\ \A c \in cs :
           /\ nw.cache[c] = {} /\ saved[c].modules \subseteq nw.all
           /\ saved[c].functions \subseteq saved[c].modules =>
                saved[c].functions \subseteq nw.loaded
  <2>1. \A i \in 1..n : saved[order[i]] \in SavedType
    BY <1>2, <1>3 DEF SavedOK
  <2> QED BY <2>1, StandbyFacts
<1> HIDE DEF nw, cs
<1>5. worker'[w] = nw
  BY <1>1 DEF KernelInv, Shapes
<1>6. \A d \in Clients : w \notin cached[d]
  BY <1>1, UnusedFacts
<1>7. ASSUME NEW d \in Clients PROVE Entry(w, d)' /\ CachedIn(w, d)'
  <2>1. Entry(w, d)'
    BY <1>4, <1>5 DEF Entry
  <2>2. CASE d \in cs
    <3>1. KeptOK(nw, d, saved[d], mods[d], fns[d], d \in outdated)
      BY <1>3, <1>4, <2>2 DEF KeptOK, SavedOK
    <3> QED BY <1>1, <1>5, <2>1, <2>2, <3>1 DEF CachedIn
  <2>3. CASE d \notin cs
    <3>1. w \notin cached'[d]
      BY <1>1, <1>6, <2>3
    <3> QED BY <2>1, <3>1 DEF CachedIn
  <2> QED BY <2>2, <2>3
<1>8. /\ cached' \in [Clients -> SUBSET Workers]
      /\ \A d \in Clients : cached'[d] \subseteq cached[d] \cup {w}
  <2>1. cached \in [Clients -> SUBSET Workers]
    BY DEF KernelInv, Shapes
  <2> QED BY <1>1, <2>1
<1>9. WorkerOK(w)' /\ worker'[w].serves = None /\ StandbyOK'
  BY <1>1, <1>4, <1>5 DEF WorkerOK, StandbyOK
<1>10. worker' = [worker EXCEPT ![w] = worker'[w]]
  BY <1>1, <1>5
<1> QED BY <1>1, <1>7, <1>8, <1>9, <1>10, StandbyStep

(* The standby worker ends.                                                *)
LEMMA StandbyEndsKeeps ==
  ASSUME KernelInv, StandbyEnds
  PROVE  KernelInv'
<1>1. PICK w \in Workers : w = standbyWorker
  BY DEF StandbyEnds, KernelInv, StandbyOK
<1>2. /\ w # None /\ worker' = [worker EXCEPT ![w] = NoWorker]
      /\ cached' = [c \in Clients |-> cached[c] \ {w}] /\ standbyWorker' = None
      /\ client' = client /\ mods' = mods /\ fns' = fns /\ saved' = saved
      /\ outdated' = outdated
  BY <1>1 DEF StandbyEnds, clientVars
<1>3. /\ NoWorker \in WorkerType /\ NoWorker.serves = None /\ NoWorker.functions = {}
      /\ NoWorker.cache \notin CacheType
  BY NoWorkerFacts, NoneIsNone
<1>4. worker'[w] = NoWorker
  BY <1>2 DEF KernelInv, Shapes
<1>5. \A d \in Clients : Entry(w, d)' /\ CachedIn(w, d)'
  BY <1>2, <1>3, <1>4 DEF Entry, CachedIn
<1>6. /\ cached' \in [Clients -> SUBSET Workers]
      /\ \A d \in Clients : cached'[d] \subseteq cached[d] \cup {w}
  <2>1. cached \in [Clients -> SUBSET Workers]
    BY DEF KernelInv, Shapes
  <2> QED BY <1>2, <2>1
<1>7. WorkerOK(w)' /\ worker'[w].serves = None /\ StandbyOK'
  BY <1>2, <1>3, <1>4 DEF WorkerOK, StandbyOK
<1>8. worker' = [worker EXCEPT ![w] = worker'[w]]
  BY <1>2, <1>4
<1> QED BY <1>2, <1>5, <1>6, <1>7, <1>8, StandbyStep

-----------------------------------------------------------------------------
(* The theorems                                                            *)

(* The initial state satisfies the invariant.                              *)
LEMMA InitKernels ==
  Init => KernelInv
<1> SUFFICES ASSUME Init PROVE KernelInv
  OBVIOUS
<1>1. /\ worker = [w \in Workers |-> NoWorker] /\ standbyWorker = None
      /\ client = [c \in Clients |-> "new"]
      /\ mods = [c \in Clients |-> {}] /\ fns = [c \in Clients |-> {}]
      /\ saved = [c \in Clients |-> None] /\ cached = [c \in Clients |-> {}]
      /\ outdated = {}
  BY DEF Init
<1>2. /\ NoWorker \in WorkerType /\ NoWorker.serves = None /\ NoWorker.functions = {}
      /\ NoWorker.cache \notin CacheType /\ None \notin Clients
  BY NoWorkerFacts, NoneIsNone
<1>3. Shapes
  BY <1>1 DEF Shapes
<1>4. \A w \in Workers : WorkerOK(w)
  BY <1>1, <1>2 DEF WorkerOK
<1>5. \A c \in Clients : ClientOK(c)
  BY <1>1 DEF ClientOK
<1>6. \A w \in Workers, c \in Clients : Served(w, c) /\ CachedIn(w, c) /\ Entry(w, c)
  BY <1>1, <1>2 DEF Served, CachedIn, Entry
<1>7. ServedOnce /\ StandbyOK
  BY <1>1, <1>2 DEF ServedOnce, StandbyOK
<1> QED BY <1>3, <1>4, <1>5, <1>6, <1>7 DEF KernelInv

(* Every step keeps the invariant.                                         *)
LEMMA NextKeepsKernels ==
  KernelInv /\ [Next]_vars => KernelInv'
<1> SUFFICES ASSUME KernelInv, [Next]_vars PROVE KernelInv'
  OBVIOUS
<1>1. ASSUME NEW c \in Clients, NEW w \in Workers,
             \/ Create(c, w)
             \/ \E i \in Images : LoadModule(c, w, i) \/ GetFunction(c, w, i)
             \/ CheckpointProcess(c, w) \/ RestoreProcess(c, w)
             \/ Detach(c, w) \/ DumpPanics(c, w)
             \/ AttachStandby(c, w) \/ AttachCold(c, w)
      PROVE  KernelInv'
  BY <1>1, CreateKeeps, LoadModuleKeeps, GetFunctionKeeps, CheckpointProcessKeeps,
     RestoreProcessKeeps, DetachKeeps, DumpPanicsKeeps, AttachStandbyKeeps,
     AttachColdKeeps
<1>2. ASSUME NEW n \in 1..Cardinality(Clients), NEW order \in Injection(1..n, Clients),
             NEW w \in Workers, Standby(order, w)
      PROVE  KernelInv'
  <2>1. n \in Nat /\ order \in [1..n -> Clients]
    <3>1. Cardinality(Clients) \in Nat
      BY FS_CardinalityType, KernelAssumption
    <3> QED BY <3>1 DEF Injection
  <2> QED BY <1>2, <2>1, StandbyKeeps
<1>3. CASE StandbyEnds
  BY <1>3, StandbyEndsKeeps
<1>4. CASE UNCHANGED vars
  <2>1. /\ worker' = worker /\ standbyWorker' = standbyWorker /\ client' = client
        /\ mods' = mods /\ fns' = fns /\ saved' = saved /\ cached' = cached
        /\ outdated' = outdated
    BY <1>4 DEF vars
  <2> QED BY <2>1 DEF KernelInv, Shapes, WorkerOK, ClientOK, Served, CachedIn, Entry,
                      ServedOnce, StandbyOK
<1> QED BY <1>1, <1>2, <1>3, <1>4 DEF Next

(* The inductive invariant holds: one worker serves a client, with its     *)
(* modules; a snapshot has them too; and cache entries that are as new as  *)
(* the snapshot are backed by modules that are really loaded.              *)
THEOREM KernelInvariant == Spec => []KernelInv
BY InitKernels, NextKeepsKernels, PTL DEF Spec

(* Every variable has its type, and an image holds every module that it    *)
(* calls active.                                                           *)
THEOREM KernelTypes == Spec => []TypeOK
<1>1. ASSUME KernelInv PROVE TypeOK
  <2>1. Shapes /\ \A w \in Workers : WorkerOK(w)
    BY <1>1 DEF KernelInv
  <2>2. \A c \in Clients : ClientOK(c)
    BY <1>1 DEF KernelInv
  <2>3. worker \in [Workers -> WorkerType]
    BY <2>1 DEF Shapes, WorkerOK
  <2>4. standbyWorker \in Workers \cup {None}
    BY <1>1 DEF KernelInv, StandbyOK
  <2>5. /\ client \in [Clients -> {"new", "attached", "parked", "onDisk"}]
        /\ mods \in [Clients -> SUBSET Images] /\ fns \in [Clients -> SUBSET Images]
        /\ saved \in [Clients -> SavedType \cup {None}]
        /\ \A c \in Clients : saved[c] # None =>
             ToSet(saved[c].active) \subseteq saved[c].modules
    <3>1. \A c \in Clients : /\ client[c] \in {"new", "attached", "parked", "onDisk"}
                             /\ mods[c] \in SUBSET Images /\ fns[c] \in SUBSET Images
                             /\ saved[c] \in SavedType \cup {None}
                             /\ saved[c] # None =>
                                  ToSet(saved[c].active) \subseteq saved[c].modules
      BY <2>2 DEF ClientOK
    <3> QED BY <2>1, <3>1 DEF Shapes
  <2>6. cached \in [Clients -> SUBSET Workers] /\ outdated \subseteq Clients
    BY <2>1 DEF Shapes
  <2> QED BY <2>3, <2>4, <2>5, <2>6 DEF TypeOK
<1> QED BY <1>1, KernelInvariant, PTL

(* The unwraps of cu_module_get_function and checkpoint do not fail: a     *)
(* process that serves a client has its modules, through any sequence of   *)
(* checkpoints, parking and warm attaches with entries that are not older  *)
(* than the snapshot.                                                      *)
THEOREM ModulesAlwaysResolve == Spec => []ModulesResolve
<1>1. ASSUME KernelInv PROVE ModulesResolve
  BY <1>1 DEF KernelInv, Served, ServedOK, ModulesResolve
<1> QED BY <1>1, KernelInvariant, PTL

(* functions lists functions of the client that is served and of no other, *)
(* and all of them unless a warm attach has reused kept handles.           *)
THEOREM FunctionsAreTracked == Spec => []FunctionsTracked
<1>1. ASSUME KernelInv PROVE FunctionsTracked
  BY <1>1 DEF KernelInv, Served, ServedOK, FunctionsTracked, Serving
<1> QED BY <1>1, KernelInvariant, PTL

(* The standby worker has really loaded what the snapshots of its clients  *)
(* list, also after it has served other clients in between.                *)
THEOREM StandbyIsWarm == Spec => []StandbyWarm
<1>1. ASSUME KernelInv PROVE StandbyWarm
  BY <1>1 DEF KernelInv, CachedIn, KeptOK, StandbyWarm
<1> QED BY <1>1, KernelInvariant, PTL

=============================================================================

---------------------------- MODULE Daemon_proofs ----------------------------
(***************************************************************************)
(* Proofs about the daemon: the five invariants of Daemon, for any number  *)
(* of clients, workers, modules and thread ids.                            *)
(*                                                                         *)
(* Most handlers reap the children that have ended and then work on what   *)
(* is left.  The invariant is therefore written about values, not about    *)
(* the variables: ReapingKeeps shows it of the daemon's state after the    *)
(* reaping, and a lemma per handler goes on from any state it holds of.    *)
(***************************************************************************)
EXTENDS Daemon, FiniteSetTheorems, TLAPS

-----------------------------------------------------------------------------
(* The inductive invariant                                                 *)

(* TypeOK, of everything but the disk.                                     *)
Typed(n, ch, st, wk, sn, cl, us) ==
  /\ n \in 0..MaxIds
  /\ ch \in [Pids -> {None} \cup ChildType]
  /\ st \in {None} \cup StandbyType
  /\ wk \in [Workers -> WorkerType]
  /\ sn \in [Pids -> {None} \cup SnapshotType]
  /\ cl \in [Pids -> ClientType]
  /\ us \in [Pids -> SUBSET Modules]

(* UniqueIds, and a client the daemon knows has a thread.                  *)
Ids(n, ch) ==
  \A p \in Pids : Known(ch, p) =>
    /\ ch[p].ids # {} /\ \A i \in ch[p].ids : i < n
    /\ \A q \in Pids \ {p} : Known(ch, q) => ch[p].ids \cap ch[q].ids = {}

(* OneOwner.                                                               *)
Owned(ch, st) ==
  /\ \A p, q \in Pids :
       Known(ch, p) /\ Known(ch, q) /\ p # q /\ ch[p].worker # None
         => ch[p].worker # ch[q].worker
  /\ st # None => \A p \in Pids : Known(ch, p) => ch[p].worker # st.worker

(* A worker that the daemon refers to is a process, alive or not yet       *)
(* reaped, so that a handler that starts one never picks it.               *)
Processes(ch, st, wk) ==
  /\ \A p \in Pids : Known(ch, p) /\ ch[p].worker # None
       => wk[ch[p].worker].proc # "none"
  /\ st # None => wk[st.worker].proc # "none"

(* StandbyAdvertised.                                                      *)
Advertised(st, wk) ==
  st # None =>
    /\ wk[st.worker].cache # None /\ DOMAIN wk[st.worker].cache = st.pids
    /\ wk[st.worker].thread # "run"

(* ParkedKept, and the same of an unserved client as long as its snapshot  *)
(* is there.                                                               *)
Parked(ch, wk, sn, cl, us) ==
  \A p \in Pids : cl[p] \in {"parked", "unserved"} =>
    /\ Known(ch, p) /\ Cardinality(ch[p].ids) = 1
    /\ ch[p].worker # None =>
         wk[ch[p].worker].proc = "running" /\ wk[ch[p].worker].thread = "dead"
    /\ cl[p] = "parked" => sn[p] # None
    /\ sn[p] # None => us[p] \subseteq sn[p].active

(* A client that has not started is unknown and has loaded nothing.        *)
Fresh(ch, cl, us) == \A p \in Pids : cl[p] = "new" => ~Known(ch, p) /\ us[p] = {}

(* An attached client has a running server thread, in a worker where no    *)
(* thread has panicked under the mutex of the kernel manager.  If it has   *)
(* one thread, which is when it can be detached, every module it has       *)
(* loaded is active in the worker.                                         *)
Attached(ch, wk, cl, us) ==
  \A p \in Pids : cl[p] = "attached" =>
    /\ Known(ch, p) /\ ch[p].worker # None
    /\ wk[ch[p].worker].proc = "running" /\ wk[ch[p].worker].thread = "run"
    /\ ~wk[ch[p].worker].poisoned
    /\ Cardinality(ch[p].ids) = 1 => us[p] \subseteq wk[ch[p].worker].active

Consistent(n, ch, st, wk, sn, cl, us) ==
  /\ Typed(n, ch, st, wk, sn, cl, us)
  /\ Ids(n, ch) /\ Owned(ch, st) /\ Processes(ch, st, wk) /\ Advertised(st, wk)
  /\ Parked(ch, wk, sn, cl, us) /\ Fresh(ch, cl, us) /\ Attached(ch, wk, cl, us)

(* The same of a checkpoint directory: a restored client has a worker with *)
(* its modules, and ids of its own.                                        *)
SavedOK(d) ==
  d # None =>
    \A p \in DOMAIN d :
      /\ d[p].ids # {} /\ \A i \in d[p].ids : i < MaxIds
      /\ \A q \in DOMAIN d \ {p} : d[p].ids \cap d[q].ids = {}
      /\ Cardinality(d[p].ids) = 1 => d[p].used \subseteq d[p].active

DaemonInv ==
  /\ Consistent(nextId, children, standbyWorker, worker, snapshot, client, used)
  /\ disk \in {None} \cup DiskType /\ SavedOK(disk)

-----------------------------------------------------------------------------
(* Facts about the parts of the state                                      *)

(* Option::None is none of the values it stands in for.                    *)
LEMMA NoneIsNone ==
  /\ None \notin Workers /\ None \notin ChildType /\ None \notin SnapshotType
  /\ None \notin StandbyType /\ None \notin CacheType /\ MaxIds \in Nat
BY DaemonAssumption

(* An entry for a client, with any worker and ids.                         *)
LEMMA ChildFacts ==
  ASSUME NEW c \in ChildType
  PROVE  /\ c # None /\ c.worker \in Workers \cup {None}
         /\ c.ids \in SUBSET (0..MaxIds) /\ IsFiniteSet(c.ids)
         /\ \A w \in Workers \cup {None} :
              /\ [c EXCEPT !.worker = w] \in ChildType
              /\ [c EXCEPT !.worker = w].worker = w
              /\ [c EXCEPT !.worker = w].ids = c.ids
<1>1. /\ c.worker \in Workers \cup {None} /\ c.ids \in SUBSET (0..MaxIds)
      /\ \A w \in Workers \cup {None} :
              /\ [c EXCEPT !.worker = w] \in ChildType
              /\ [c EXCEPT !.worker = w].worker = w
              /\ [c EXCEPT !.worker = w].ids = c.ids
  BY DEF ChildType
<1>2. IsFiniteSet(c.ids)
  <2>1. IsFiniteSet(0..MaxIds)
    BY NoneIsNone, FS_Interval
  <2> QED BY <1>1, <2>1, FS_Subset
<1> QED BY <1>1, <1>2, NoneIsNone

(* A new entry.                                                            *)
LEMMA NewChild ==
  ASSUME NEW w \in Workers \cup {None}, NEW ids \in SUBSET (0..MaxIds)
  PROVE  /\ Child(w, ids) \in ChildType
         /\ Child(w, ids).worker = w /\ Child(w, ids).ids = ids
BY DEF Child, ChildType

(* A second thread: the client has more than one from then on.             *)
LEMMA SecondThread ==
  ASSUME NEW ids, IsFiniteSet(ids), ids # {}, NEW n, n \notin ids
  PROVE  Cardinality(ids \cup {n}) # 1
<1>1. Cardinality(ids) \in Nat /\ Cardinality(ids) # 0
  BY FS_CardinalityType, FS_EmptySet
<1>2. Cardinality(ids \cup {n}) = Cardinality(ids) + 1
  BY FS_AddElement
<1> QED BY <1>1, <1>2

(* A cache is a function from some clients to the handles kept for them.   *)
LEMMA CacheFacts ==
  /\ \A ps \in SUBSET Pids : \A c \in [ps -> SUBSET Modules] : c \in CacheType
  /\ \A c \in CacheType :
       /\ DOMAIN c \in SUBSET Pids /\ c \in [DOMAIN c -> SUBSET Modules]
       /\ \A p \in DOMAIN c : c[p] \in SUBSET Modules
<1>1. \A c : c \in CacheType <=> \E ps \in SUBSET Pids : c \in [ps -> SUBSET Modules]
  BY DEF CacheType
<1> QED BY <1>1

(* What a process starts with.                                             *)
LEMMA NewWorkers ==
  /\ NoWorker \in WorkerType /\ Spawned \in WorkerType
  /\ NoWorker.proc = "none" /\ Spawned.proc = "running" /\ Spawned.cache = None
  /\ Spawned.modules = {} /\ Spawned.main = "unused" /\ Spawned.thread = "none"
  /\ ~Spawned.poisoned
BY DEF NoWorker, Spawned, WorkerType

(* What is known of each part of a worker process.                         *)
LEMMA WorkerFacts ==
  ASSUME NEW k \in WorkerType
  PROVE  /\ k.proc \in {"none", "running", "zombie"}
         /\ k.thread \in {"none", "run", "dead"}
         /\ k.main \in {"unused", "running", "over"}
         /\ k.cache \in {None} \cup CacheType
         /\ k.modules \in SUBSET Modules /\ k.active \in SUBSET Modules
         /\ k.resources \in SUBSET Modules /\ k.poisoned \in BOOLEAN
BY DEF WorkerType

(* A thread starts in a process, with nothing else changed.                *)
LEMMA ThreadStarts ==
  ASSUME NEW k \in WorkerType
  PROVE  /\ StartThread(k) \in WorkerType
         /\ StartThread(k).thread = "run" /\ StartThread(k).proc = k.proc
         /\ StartThread(k).cache = k.cache /\ StartThread(k).active = k.active
         /\ StartThread(k).modules = k.modules /\ StartThread(k).poisoned = k.poisoned
BY DEF StartThread, WorkerType

(* The process a handler starts a thread in: a new one if there was none.  *)
Started(k) == IF k = NoWorker THEN Spawned ELSE k

(* It runs.                                                                *)
LEMMA StartedFacts ==
  ASSUME NEW k \in WorkerType, k.proc # "zombie", k = NoWorker \/ k.proc # "none"
  PROVE  Started(k) \in WorkerType /\ Started(k).proc = "running"
<1>1. CASE k = NoWorker
  BY <1>1, NewWorkers DEF Started
<1>2. CASE k.proc # "none"
  BY <1>2, NewWorkers, WorkerFacts DEF Started
<1> QED BY <1>1, <1>2

(* A detach ends the server thread, keeps the process, and puts the        *)
(* connection into the cache of a worker that has one.                     *)
LEMMA DetachFacts ==
  ASSUME NEW k \in WorkerType, NEW p \in Pids
  PROVE  /\ DetachedWorker(k, p) \in WorkerType
         /\ DetachedWorker(k, p).proc = k.proc
         /\ DetachedWorker(k, p).thread # "run"
         /\ k.thread # "run" => DetachedWorker(k, p) = k
         /\ DetachedWorker(k, p).cache = None <=> k.cache = None
<1>1. CASE k.thread # "run"
  BY <1>1 DEF DetachedWorker
<1>2. CASE k.thread = "run"
  <2> DEFINE c == IF k.cache = None THEN None
                  ELSE [q \in DOMAIN k.cache \cup {p} |->
                          IF q = p THEN k.resources ELSE k.cache[q]]
  <2>1. c \in {None} \cup CacheType /\ (c = None <=> k.cache = None)
    <3>1. CASE k.cache = None
      BY <3>1
    <3>2. CASE k.cache # None
      <4>1. /\ k.cache \in CacheType /\ k.resources \in SUBSET Modules
        BY <3>2, WorkerFacts
      <4>2. /\ DOMAIN k.cache \cup {p} \in SUBSET Pids
            /\ c \in [DOMAIN k.cache \cup {p} -> SUBSET Modules]
        BY <3>2, <4>1, CacheFacts
      <4>3. c \in CacheType
        BY <4>2, CacheFacts
      <4> QED BY <3>2, <4>3, NoneIsNone
    <3> QED BY <3>1, <3>2
  <2>2. DetachedWorker(k, p) =
          [k EXCEPT !.thread = "none", !.main = IF @ = "running" THEN "over" ELSE @,
                    !.resources = {}, !.cache = c]
    BY <1>2 DEF DetachedWorker, WorkerType
  <2> HIDE DEF c
  <2> QED BY <1>2, <2>1, <2>2 DEF WorkerType
<1> QED BY <1>1, <1>2

(* A panic ends the server thread and leaves the process.                  *)
LEMMA PanicFacts ==
  ASSUME NEW k \in WorkerType, NEW b \in BOOLEAN
  PROVE  LET d == [PanickedThread(k) EXCEPT !.poisoned = b]
         IN  d \in WorkerType /\ d.proc = k.proc /\ d.thread = "dead"
BY DEF PanickedThread, WorkerType

(* take_standby: the thread runs in the same process, with one connection  *)
(* less in the cache.                                                      *)
LEMMA TakenFacts ==
  ASSUME NEW k \in WorkerType, NEW p \in Pids
  PROVE  /\ ThreadForAttach(k, p) \in WorkerType
         /\ ThreadForAttach(k, p).proc = k.proc /\ ThreadForAttach(k, p).thread = "run"
         /\ ThreadForAttach(k, p).poisoned = k.poisoned
<1> DEFINE c == IF Warm(k, p) THEN [q \in DOMAIN k.cache \ {p} |-> k.cache[q]]
                              ELSE k.cache
<1>1. c \in {None} \cup CacheType
  <2>1. CASE ~Warm(k, p)
    BY <2>1, WorkerFacts
  <2>2. CASE Warm(k, p)
    <3>1. k.cache \in CacheType
      BY <2>2, WorkerFacts DEF Warm
    <3>2. /\ DOMAIN k.cache \ {p} \in SUBSET Pids
          /\ c \in [DOMAIN k.cache \ {p} -> SUBSET Modules]
      BY <2>2, <3>1, CacheFacts
    <3> QED BY <3>2, CacheFacts
  <2> QED BY <2>1, <2>2
<1>2. /\ StartThread(k) \in WorkerType /\ StartThread(k).thread = "run"
      /\ StartThread(k).proc = k.proc /\ StartThread(k).cache = k.cache
      /\ StartThread(k).poisoned = k.poisoned
  BY ThreadStarts
<1>3. ThreadForAttach(k, p) = [StartThread(k) EXCEPT !.cache = c]
  BY <1>2 DEF ThreadForAttach
<1> HIDE DEF c
<1> QED BY <1>1, <1>2, <1>3 DEF WorkerType

(* An attach keeps the process.  Its server thread has died if it did not  *)
(* give the rings back; otherwise the snapshot's modules are the active    *)
(* ones, and a thread that is still running has not panicked.              *)
LEMMA AttachFacts ==
  ASSUME NEW k \in WorkerType, NEW p \in Pids,
         snapshot \in [Pids -> {None} \cup SnapshotType]
  PROVE  /\ AttachedWorker(k, p) \in WorkerType
         /\ AttachedWorker(k, p).proc = k.proc
         /\ AttachedWorker(k, p).thread \in {"run", "dead"}
         /\ AttachedWorker(k, p).thread = "run" =>
              /\ Releases(k, p) /\ ~AttachedWorker(k, p).poisoned
              /\ AttachedWorker(k, p).active = snapshot[p].active
<1> DEFINE new    == ThreadForAttach(k, p)
           kept   == IF Warm(k, p) THEN k.cache[p] ELSE {}
           loaded == IF Warm(k, p) THEN k.modules ELSE snapshot[p].active
           begun  == [new EXCEPT !.modules = loaded, !.active = snapshot[p].active]
<1>1. /\ new \in WorkerType /\ new.proc = k.proc /\ new.thread = "run"
      /\ new.poisoned = k.poisoned /\ k.poisoned \in BOOLEAN
  BY TakenFacts, WorkerFacts
<1>2. CASE ~Releases(k, p)
  <2>1. AttachedWorker(k, p) =
          [PanickedThread(new) EXCEPT !.poisoned =
             PanickedThread(new).poisoned \/ snapshot[p] # None]
    BY <1>2 DEF AttachedWorker
  <2> HIDE DEF new
  <2>2. PanickedThread(new).poisoned = new.poisoned
    BY <1>1 DEF PanickedThread, WorkerType
  <2> QED BY <1>1, <2>1, <2>2, PanicFacts
<1>3. CASE Releases(k, p)
  <2>1. snapshot[p] \in SnapshotType /\ ~k.poisoned
    BY <1>3 DEF Releases
  <2>2. /\ snapshot[p].active \in SUBSET Modules
        /\ snapshot[p].handles \in SUBSET Modules
    BY <2>1 DEF SnapshotType
  <2>3. kept \in SUBSET Modules
    <3>1. Warm(k, p) => k.cache \in CacheType /\ p \in DOMAIN k.cache
      BY WorkerFacts DEF Warm
    <3> QED BY <3>1, CacheFacts
  <2>4. loaded \in SUBSET Modules
    BY <2>2, WorkerFacts
  <2>5. \/ AttachedWorker(k, p) = [begun EXCEPT !.resources = kept]
        \/ AttachedWorker(k, p) = [begun EXCEPT !.resources = snapshot[p].handles]
        \/ AttachedWorker(k, p) = [PanickedThread(begun) EXCEPT !.poisoned = TRUE]
    BY <1>3 DEF AttachedWorker
  <2> HIDE DEF new, kept, loaded
  <2>6. /\ begun \in WorkerType /\ begun.proc = k.proc /\ begun.thread = "run"
        /\ begun.poisoned = k.poisoned /\ begun.active = snapshot[p].active
    BY <1>1, <2>2, <2>4 DEF WorkerType
  <2> HIDE DEF begun
  <2>7. \A h \in SUBSET Modules :
          /\ [begun EXCEPT !.resources = h] \in WorkerType
          /\ [begun EXCEPT !.resources = h].proc = k.proc
          /\ [begun EXCEPT !.resources = h].thread = "run"
          /\ [begun EXCEPT !.resources = h].poisoned = k.poisoned
          /\ [begun EXCEPT !.resources = h].active = snapshot[p].active
    BY <2>6 DEF WorkerType
  <2>8. CASE AttachedWorker(k, p) = [PanickedThread(begun) EXCEPT !.poisoned = TRUE]
    BY <2>6, <2>8, PanicFacts
  <2>9. CASE \E h \in SUBSET Modules : AttachedWorker(k, p) = [begun EXCEPT !.resources = h]
    BY <1>3, <2>1, <2>7, <2>9
  <2> QED BY <2>2, <2>3, <2>5, <2>8, <2>9
<1> QED BY <1>2, <1>3

-----------------------------------------------------------------------------
(* Reaping                                                                 *)

(* What reaping does to each entry, to the standby worker and to each      *)
(* process.                                                                *)
LEMMA ReapFacts ==
  ASSUME DaemonInv
  PROVE  /\ \A p \in Pids : ReapedChildren[p] \in {None, children[p]}
         /\ \A p \in Pids : Known(ReapedChildren, p) =>
              /\ Known(children, p) /\ ReapedChildren[p] = children[p]
              /\ children[p].worker \notin Zombies
         /\ \A p \in Pids : Known(children, p) /\ children[p].worker \notin Zombies
              => ReapedChildren[p] = children[p]
         /\ ReapedStandby # None =>
              /\ standbyWorker # None /\ ReapedStandby = standbyWorker
              /\ standbyWorker.worker \notin Zombies
         /\ standbyWorker # None /\ standbyWorker.worker \notin Zombies
              => ReapedStandby = standbyWorker
         /\ \A w \in Workers : w \notin Zombies => ReapedWorkers[w] = worker[w]
         /\ \A w \in Workers : w \in Zombies => ReapedWorkers[w] = NoWorker
         /\ \A w \in Workers : ReapedWorkers[w].proc # "zombie"
         /\ None \notin Zombies
         /\ ReapedChildren = [p \in Pids |-> ReapedChildren[p]]
         /\ ReapedWorkers = [w \in Workers |-> ReapedWorkers[w]]
<1>1. None \notin Zombies
  BY NoneIsNone DEF Zombies
<1>2. \A w \in Workers : w \notin Zombies => worker[w].proc # "zombie"
  BY DEF Zombies
<1>3. \A p \in Pids : ReapedChildren[p] =
        IF Known(children, p) /\ children[p].worker \in Zombies
        THEN None ELSE children[p]
  BY DEF ReapedChildren
<1>4. \A w \in Workers : ReapedWorkers[w] = IF w \in Zombies THEN NoWorker ELSE worker[w]
  BY DEF ReapedWorkers
<1>5. /\ ReapedChildren = [p \in Pids |-> ReapedChildren[p]]
      /\ ReapedWorkers = [w \in Workers |-> ReapedWorkers[w]]
  BY DEF ReapedChildren, ReapedWorkers
<1>6. /\ ReapedStandby # None =>
              /\ standbyWorker # None /\ ReapedStandby = standbyWorker
              /\ standbyWorker.worker \notin Zombies
      /\ standbyWorker # None /\ standbyWorker.worker \notin Zombies
              => ReapedStandby = standbyWorker
  BY DEF ReapedStandby
<1>7. /\ \A p \in Pids : ReapedChildren[p] \in {None, children[p]}
      /\ \A p \in Pids : Known(ReapedChildren, p) =>
              /\ Known(children, p) /\ ReapedChildren[p] = children[p]
              /\ children[p].worker \notin Zombies
      /\ \A p \in Pids : Known(children, p) /\ children[p].worker \notin Zombies
              => ReapedChildren[p] = children[p]
  BY <1>3 DEF Known
<1>8. \A w \in Workers : ReapedWorkers[w].proc # "zombie"
  BY <1>2, <1>4, NewWorkers
<1>9. /\ \A w \in Workers : w \notin Zombies => ReapedWorkers[w] = worker[w]
      /\ \A w \in Workers : w \in Zombies => ReapedWorkers[w] = NoWorker
  BY <1>4
<1> QED BY <1>1, <1>5, <1>6, <1>7, <1>8, <1>9

(* Reaping keeps the invariant, and leaves no worker that has ended.       *)
LEMMA ReapingKeeps ==
  ASSUME DaemonInv
  PROVE  Consistent(nextId, ReapedChildren, ReapedStandby, ReapedWorkers,
                    snapshot, client, used)
<1> DEFINE ch == ReapedChildren
           st == ReapedStandby
           wk == ReapedWorkers
<1>1. /\ \A p \in Pids : ch[p] \in {None, children[p]}
      /\ \A p \in Pids : Known(ch, p) =>
           Known(children, p) /\ ch[p] = children[p] /\ children[p].worker \notin Zombies
      /\ \A p \in Pids : Known(children, p) /\ children[p].worker \notin Zombies
           => ch[p] = children[p]
      /\ ch = [p \in Pids |-> ch[p]]
  BY ReapFacts
<1>2. st # None =>
        /\ standbyWorker # None /\ st = standbyWorker
        /\ standbyWorker.worker \notin Zombies
  BY ReapFacts
<1>3. /\ \A w \in Workers : w \notin Zombies => wk[w] = worker[w]
      /\ \A w \in Workers : w \in Zombies => wk[w] = NoWorker
      /\ wk = [w \in Workers |-> wk[w]]
      /\ None \notin Zombies
  BY ReapFacts
<1>4. /\ Typed(nextId, children, standbyWorker, worker, snapshot, client, used)
      /\ Ids(nextId, children) /\ Owned(children, standbyWorker)
      /\ Processes(children, standbyWorker, worker)
      /\ Advertised(standbyWorker, worker)
      /\ Parked(children, worker, snapshot, client, used) /\ Fresh(children, client, used)
      /\ Attached(children, worker, client, used)
  BY DEF DaemonInv, Consistent
<1>5. \A p \in Pids : Known(children, p) =>
        /\ children[p] \in ChildType /\ children[p].worker \in Workers \cup {None}
  BY <1>4, ChildFacts DEF Typed, Known
<1>6. standbyWorker # None => standbyWorker.worker \in Workers
  BY <1>4 DEF Typed, StandbyType
<1>7. Zombies = {w \in Workers : worker[w].proc = "zombie"}
  BY DEF Zombies
<1> HIDE DEF ch, st, wk
<1>8. Typed(nextId, ch, st, wk, snapshot, client, used)
  <2>1. ch \in [Pids -> {None} \cup ChildType]
    BY <1>1, <1>4 DEF Typed
  <2>2. \A w \in Workers : wk[w] \in WorkerType
    BY <1>3, <1>4, NewWorkers DEF Typed
  <2>3. wk \in [Workers -> WorkerType]
    BY <1>3, <2>2
  <2>4. st \in {None} \cup StandbyType
    BY <1>2, <1>4 DEF Typed
  <2> QED BY <1>4, <2>1, <2>3, <2>4 DEF Typed
<1>9. Ids(nextId, ch)
  BY <1>1, <1>4 DEF Ids
<1>10. Owned(ch, st)
  BY <1>1, <1>2, <1>4 DEF Owned
<1>11. Processes(ch, st, wk)
  BY <1>1, <1>2, <1>3, <1>4, <1>5, <1>6 DEF Processes
<1>12. Advertised(st, wk)
  BY <1>2, <1>3, <1>4, <1>6 DEF Advertised
<1>13. Parked(ch, wk, snapshot, client, used)
  <2> SUFFICES ASSUME NEW p \in Pids, client[p] \in {"parked", "unserved"}
               PROVE  /\ ch[p] = children[p]
                      /\ children[p].worker # None =>
                           wk[children[p].worker] = worker[children[p].worker]
    BY <1>4 DEF Parked, Known
  <2>1. /\ Known(children, p)
        /\ children[p].worker # None => worker[children[p].worker].proc = "running"
    BY <1>4 DEF Parked
  <2>2. /\ children[p].worker \notin Zombies
        /\ children[p].worker # None => children[p].worker \in Workers
    BY <1>3, <1>5, <1>7, <2>1
  <2> QED BY <1>1, <1>3, <2>1, <2>2
<1>14. Attached(ch, wk, client, used)
  <2> SUFFICES ASSUME NEW p \in Pids, client[p] = "attached"
               PROVE  /\ ch[p] = children[p]
                      /\ wk[children[p].worker] = worker[children[p].worker]
    BY <1>4 DEF Attached, Known
  <2>1. /\ Known(children, p) /\ children[p].worker # None
        /\ worker[children[p].worker].proc = "running"
    BY <1>4 DEF Attached
  <2>2. children[p].worker \in Workers /\ children[p].worker \notin Zombies
    BY <1>5, <1>7, <2>1
  <2> QED BY <1>1, <1>3, <2>1, <2>2
<1>15. Fresh(ch, client, used)
  BY <1>1, <1>4 DEF Fresh
<1> QED BY <1>8, <1>9, <1>10, <1>11, <1>12, <1>13, <1>14, <1>15 DEF Consistent, ch, st, wk

-----------------------------------------------------------------------------
(* The handlers that serve one client                                      *)

(* What has to be shown of a client p, once its entry is c, its worker is  *)
(* w, if it has one, and w is the process k.                               *)
ClientOK(c, w, k, snap, state, loaded) ==
  /\ state \in ClientType \ {"new"}
  /\ state \in {"parked", "unserved"} =>
       /\ c.worker = None \/ (k.proc = "running" /\ k.thread = "dead")
       /\ Cardinality(c.ids) = 1
       /\ state = "parked" => snap # None
       /\ snap # None => loaded \subseteq snap.active
  /\ state = "attached" =>
       /\ c.worker = w /\ k.proc = "running" /\ k.thread = "run" /\ ~k.poisoned
       /\ Cardinality(c.ids) = 1 => loaded \subseteq k.active

(* The function g is f, but for its value v at x.                          *)
Changed(g, f, x, v) == g = [f EXCEPT ![x] = v]

(* An entry with another worker.                                           *)
Reassigned(c, w) == [c EXCEPT !.worker = w]

(* What a handler for the client p does: its entry becomes c; the worker w *)
(* becomes the process k and is no other client's; the standby worker is   *)
(* what it was, or w with an advertisement that is true; the snapshot, the *)
(* state of the client and its modules become s, state and m.              *)
Move(n, ch, st, p, w, n2, st2, c, k, s, state, m) ==
  /\ c \in ChildType /\ k \in WorkerType /\ s \in {None} \cup SnapshotType
  /\ m \in SUBSET Modules /\ n2 \in 0..MaxIds /\ n <= n2
  /\ c.ids # {} /\ \A i \in c.ids : i < n2
  /\ \A q \in Pids \ {p} : Known(ch, q) =>
       c.ids \cap ch[q].ids = {} /\ ch[q].worker # w
  /\ c.worker \in {None, w} /\ k.proc # "none"
  /\ st2 # None =>
       \/ st2 = st /\ st.worker # w
       \/ /\ st2 \in StandbyType /\ st2.worker = w /\ c.worker = None
          /\ k.cache # None /\ DOMAIN k.cache = st2.pids /\ k.thread # "run"
  /\ ClientOK(c, w, k, s, state, m)

(* Such a handler keeps the invariant.                                     *)
LEMMA OneClientMoves ==
  ASSUME NEW n, NEW ch, NEW st, NEW wk, NEW sn, NEW cl, NEW us,
         Consistent(n, ch, st, wk, sn, cl, us),
         NEW p \in Pids, NEW w \in Workers,
         NEW n2, NEW st2, NEW c, NEW k, NEW s, NEW state, NEW m,
         Move(n, ch, st, p, w, n2, st2, c, k, s, state, m),
         NEW ch2, Changed(ch2, ch, p, c), NEW wk2, Changed(wk2, wk, w, k),
         NEW sn2, Changed(sn2, sn, p, s), NEW cl2, Changed(cl2, cl, p, state),
         NEW us2, Changed(us2, us, p, m)
  PROVE  Consistent(n2, ch2, st2, wk2, sn2, cl2, us2)
<1>0. /\ c \in ChildType /\ k \in WorkerType
      /\ c.ids # {} /\ \A i \in c.ids : i < n2
      /\ \A q \in Pids \ {p} : Known(ch, q) =>
           c.ids \cap ch[q].ids = {} /\ ch[q].worker # w
      /\ c.worker \in {None, w} /\ k.proc # "none"
      /\ st2 # None =>
           \/ st2 = st /\ st.worker # w
           \/ /\ st2 \in StandbyType /\ st2.worker = w /\ c.worker = None
              /\ k.cache # None /\ DOMAIN k.cache = st2.pids /\ k.thread # "run"
      /\ ClientOK(c, w, k, s, state, m)
      /\ n2 \in 0..MaxIds /\ n <= n2
  BY DEF Move
<1>1. /\ Typed(n, ch, st, wk, sn, cl, us) /\ Ids(n, ch) /\ Owned(ch, st)
      /\ Processes(ch, st, wk) /\ Advertised(st, wk) /\ Parked(ch, wk, sn, cl, us)
      /\ Fresh(ch, cl, us) /\ Attached(ch, wk, cl, us)
  BY DEF Consistent
<1>2. Typed(n2, ch2, st2, wk2, sn2, cl2, us2)
  BY <1>1 DEF Typed, ClientOK, Changed, Move
<1>3. /\ ch2[p] = c /\ \A q \in Pids \ {p} : ch2[q] = ch[q]
      /\ wk2[w] = k /\ \A v \in Workers \ {w} : wk2[v] = wk[v]
      /\ sn2[p] = s /\ \A q \in Pids \ {p} : sn2[q] = sn[q]
      /\ cl2[p] = state /\ \A q \in Pids \ {p} : cl2[q] = cl[q]
      /\ us2[p] = m /\ \A q \in Pids \ {p} : us2[q] = us[q]
  BY <1>1 DEF Typed, Changed
<1>4. /\ c # None /\ w # None
      /\ \A q \in Pids : Known(ch, q) => ch[q].worker \in Workers \cup {None}
      /\ st # None => st.worker \in Workers
  BY <1>0, <1>1, NoneIsNone, ChildFacts DEF Typed, Known, StandbyType
<1>5. \A q \in Pids \ {p} : Known(ch, q) => \A i \in ch[q].ids : i < n2
  <2> SUFFICES ASSUME NEW q \in Pids \ {p}, Known(ch, q), NEW i \in ch[q].ids
               PROVE  i < n2
    OBVIOUS
  <2>1. i \in Nat /\ i < n /\ n \in Nat
    BY <1>0, <1>1, ChildFacts DEF Ids, Typed, Known
  <2> QED BY <1>0, <2>1
<1>6. Ids(n2, ch2)
  BY <1>0, <1>1, <1>3, <1>5 DEF Ids, Known
<1>7. Owned(ch2, st2)
  <2>1. \A q, r \in Pids : Known(ch2, q) /\ Known(ch2, r) /\ q # r /\ ch2[q].worker # None
          => ch2[q].worker # ch2[r].worker
    BY <1>0, <1>1, <1>3, <1>4 DEF Owned, Known
  <2>2. ASSUME st2 # None, NEW q \in Pids, Known(ch2, q)
        PROVE  ch2[q].worker # st2.worker
    BY <1>0, <1>1, <1>3, <1>4, <2>2, NoneIsNone DEF Owned, Known
  <2> QED BY <2>1, <2>2 DEF Owned
<1>8. Processes(ch2, st2, wk2)
  BY <1>0, <1>1, <1>3, <1>4 DEF Processes, Known
<1>9. Advertised(st2, wk2)
  BY <1>0, <1>1, <1>3, <1>4 DEF Advertised
<1>10. Parked(ch2, wk2, sn2, cl2, us2)
  <2>1. ASSUME NEW q \in Pids \ {p}, cl2[q] \in {"parked", "unserved"}
        PROVE  /\ Known(ch, q) /\ ch2[q] = ch[q] /\ cl[q] = cl2[q]
               /\ ch[q].worker # None => wk2[ch[q].worker] = wk[ch[q].worker]
    BY <1>0, <1>1, <1>3, <1>4, <2>1 DEF Parked
  <2>2. ASSUME NEW q \in Pids \ {p}, cl2[q] \in {"parked", "unserved"}
        PROVE  /\ Known(ch2, q) /\ Cardinality(ch2[q].ids) = 1
               /\ ch2[q].worker # None =>
                    /\ wk2[ch2[q].worker].proc = "running"
                    /\ wk2[ch2[q].worker].thread = "dead"
               /\ cl2[q] = "parked" => sn2[q] # None
               /\ sn2[q] # None => us2[q] \subseteq sn2[q].active
    BY <1>1, <1>3, <2>1, <2>2 DEF Parked, Known
  <2> QED BY <1>0, <1>3, <1>4, <2>2 DEF Parked, Known, ClientOK
<1>11. Fresh(ch2, cl2, us2)
  BY <1>0, <1>1, <1>3 DEF Fresh, ClientOK, Known
<1>12. Attached(ch2, wk2, cl2, us2)
  <2>1. ASSUME NEW q \in Pids \ {p}, cl2[q] = "attached"
        PROVE  /\ ch2[q] = ch[q] /\ cl[q] = "attached"
               /\ wk2[ch[q].worker] = wk[ch[q].worker]
    BY <1>0, <1>1, <1>3, <1>4, <2>1 DEF Attached
  <2>2. ASSUME NEW q \in Pids \ {p}, cl2[q] = "attached"
        PROVE  /\ Known(ch2, q) /\ ch2[q].worker # None
               /\ wk2[ch2[q].worker].proc = "running"
               /\ wk2[ch2[q].worker].thread = "run" /\ ~wk2[ch2[q].worker].poisoned
               /\ Cardinality(ch2[q].ids) = 1
                    => us2[q] \subseteq wk2[ch2[q].worker].active
    BY <1>0, <1>1, <1>3, <2>1, <2>2 DEF Attached, Known
  <2> QED BY <1>0, <1>3, <1>4, <2>2 DEF Attached, Known, ClientOK
<1> QED BY <1>2, <1>6, <1>7, <1>8, <1>9, <1>10, <1>11, <1>12
        DEF Consistent

(* A worker that is new, or that is a client's own, is no other client's   *)
(* and not the standby worker.                                             *)
LEMMA Exclusive ==
  ASSUME NEW n, NEW ch, NEW st, NEW wk, NEW sn, NEW cl, NEW us,
         Consistent(n, ch, st, wk, sn, cl, us),
         NEW p \in Pids, NEW w \in Workers,
         wk[w] = NoWorker \/ (Known(ch, p) /\ ch[p].worker = w)
  PROVE  /\ \A q \in Pids \ {p} : Known(ch, q) => ch[q].worker # w
         /\ st # None => st.worker # w
         /\ wk[w] \in WorkerType /\ (wk[w] = NoWorker \/ wk[w].proc # "none")
<1>1. /\ Typed(n, ch, st, wk, sn, cl, us) /\ Owned(ch, st) /\ Processes(ch, st, wk)
  BY DEF Consistent
<1>2. wk[w] \in WorkerType /\ w # None
  BY <1>1, NoneIsNone DEF Typed
<1>3. CASE wk[w] = NoWorker
  BY <1>1, <1>2, <1>3, NewWorkers DEF Processes
<1>4. CASE Known(ch, p) /\ ch[p].worker = w
  BY <1>1, <1>2, <1>4 DEF Owned, Processes
<1> QED BY <1>3, <1>4

(* What the invariant says of one client, and of its entry.                *)
LEMMA ClientFacts ==
  ASSUME NEW n, NEW ch, NEW st, NEW wk, NEW sn, NEW cl, NEW us,
         Consistent(n, ch, st, wk, sn, cl, us), NEW p \in Pids
  PROVE  /\ n \in Nat /\ n \in 0..MaxIds
         /\ sn[p] \in {None} \cup SnapshotType /\ us[p] \in SUBSET Modules
         /\ cl[p] \in ClientType
         /\ Changed(sn, sn, p, sn[p]) /\ Changed(us, us, p, us[p])
         /\ Changed(cl, cl, p, cl[p]) /\ Changed(ch, ch, p, ch[p])
         /\ cl[p] = "new" => ~Known(ch, p) /\ us[p] = {}
         /\ Known(ch, p) =>
              /\ ch[p] \in ChildType /\ ch[p].worker \in Workers \cup {None}
              /\ ch[p].ids # {} /\ (\A i \in ch[p].ids : i < n) /\ n \notin ch[p].ids
              /\ ch[p].ids \in SUBSET (0..MaxIds) /\ IsFiniteSet(ch[p].ids)
         /\ \A q \in Pids \ {p} : Known(ch, q) =>
              /\ n \notin ch[q].ids
              /\ Known(ch, p) => ch[p].ids \cap ch[q].ids = {}
<1>1. /\ Typed(n, ch, st, wk, sn, cl, us) /\ Ids(n, ch) /\ Fresh(ch, cl, us)
  BY DEF Consistent
<1>2. n \in 0..MaxIds /\ n \in Nat
  BY <1>1 DEF Typed
<1>3. /\ sn[p] \in {None} \cup SnapshotType /\ us[p] \in SUBSET Modules
      /\ cl[p] \in ClientType
      /\ Changed(sn, sn, p, sn[p]) /\ Changed(us, us, p, us[p])
      /\ Changed(cl, cl, p, cl[p]) /\ Changed(ch, ch, p, ch[p])
      /\ cl[p] = "new" => ~Known(ch, p) /\ us[p] = {}
  BY <1>1 DEF Typed, Fresh, Changed
<1>4. \A q \in Pids : Known(ch, q) =>
        /\ ch[q] \in ChildType /\ ch[q].worker \in Workers \cup {None}
        /\ ch[q].ids # {} /\ (\A i \in ch[q].ids : i < n)
        /\ ch[q].ids \in SUBSET (0..MaxIds) /\ IsFiniteSet(ch[q].ids)
  BY <1>1, ChildFacts DEF Typed, Ids, Known
<1>5. \A q \in Pids : Known(ch, q) => n \notin ch[q].ids
  BY <1>2, <1>4
<1>6. \A q \in Pids \ {p} : Known(ch, q) /\ Known(ch, p) => ch[p].ids \cap ch[q].ids = {}
  BY <1>1 DEF Ids
<1> QED BY <1>2, <1>3, <1>4, <1>5, <1>6

(* What a client is once it has a new connection.                          *)
ConnectedState(state) == CASE state = "new" -> "attached"
                           [] state = "unserved" -> "stranded"
                           [] OTHER -> state

(* new_client_thread: the worker is the client's own or a new one.         *)
LEMMA ThreadKeeps ==
  ASSUME NEW n, NEW ch, NEW st, NEW wk, NEW sn, NEW cl, NEW us,
         Consistent(n, ch, st, wk, sn, cl, us),
         NEW p \in Pids, NEW w \in Workers, n < MaxIds, wk[w].proc # "zombie",
         IF Known(ch, p) THEN ch[p].worker = w ELSE wk[w] = NoWorker,
         cl[p] \in {"new", "attached", "unserved", "stranded"}
  PROVE  Consistent(n + 1,
           [ch EXCEPT ![p] = IF @ = None THEN Child(w, {n})
                                         ELSE Child(w, @.ids \cup {n})],
           st,
           [wk EXCEPT ![w] = StartThread(IF @ = NoWorker THEN Spawned ELSE @)],
           sn, [cl EXCEPT ![p] = ConnectedState(@)], us)
<1> DEFINE ids == IF ch[p] = None THEN {n} ELSE ch[p].ids \cup {n}
           c == Child(w, ids)
           k == StartThread(Started(wk[w]))
           state == ConnectedState(cl[p])
           ch2 == [ch EXCEPT ![p] = IF @ = None THEN Child(w, {n})
                                                ELSE Child(w, @.ids \cup {n})]
           wk2 == [wk EXCEPT ![w] = StartThread(IF @ = NoWorker THEN Spawned ELSE @)]
           cl2 == [cl EXCEPT ![p] = ConnectedState(@)]
<1>1. /\ n \in Nat /\ n + 1 \in 0..MaxIds /\ n <= n + 1 /\ n \in 0..MaxIds
  BY ClientFacts, NoneIsNone
<1>2. Known(ch, p) =>
        /\ ch[p].ids # {} /\ (\A i \in ch[p].ids : i < n) /\ n \notin ch[p].ids
        /\ ch[p].ids \in SUBSET (0..MaxIds) /\ IsFiniteSet(ch[p].ids)
  BY ClientFacts
<1>3. ids \in SUBSET (0..MaxIds) /\ ids # {}
  BY <1>1, <1>2 DEF Known
<1>4. \A i \in ids : i < n + 1
  BY <1>1, <1>2 DEF Known
<1>5. c \in ChildType /\ c.worker = w /\ c.ids = ids
  BY <1>3, NewChild
<1>6. /\ \A q \in Pids \ {p} : Known(ch, q) => ch[q].worker # w
      /\ st # None => st.worker # w
      /\ wk[w] \in WorkerType /\ (wk[w] = NoWorker \/ wk[w].proc # "none")
  BY Exclusive
<1>7. \A q \in Pids \ {p} : Known(ch, q) => ids \cap ch[q].ids = {}
  BY ClientFacts DEF Known
<1>8. /\ k \in WorkerType /\ k.proc = "running" /\ k.thread = "run"
      /\ k.poisoned = Started(wk[w]).poisoned
  <2>1. Started(wk[w]) \in WorkerType /\ Started(wk[w]).proc = "running"
    BY <1>6, StartedFacts
  <2> QED BY <2>1, ThreadStarts
<1>9. /\ state \in {"attached", "stranded"}
      /\ state = "attached" => cl[p] \in {"new", "attached"}
  BY DEF ConnectedState
<1>10. state = "attached" => ~k.poisoned /\ (Cardinality(ids) = 1 => us[p] = {})
  <2>1. CASE cl[p] = "attached"
    <3>1. Known(ch, p) /\ ~wk[w].poisoned /\ wk[w].proc = "running"
      BY <2>1 DEF Consistent, Attached
    <3>2. Cardinality(ch[p].ids \cup {n}) # 1
      BY <1>2, <3>1, SecondThread
    <3>3. Started(wk[w]) = wk[w]
      BY <3>1, NewWorkers DEF Started
    <3> QED BY <1>8, <3>1, <3>2, <3>3 DEF Known
  <2>2. CASE cl[p] = "new"
    <3>1. ~Known(ch, p) /\ us[p] = {}
      BY <2>2, ClientFacts
    <3>2. Started(wk[w]) = Spawned
      BY <3>1 DEF Started
    <3> QED BY <1>8, <3>1, <3>2, NewWorkers
  <2> QED BY <1>9, <2>1, <2>2
<1>15. ClientOK(c, w, k, sn[p], state, us[p])
  <2> HIDE DEF c, k, state, ids
  <2> QED BY <1>5, <1>8, <1>9, <1>10 DEF ClientOK, ClientType
<1>11. /\ sn[p] \in {None} \cup SnapshotType /\ us[p] \in SUBSET Modules
       /\ Changed(sn, sn, p, sn[p]) /\ Changed(us, us, p, us[p])
  BY ClientFacts
<1>12. /\ Changed(ch2, ch, p, c) /\ Changed(wk2, wk, w, k) /\ Changed(cl2, cl, p, state)
  BY DEF Changed, Started
<1> HIDE DEF ids, c, k, state, ch2, wk2, cl2
<1>13. Move(n, ch, st, p, w, n + 1, st, c, k, sn[p], state, us[p])
  BY <1>1, <1>3, <1>4, <1>5, <1>6, <1>7, <1>8, <1>11, <1>15 DEF Move
<1>14. Consistent(n + 1, ch2, st, wk2, sn, cl2, us)
  BY <1>11, <1>12, <1>13, OneClientMoves
<1> QED BY <1>14 DEF ch2, wk2, cl2

(* detach of a client with one thread: what it has loaded goes into the    *)
(* snapshot.  If its server thread has died, nothing changes for it, and   *)
(* it was not attached.                                                    *)
LEMMA DetachKeeps ==
  ASSUME NEW n, NEW ch, NEW st, NEW wk, NEW sn, NEW cl, NEW us,
         Consistent(n, ch, st, wk, sn, cl, us),
         NEW p \in Pids, NEW w \in Workers, Known(ch, p), ch[p].worker = w,
         Cardinality(ch[p].ids) = 1,
         NEW st2,
         IF wk[w].cache = None THEN st2 = st
         ELSE st2 = [worker |-> w, pids |-> DOMAIN DetachedWorker(wk[w], p).cache],
         NEW ch2, Changed(ch2, ch, p, Reassigned(ch[p], None)),
         NEW wk2, Changed(wk2, wk, w, DetachedWorker(wk[w], p)),
         NEW sn2,
         IF wk[w].thread = "run"
         THEN Changed(sn2, sn, p, [active |-> wk[w].active, handles |-> wk[w].resources])
         ELSE sn2 = sn,
         NEW cl2, Changed(cl2, cl, p,
                          IF cl[p] = "attached" /\ wk[w].thread = "run"
                          THEN "parked" ELSE cl[p])
  PROVE  Consistent(n, ch2, st2, wk2, sn2, cl2, us)
<1> DEFINE c == Reassigned(ch[p], None)
           k == DetachedWorker(wk[w], p)
           state == IF cl[p] = "attached" /\ wk[w].thread = "run"
                    THEN "parked" ELSE cl[p]
           s == IF wk[w].thread = "run"
                THEN [active |-> wk[w].active, handles |-> wk[w].resources]
                ELSE sn[p]
<1>1. /\ n \in 0..MaxIds /\ n <= n
      /\ ch[p] \in ChildType /\ ch[p].ids # {} /\ \A i \in ch[p].ids : i < n
  BY ClientFacts
<1>2. c \in ChildType /\ c.worker = None /\ c.ids = ch[p].ids
  BY <1>1, ChildFacts DEF Reassigned
<1>3. /\ \A q \in Pids \ {p} : Known(ch, q) => ch[q].worker # w
      /\ st # None => st.worker # w
      /\ wk[w] \in WorkerType /\ (wk[w] = NoWorker \/ wk[w].proc # "none")
  BY Exclusive
<1>4. wk[w].proc # "none"
  BY NoneIsNone DEF Consistent, Processes
<1>5. /\ k \in WorkerType /\ k.proc = wk[w].proc /\ k.thread # "run"
      /\ k.cache = None <=> wk[w].cache = None
  BY <1>3, DetachFacts
<1>6. \A q \in Pids \ {p} : Known(ch, q) => ch[p].ids \cap ch[q].ids = {}
  BY ClientFacts
<1>7. /\ sn[p] \in {None} \cup SnapshotType /\ us[p] \in SUBSET Modules
      /\ Changed(sn, sn, p, sn[p]) /\ Changed(us, us, p, us[p])
      /\ cl[p] \in ClientType
      /\ cl[p] # "new"
  BY ClientFacts
<1>8. /\ wk[w].thread = "run" => /\ s \in SnapshotType /\ s.active = wk[w].active
      /\ wk[w].thread # "run" => s = sn[p]
      /\ s \in {None} \cup SnapshotType
  BY <1>3, <1>7, WorkerFacts DEF SnapshotType
<1>9. st2 # None =>
        \/ st2 = st /\ st.worker # w
        \/ /\ st2 \in StandbyType /\ st2.worker = w /\ c.worker = None
           /\ k.cache # None /\ DOMAIN k.cache = st2.pids /\ k.thread # "run"
  <2>1. CASE wk[w].cache = None
    BY <1>3, <2>1
  <2>2. CASE wk[w].cache # None
    <3>1. k.cache # None /\ k.cache \in CacheType
      BY <1>5, <2>2, WorkerFacts
    <3>2. DOMAIN k.cache \in SUBSET Pids
      BY <3>1, CacheFacts
    <3>3. st2 = [worker |-> w, pids |-> DOMAIN k.cache]
      BY <2>2
    <3> HIDE DEF k, c
    <3> QED BY <1>2, <1>5, <3>1, <3>2, <3>3 DEF StandbyType
  <2> QED BY <2>1, <2>2
<1>10. /\ state \in ClientType \ {"new", "attached"}
       /\ state \in {"parked", "unserved"} /\ s # None => us[p] \subseteq s.active
       /\ state = "parked" => s # None
  <2>1. cl[p] \in {"parked", "unserved"} =>
          /\ wk[w].thread = "dead" /\ (cl[p] = "parked" => sn[p] # None)
          /\ sn[p] # None => us[p] \subseteq sn[p].active
    BY NoneIsNone DEF Consistent, Parked
  <2>2. cl[p] = "attached" => wk[w].thread = "run" /\ us[p] \subseteq wk[w].active
    BY DEF Consistent, Attached
  <2> HIDE DEF s
  <2> QED BY <1>7, <1>8, <2>1, <2>2, NoneIsNone DEF ClientType
<1>11. ClientOK(c, w, k, s, state, us[p])
  <2> HIDE DEF c, k, s, state
  <2> QED BY <1>2, <1>10 DEF ClientOK
<1>12. /\ Changed(ch2, ch, p, c) /\ Changed(wk2, wk, w, k) /\ Changed(cl2, cl, p, state)
       /\ Changed(sn2, sn, p, s)
  BY <1>7
<1> HIDE DEF c, k, s, state
<1>13. Move(n, ch, st, p, w, n, st2, c, k, s, state, us[p])
  BY <1>1, <1>2, <1>3, <1>4, <1>5, <1>6, <1>7, <1>8, <1>9, <1>11 DEF Move
<1> QED BY <1>7, <1>12, <1>13, OneClientMoves

(* attach, to the standby worker that has the client's connection or to a  *)
(* new worker.                                                             *)
LEMMA AttachKeeps ==
  ASSUME NEW n, NEW ch, NEW st, NEW wk, NEW us,
         Consistent(n, ch, st, wk, snapshot, client, us),
         NEW p \in Pids, NEW w \in Workers, Detached(ch, p), wk[w].proc # "zombie",
         NEW st2,
         \/ st # None /\ w = st.worker /\ st2 = None
         \/ wk[w] = NoWorker /\ st2 = st,
         NEW ch2, Changed(ch2, ch, p, Reassigned(ch[p], w)),
         NEW wk2, Changed(wk2, wk, w, AttachedWorker(Started(wk[w]), p)),
         NEW cl2, Changed(cl2, client, p, AttachedClient(Started(wk[w]), p))
  PROVE  Consistent(n, ch2, st2, wk2, snapshot, cl2, us)
<1> DEFINE c == Reassigned(ch[p], w)
           k == AttachedWorker(Started(wk[w]), p)
           state == AttachedClient(Started(wk[w]), p)
<1>1. /\ n \in 0..MaxIds /\ n <= n
      /\ ch[p] \in ChildType /\ ch[p].ids # {} /\ \A i \in ch[p].ids : i < n
      /\ \A q \in Pids \ {p} : Known(ch, q) => ch[p].ids \cap ch[q].ids = {}
  BY ClientFacts DEF Detached
<1>2. c \in ChildType /\ c.worker = w /\ c.ids = ch[p].ids
  BY <1>1, ChildFacts DEF Reassigned
<1>3. /\ \A q \in Pids \ {p} : Known(ch, q) => ch[q].worker # w
      /\ st2 # None => st2 = st /\ st.worker # w
      /\ wk[w] \in WorkerType /\ (wk[w] = NoWorker \/ wk[w].proc # "none")
  <2>1. CASE st # None /\ w = st.worker /\ st2 = None
    <3>1. wk[w] \in WorkerType
      BY DEF Consistent, Typed
    <3> QED BY <2>1, <3>1 DEF Consistent, Owned, Processes
  <2>2. CASE wk[w] = NoWorker /\ st2 = st
    BY <2>2, Exclusive
  <2> QED BY <2>1, <2>2
<1>4. Started(wk[w]) \in WorkerType /\ Started(wk[w]).proc = "running"
  BY <1>3, StartedFacts
<1>5. snapshot \in [Pids -> {None} \cup SnapshotType]
  BY DEF Consistent, Typed
<1>6. /\ k \in WorkerType /\ k.proc = "running"
      /\ k.thread \in {"run", "dead"}
      /\ k.thread = "run" => /\ Releases(Started(wk[w]), p) /\ ~k.poisoned
                             /\ k.active = snapshot[p].active
  BY <1>4, <1>5, AttachFacts
<1>7. /\ snapshot[p] \in {None} \cup SnapshotType /\ us[p] \in SUBSET Modules
      /\ Changed(snapshot, snapshot, p, snapshot[p]) /\ Changed(us, us, p, us[p])
      /\ client[p] \in ClientType /\ client[p] # "new"
  BY ClientFacts DEF Detached
<1>8. /\ client[p] # "attached"
      /\ client[p] \in {"parked", "unserved"} =>
           /\ Cardinality(ch[p].ids) = 1 /\ (client[p] = "parked" => snapshot[p] # None)
           /\ snapshot[p] # None => us[p] \subseteq snapshot[p].active
  BY DEF Consistent, Attached, Parked, Detached
<1>12. /\ state \in ClientType \ {"new"}
       /\ state = "attached" =>
            /\ k.thread = "run" /\ Releases(Started(wk[w]), p)
            /\ client[p] \in {"parked", "unserved"}
       /\ state \in {"parked", "unserved"} =>
            /\ client[p] \in {"parked", "unserved"} /\ k.thread = "dead"
            /\ state = "parked" => client[p] = "parked"
  <2>1. CASE client[p] \notin {"parked", "unserved"}
    BY <1>7, <1>8, <2>1 DEF AttachedClient
  <2>2. CASE client[p] \in {"parked", "unserved"} /\ ~Releases(Started(wk[w]), p)
    BY <1>6, <1>7, <2>2 DEF AttachedClient
  <2>3. CASE client[p] \in {"parked", "unserved"} /\ Releases(Started(wk[w]), p)
    BY <1>6, <2>3 DEF AttachedClient, ClientType
  <2> QED BY <2>1, <2>2, <2>3
<1>13. Releases(Started(wk[w]), p) => snapshot[p] # None
  BY DEF Releases
<1>9. ClientOK(c, w, k, snapshot[p], state, us[p])
  <2> HIDE DEF c, k, state
  <2> QED BY <1>2, <1>6, <1>8, <1>12, <1>13 DEF ClientOK
<1>10. /\ Changed(ch2, ch, p, c) /\ Changed(wk2, wk, w, k) /\ Changed(cl2, client, p, state)
  OBVIOUS
<1> HIDE DEF c, k, state
<1>11. Move(n, ch, st, p, w, n, st2, c, k, snapshot[p], state, us[p])
  BY <1>1, <1>2, <1>3, <1>6, <1>7, <1>9 DEF Move
<1> QED BY <1>7, <1>10, <1>11, OneClientMoves

(* A client loads a module through the worker that serves it.              *)
LEMMA LoadKeeps ==
  ASSUME DaemonInv, NEW p \in Pids, NEW w \in Workers, NEW m \in Modules,
         LoadModule(p, w, m)
  PROVE  DaemonInv'
<1> DEFINE k == [worker[w] EXCEPT !.modules = @ \cup {m}, !.active = @ \cup {m},
                                  !.resources = @ \cup {m}]
<1>1. Consistent(nextId, children, standbyWorker, worker, snapshot, client, used)
  BY DEF DaemonInv
<1>2. /\ client[p] = "attached" /\ Known(children, p) /\ children[p].worker = w
      /\ worker[w].proc = "running" /\ worker[w].thread = "run"
  BY DEF LoadModule, Serves
<1>3. /\ nextId \in 0..MaxIds /\ nextId <= nextId
      /\ children[p] \in ChildType /\ children[p].ids # {}
      /\ \A i \in children[p].ids : i < nextId
      /\ \A q \in Pids \ {p} :
           Known(children, q) => children[p].ids \cap children[q].ids = {}
      /\ Changed(client, client, p, client[p])
      /\ Changed(children, children, p, children[p])
      /\ used[p] \in SUBSET Modules
  BY <1>1, <1>2, ClientFacts
<1>4. /\ \A q \in Pids \ {p} : Known(children, q) => children[q].worker # w
      /\ standbyWorker # None => standbyWorker.worker # w
      /\ worker[w] \in WorkerType
  BY <1>1, <1>2, Exclusive
<1>5. /\ k \in WorkerType /\ k.proc = "running" /\ k.thread = "run"
      /\ k.active = worker[w].active \cup {m} /\ k.poisoned = worker[w].poisoned
  BY <1>2, <1>4 DEF WorkerType
<1>6. /\ Changed(used', used, p, used[p] \cup {m}) /\ Changed(worker', worker, w, k)
      /\ Changed(snapshot', snapshot, p, None)
  <2>1. Changed(used', used, p, used[p] \cup {m}) /\ Changed(snapshot', snapshot, p, None)
    BY DEF LoadModule, Changed
  <2>2. worker \in [Workers -> WorkerType]
    BY <1>1 DEF Consistent, Typed
  <2>3. /\ worker' = [worker EXCEPT ![w].modules = @ \cup {m},
                              ![w].active = @ \cup {m},
                              ![w].resources = @ \cup {m}]
    BY DEF LoadModule
  <2>4. Changed(worker', worker, w, k)
    BY <2>2, <2>3 DEF Changed, WorkerType
  <2> QED BY <2>1, <2>4
<1>7. ClientOK(children[p], w, k, None, client[p], used[p] \cup {m})
  <2>1. /\ ~worker[w].poisoned
        /\ Cardinality(children[p].ids) = 1 => used[p] \subseteq worker[w].active
    BY <1>1, <1>2 DEF Consistent, Attached
  <2> HIDE DEF k
  <2> QED BY <1>2, <1>5, <2>1 DEF ClientOK, ClientType
<1> HIDE DEF k
<1>8. Move(nextId, children, standbyWorker, p, w, nextId, standbyWorker, children[p],
           k, None, client[p], used[p] \cup {m})
  BY <1>2, <1>3, <1>4, <1>5, <1>7 DEF Move
<1>9. Consistent(nextId, children, standbyWorker, worker', snapshot', client, used')
  BY <1>1, <1>3, <1>6, <1>8, OneClientMoves
<1>10. UNCHANGED <<nextId, children, standbyWorker, client, disk>>
  BY DEF LoadModule, daemonVars
<1> QED BY <1>9, <1>10 DEF DaemonInv

(* A client writes over its snapshot, which it does not do while parked.   *)
LEMMA WritesKeeps ==
  ASSUME DaemonInv, NEW p \in Pids, ClientWrites(p)
  PROVE  DaemonInv'
<1>1. /\ Typed(nextId, children, standbyWorker, worker, snapshot, client, used)
      /\ Parked(children, worker, snapshot, client, used)
  BY DEF DaemonInv, Consistent
<1>2. /\ client[p] # "parked" /\ snapshot' = [snapshot EXCEPT ![p] = None]
      /\ UNCHANGED <<nextId, children, standbyWorker, worker, client, used, disk>>
  BY DEF ClientWrites, daemonVars
<1>3. /\ snapshot'[p] = None /\ \A q \in Pids \ {p} : snapshot'[q] = snapshot[q]
      /\ snapshot' \in [Pids -> {None} \cup SnapshotType]
  BY <1>1, <1>2 DEF Typed
<1>4. Typed(nextId, children, standbyWorker, worker, snapshot', client, used)
  BY <1>1, <1>3 DEF Typed
<1>5. Parked(children, worker, snapshot', client, used)
  BY <1>1, <1>2, <1>3 DEF Parked
<1> QED BY <1>2, <1>4, <1>5 DEF DaemonInv, Consistent

-----------------------------------------------------------------------------
(* Threads, processes and clients that end                                 *)

(* Threads and processes may end and clients may leave, as long as no      *)
(* client that stays with the daemon loses its worker.                     *)
LEMMA EndingKeeps ==
  ASSUME NEW n, NEW ch, NEW st, NEW wk, NEW sn, NEW cl, NEW us,
         Consistent(n, ch, st, wk, sn, cl, us),
         NEW wk2 \in [Workers -> WorkerType],
         NEW cl2 \in [Pids -> ClientType],
         \A w \in Workers :
           /\ wk[w].proc # "none" => wk2[w].proc # "none"
           /\ wk2[w].cache = wk[w].cache
           /\ wk2[w].thread = "run" => wk[w].thread = "run",
         \A p \in Pids :
           /\ cl2[p] \in {"new", "attached", "parked", "unserved"} => cl[p] = cl2[p]
           /\ cl2[p] \in {"attached", "parked", "unserved"} /\ ch[p].worker # None
                => wk2[ch[p].worker] = wk[ch[p].worker]
  PROVE  Consistent(n, ch, st, wk2, sn, cl2, us)
<1>1. /\ Typed(n, ch, st, wk, sn, cl, us) /\ Ids(n, ch) /\ Owned(ch, st)
      /\ Processes(ch, st, wk) /\ Advertised(st, wk) /\ Parked(ch, wk, sn, cl, us)
      /\ Fresh(ch, cl, us) /\ Attached(ch, wk, cl, us)
  BY DEF Consistent
<1>2. /\ \A q \in Pids : Known(ch, q) => ch[q].worker \in Workers \cup {None}
      /\ st # None => st.worker \in Workers
  BY <1>1, ChildFacts DEF Typed, Known, StandbyType
<1>3. Typed(n, ch, st, wk2, sn, cl2, us)
  BY <1>1 DEF Typed
<1>4. Processes(ch, st, wk2)
  BY <1>1, <1>2 DEF Processes
<1>5. Advertised(st, wk2)
  BY <1>1, <1>2 DEF Advertised
<1>6. Parked(ch, wk2, sn, cl2, us) /\ Fresh(ch, cl2, us)
  <2>1. ASSUME NEW p \in Pids, cl2[p] \in {"parked", "unserved"}
        PROVE  /\ cl[p] = cl2[p]
               /\ ch[p].worker # None => wk2[ch[p].worker] = wk[ch[p].worker]
    BY <2>1
  <2>2. Parked(ch, wk2, sn, cl2, us)
    BY <1>1, <2>1 DEF Parked
  <2> QED BY <1>1, <2>2 DEF Fresh
<1>7. Attached(ch, wk2, cl2, us)
  BY <1>1 DEF Attached
<1> QED BY <1>1, <1>3, <1>4, <1>5, <1>6, <1>7 DEF Consistent

(* A client process ends, and with it perhaps its worker.                  *)
LEMMA ExitKeeps ==
  ASSUME DaemonInv, NEW p \in Pids, ClientExit(p)
  PROVE  DaemonInv'
<1>1. /\ Consistent(nextId, children, standbyWorker, worker, snapshot, client, used)
      /\ Typed(nextId, children, standbyWorker, worker, snapshot, client, used)
      /\ Owned(children, standbyWorker)
      /\ Attached(children, worker, client, used)
      /\ Parked(children, worker, snapshot, client, used)
  BY DEF DaemonInv, Consistent
<1>2. /\ client' = [client EXCEPT ![p] = "gone"]
      /\ UNCHANGED <<nextId, children, standbyWorker, snapshot, used, disk>>
  BY DEF ClientExit, daemonVars
<1>3. worker' = [w \in Workers |->
       IF Serves(w, p)
       THEN [worker[w] EXCEPT !.thread = "dead",
               !.proc = IF worker[w].main = "running" THEN "zombie" ELSE @]
       ELSE worker[w]]
  BY DEF ClientExit
<1>4. ASSUME NEW w \in Workers
      PROVE  /\ worker'[w] \in WorkerType
             /\ worker[w].proc # "none" => worker'[w].proc # "none"
             /\ worker'[w].cache = worker[w].cache
             /\ worker'[w].thread = "run" => worker[w].thread = "run"
  <2>1. worker[w] \in WorkerType
    BY <1>1 DEF Typed
  <2>2. CASE ~Serves(w, p)
    BY <1>3, <2>1, <2>2
  <2>3. CASE Serves(w, p)
    <3>1. worker'[w] = [worker[w] EXCEPT !.thread = "dead",
               !.proc = IF worker[w].main = "running" THEN "zombie" ELSE @]
      BY <1>3, <2>3
    <3> QED BY <2>1, <3>1 DEF WorkerType
  <2> QED BY <2>2, <2>3
<1>5. worker' \in [Workers -> WorkerType]
  BY <1>3, <1>4
<1>6. client' \in [Pids -> ClientType]
  BY <1>1, <1>2 DEF Typed, ClientType
<1>7. ASSUME NEW q \in Pids
      PROVE  /\ client'[q] \in {"new", "attached", "parked", "unserved"}
                  => client[q] = client'[q]
             /\ client'[q] \in {"attached", "parked", "unserved"} /\ children[q].worker # None
                  => worker'[children[q].worker] = worker[children[q].worker]
  <2>1. (q = p => client'[q] = "gone") /\ (q # p => client'[q] = client[q])
    BY <1>1, <1>2 DEF Typed
  <2>2. ASSUME client'[q] \in {"attached", "parked", "unserved"},
               children[q].worker # None
        PROVE  worker'[children[q].worker] = worker[children[q].worker]
    <3>1. q # p /\ Known(children, q)
      BY <1>1, <2>1, <2>2 DEF Attached, Parked
    <3>2. children[q].worker \in Workers
      BY <1>1, <2>2, <3>1, ChildFacts DEF Typed, Known
    <3>3. ~Serves(children[q].worker, p)
      BY <1>1, <2>2, <3>1 DEF Serves, Owned
    <3> QED BY <1>3, <3>2, <3>3
  <2> QED BY <2>1, <2>2 DEF ClientType
<1>8. Consistent(nextId, children, standbyWorker, worker', snapshot, client', used)
  BY <1>1, <1>4, <1>5, <1>6, <1>7, EndingKeeps
<1> QED BY <1>2, <1>8 DEF DaemonInv

(* A worker ends: its client is stranded, no longer attached.              *)
LEMMA WorkerEndsKeeps ==
  ASSUME DaemonInv, NEW w \in Workers, WorkerEnds(w)
  PROVE  DaemonInv'
<1>1. /\ Consistent(nextId, children, standbyWorker, worker, snapshot, client, used)
      /\ Typed(nextId, children, standbyWorker, worker, snapshot, client, used)
      /\ Attached(children, worker, client, used)
      /\ Parked(children, worker, snapshot, client, used)
  BY DEF DaemonInv, Consistent
<1>2. /\ client' = [p \in Pids |->
           IF /\ client[p] \in {"attached", "parked", "unserved"}
              /\ Known(children, p) /\ children[p].worker = w
           THEN "stranded" ELSE client[p]]
      /\ UNCHANGED <<nextId, children, standbyWorker, snapshot, used, disk>>
  BY DEF WorkerEnds, daemonVars
<1>3. worker' = [worker EXCEPT ![w].proc = "zombie", ![w].thread = "dead"]
  BY DEF WorkerEnds
<1>4. /\ \A v \in Workers \ {w} : worker'[v] = worker[v]
      /\ worker'[w] = [worker[w] EXCEPT !.proc = "zombie", !.thread = "dead"]
      /\ worker[w] \in WorkerType /\ \A v \in Workers : worker[v] \in WorkerType
      /\ worker' = [v \in Workers |-> worker'[v]]
  BY <1>1, <1>3 DEF Typed
<1>5. /\ worker'[w] \in WorkerType /\ worker'[w].cache = worker[w].cache
      /\ worker'[w].proc = "zombie" /\ worker'[w].thread = "dead"
  BY <1>4 DEF WorkerType
<1>6. worker' \in [Workers -> WorkerType]
  BY <1>4, <1>5
<1>7. client' \in [Pids -> ClientType]
  BY <1>1, <1>2 DEF Typed, ClientType
<1>8. ASSUME NEW q \in Pids
      PROVE  /\ client'[q] \in {"new", "attached", "parked", "unserved"}
                  => client[q] = client'[q]
             /\ client'[q] \in {"attached", "parked", "unserved"} /\ children[q].worker # None
                  => worker'[children[q].worker] = worker[children[q].worker]
  <2>1. client'[q] = IF /\ client[q] \in {"attached", "parked", "unserved"}
                        /\ Known(children, q) /\ children[q].worker = w
                     THEN "stranded" ELSE client[q]
    BY <1>2
  <2>2. ASSUME client'[q] \in {"attached", "parked", "unserved"},
               children[q].worker # None
        PROVE  worker'[children[q].worker] = worker[children[q].worker]
    <3>1. Known(children, q) /\ children[q].worker # w
      BY <1>1, <2>1, <2>2 DEF Attached, Parked
    <3>2. children[q].worker \in Workers
      BY <1>1, <2>2, <3>1, ChildFacts DEF Typed, Known
    <3> QED BY <1>4, <3>1, <3>2
  <2> QED BY <2>1, <2>2
<1>9. \A v \in Workers :
        /\ worker[v].proc # "none" => worker'[v].proc # "none"
        /\ worker'[v].cache = worker[v].cache
        /\ worker'[v].thread = "run" => worker[v].thread = "run"
  BY <1>4, <1>5
<1>10. Consistent(nextId, children, standbyWorker, worker', snapshot, client', used)
  BY <1>1, <1>6, <1>7, <1>8, <1>9, EndingKeeps
<1> QED BY <1>2, <1>10 DEF DaemonInv

(* checkpoint_job: a client that stays attached keeps its server thread,   *)
(* and the image holds ids that no two clients share.                      *)
LEMMA CheckpointKeeps ==
  ASSUME DaemonInv, NEW mode \in {"Kill", "LeaveRunning"}, CheckpointJob(mode)
  PROVE  DaemonInv'
<1>1. /\ Consistent(nextId, children, standbyWorker, worker, snapshot, client, used)
      /\ Typed(nextId, children, standbyWorker, worker, snapshot, client, used)
      /\ Ids(nextId, children) /\ Owned(children, standbyWorker)
      /\ Attached(children, worker, client, used)
      /\ Parked(children, worker, snapshot, client, used)
  BY DEF DaemonInv, Consistent
<1>2. UNCHANGED <<nextId, children, standbyWorker, snapshot, used>>
  BY DEF CheckpointJob, daemonVars
<1>4. \A p \in Dumped :
        /\ p \in Pids /\ Known(children, p)
        /\ children[p] \in ChildType /\ children[p].worker \in Workers
        /\ worker[children[p].worker].thread = "run"
  <2> SUFFICES ASSUME NEW p \in Dumped
               PROVE  /\ p \in Pids /\ Known(children, p)
                      /\ children[p] \in ChildType /\ children[p].worker \in Workers
                      /\ worker[children[p].worker].thread = "run"
    OBVIOUS
  <2>1. /\ p \in Pids /\ Known(children, p) /\ ~Detached(children, p)
        /\ worker[children[p].worker].thread = "run"
    BY DEF Dumped, Controls
  <2>2. children[p] \in ChildType
    BY <1>1, <2>1 DEF Typed, Known
  <2> QED BY <2>1, <2>2, ChildFacts DEF Detached
<1>5. /\ client' \in [Pids -> ClientType]
      /\ \A p \in Pids : client'[p] \in CriuOutcome(p, mode)
  BY DEF CheckpointJob, CriuOutcomes
<1>6. worker' = [w \in Workers |->
       IF mode = "Kill" /\ \E p \in Dumped : children[p].worker = w
       THEN [worker[w] EXCEPT !.thread = "dead", !.main = "over"] ELSE worker[w]]
  BY DEF CheckpointJob
<1>7. ASSUME NEW w \in Workers
      PROVE  /\ worker'[w] \in WorkerType
             /\ worker[w].proc # "none" => worker'[w].proc # "none"
             /\ worker'[w].cache = worker[w].cache
             /\ worker'[w].thread = "run" => worker[w].thread = "run"
  <2>1. worker[w] \in WorkerType
    BY <1>1 DEF Typed
  <2>2. worker'[w] = worker[w] \/
        worker'[w] = [worker[w] EXCEPT !.thread = "dead", !.main = "over"]
    BY <1>6
  <2> QED BY <2>1, <2>2 DEF WorkerType
<1>8. worker' \in [Workers -> WorkerType]
  BY <1>6, <1>7
<1>10. ASSUME NEW q \in Pids
       PROVE  /\ client'[q] \in {"new", "attached", "parked", "unserved"}
                  => client[q] = client'[q]
              /\ client'[q] \in {"attached", "parked", "unserved"} /\ children[q].worker # None
                   => worker'[children[q].worker] = worker[children[q].worker]
  <2>1. \/ client'[q] = client[q] /\ (client[q] # "attached" \/ q \notin Dumped)
        \/ client'[q] = client[q] /\ mode = "LeaveRunning"
        \/ client'[q] \in {"stranded", "killed"}
    BY <1>5 DEF CriuOutcome
  <2>2. client'[q] \in {"new", "attached", "parked", "unserved"} => client[q] = client'[q]
    BY <2>1
  <2>3. ASSUME client'[q] \in {"attached", "parked", "unserved"},
               children[q].worker # None
        PROVE  worker'[children[q].worker] = worker[children[q].worker]
    <3>1. Known(children, q)
      BY <1>1, <2>2, <2>3 DEF Attached, Parked
    <3>2. children[q].worker \in Workers
      BY <1>1, <2>3, <3>1, ChildFacts DEF Typed, Known
    <3>5. mode = "LeaveRunning" \/ q \notin Dumped
      <4>1. client[q] \in {"parked", "unserved"} => worker[children[q].worker].thread = "dead"
        BY <1>1, <2>3 DEF Parked
      <4> QED BY <1>4, <2>1, <2>2, <2>3, <4>1
    <3>3. CASE mode = "LeaveRunning"
      BY <1>6, <3>2, <3>3
    <3>4. CASE q \notin Dumped
      <4>1. \A p \in Dumped : children[p].worker # children[q].worker
        BY <1>1, <1>4, <2>3, <3>1, <3>4 DEF Owned
      <4> QED BY <1>6, <3>2, <4>1
    <3> QED BY <3>3, <3>4, <3>5
  <2> QED BY <2>2, <2>3
<1>11. Consistent(nextId, children, standbyWorker, worker', snapshot, client', used)
  BY <1>1, <1>5, <1>7, <1>8, <1>10, EndingKeeps
<1>12. ASSUME \A p \in Dumped : client[p] = "attached"
       PROVE  Image \in DiskType /\ SavedOK(Image)
  <2>1. Image = [p \in Dumped |->
            [ids |-> children[p].ids, used |-> used[p],
             active |-> worker[children[p].worker].active,
             handles |-> worker[children[p].worker].resources]]
    BY DEF Image
  <2>2. ASSUME NEW p \in Dumped
        PROVE  Image[p] \in [ids : SUBSET (0..MaxIds), used : SUBSET Modules,
                             active : SUBSET Modules, handles : SUBSET Modules]
    <3>1. /\ children[p].ids \in SUBSET (0..MaxIds) /\ used[p] \in SUBSET Modules
          /\ worker[children[p].worker] \in WorkerType
      BY <1>1, <1>4, ChildFacts DEF Typed
    <3>2. /\ worker[children[p].worker].active \in SUBSET Modules
          /\ worker[children[p].worker].resources \in SUBSET Modules
      BY <3>1, WorkerFacts
    <3> QED BY <2>1, <3>1, <3>2
  <2>3. Dumped \in SUBSET Pids
    BY <1>4
  <2>4. Image \in DiskType
    <3>1. Image \in [Dumped -> [ids : SUBSET (0..MaxIds), used : SUBSET Modules,
                                active : SUBSET Modules, handles : SUBSET Modules]]
      BY <2>1, <2>2
    <3> QED BY <2>3, <3>1 DEF DiskType
  <2>5. ASSUME NEW p \in Dumped
        PROVE  /\ Image[p].ids = children[p].ids
               /\ children[p].ids # {} /\ \A i \in children[p].ids : i < MaxIds
               /\ \A q \in Dumped \ {p} : children[p].ids \cap children[q].ids = {}
               /\ Cardinality(children[p].ids) = 1
                    => Image[p].used \subseteq Image[p].active
    <3>1. p \in Pids /\ Known(children, p) /\ children[p].ids \in SUBSET (0..MaxIds)
          /\ nextId \in 0..MaxIds
      BY <1>1, <1>4, ChildFacts DEF Typed
    <3>2. /\ children[p].ids # {} /\ \A i \in children[p].ids : i < nextId
          /\ \A q \in Dumped \ {p} : children[p].ids \cap children[q].ids = {}
      BY <1>1, <1>4, <3>1 DEF Ids
    <3>3. \A i \in children[p].ids : i < MaxIds
      BY <3>1, <3>2, NoneIsNone
    <3>4. Cardinality(children[p].ids) = 1
            => used[p] \subseteq worker[children[p].worker].active
      BY <1>1, <1>4, <1>12 DEF Attached
    <3> QED BY <2>1, <3>2, <3>3, <3>4
  <2>6. DOMAIN Image = Dumped
    BY <2>1
  <2>7. SavedOK(Image)
    BY <2>5, <2>6 DEF SavedOK
  <2> QED BY <2>4, <2>7
<1>13. disk' \in {None} \cup DiskType /\ SavedOK(disk')
  <2>1. \/ disk' = Image /\ \A p \in Dumped : client[p] = "attached"
        \/ disk' = None
    BY DEF CheckpointJob
  <2> QED BY <1>12, <2>1 DEF SavedOK
<1> QED BY <1>2, <1>11, <1>13 DEF DaemonInv

-----------------------------------------------------------------------------
(* The standby worker, the end of the daemon, and restore_job              *)

(* A new worker becomes the standby worker, with what it advertises.       *)
LEMMA StandbyKeeps ==
  ASSUME DaemonInv, NEW ps \in SUBSET Pids, NEW w \in Workers, Standby(ps, w)
  PROVE  DaemonInv'
<1> DEFINE k == [Spawned EXCEPT !.modules = UNION {snapshot[p].active : p \in ps},
                                !.cache = [p \in ps |-> {}]]
<1>1. /\ Typed(nextId, children, standbyWorker, worker, snapshot, client, used)
      /\ Ids(nextId, children) /\ Owned(children, standbyWorker)
      /\ Processes(children, standbyWorker, worker)
      /\ Parked(children, worker, snapshot, client, used) /\ Fresh(children, client, used)
      /\ Attached(children, worker, client, used)
      /\ disk \in {None} \cup DiskType /\ SavedOK(disk)
  BY DEF DaemonInv, Consistent
<1>2. /\ worker' = [worker EXCEPT ![w] = k]
      /\ standbyWorker' = [worker |-> w, pids |-> ps]
      /\ worker[w] = NoWorker /\ \A p \in ps : snapshot[p] # None
      /\ UNCHANGED <<nextId, children, snapshot, client, used, disk>>
  BY DEF Standby, StandbyOf, CanStandby
<1>3. /\ UNION {snapshot[p].active : p \in ps} \in SUBSET Modules
      /\ [p \in ps |-> {}] \in CacheType
  <2>1. \A p \in ps : snapshot[p].active \in SUBSET Modules
    BY <1>1, <1>2 DEF Typed, SnapshotType
  <2>2. [p \in ps |-> {}] \in [ps -> SUBSET Modules]
    OBVIOUS
  <2> QED BY <2>1, <2>2, CacheFacts
<1>4. /\ k \in WorkerType /\ k.proc = "running" /\ k.thread = "none"
      /\ k.cache = [p \in ps |-> {}]
  BY <1>3, NewWorkers DEF WorkerType
<1>5. k.cache # None /\ DOMAIN k.cache = ps
  BY <1>3, <1>4, NoneIsNone
<1>6. /\ worker'[w] = k /\ \A v \in Workers \ {w} : worker'[v] = worker[v]
      /\ worker' \in [Workers -> WorkerType]
  BY <1>1, <1>2, <1>4 DEF Typed
<1>7. /\ standbyWorker' \in StandbyType /\ standbyWorker'.worker = w
      /\ standbyWorker'.pids = ps
  BY <1>2 DEF StandbyType
<1>8. \A p \in Pids : Known(children, p) =>
        children[p].worker # w /\ children[p].worker \in Workers \cup {None}
  BY <1>1, <1>2, NewWorkers, NoneIsNone, ChildFacts DEF Processes, Typed, Known
<1> HIDE DEF k
<1>9. Typed(nextId, children, standbyWorker', worker', snapshot, client, used)
  BY <1>1, <1>6, <1>7 DEF Typed
<1>10. Owned(children, standbyWorker')
  BY <1>1, <1>7, <1>8 DEF Owned
<1>11. Processes(children, standbyWorker', worker')
  BY <1>1, <1>4, <1>6, <1>7, <1>8 DEF Processes
<1>12. Advertised(standbyWorker', worker')
  BY <1>4, <1>5, <1>6, <1>7 DEF Advertised
<1>13. Attached(children, worker', client, used)
  BY <1>1, <1>6, <1>8 DEF Attached
<1>15. Parked(children, worker', snapshot, client, used)
  BY <1>1, <1>6, <1>8 DEF Parked
<1>14. Consistent(nextId, children, standbyWorker', worker', snapshot, client, used)
  BY <1>1, <1>9, <1>10, <1>11, <1>12, <1>13, <1>15 DEF Consistent
<1> QED BY <1>1, <1>2, <1>14 DEF DaemonInv

(* The state of a daemon that has ended: no client is left attached or     *)
(* parked.                                                                 *)
LEMMA EndKeeps ==
  ASSUME DaemonInv, NEW reason, DaemonEnds(reason)
  PROVE  DaemonInv'
<1>1. /\ Typed(nextId, children, standbyWorker, worker, snapshot, client, used)
      /\ Fresh(children, client, used)
      /\ disk \in {None} \cup DiskType /\ SavedOK(disk)
  BY DEF DaemonInv, Consistent
<1>2. /\ nextId' = 0 /\ children' = [p \in Pids |-> None] /\ standbyWorker' = None
      /\ worker' = [w \in Workers |-> NoWorker]
      /\ snapshot' = [p \in Pids |-> None]
      /\ client' = [p \in Pids |->
           IF client[p] \in {"new", "killed"} THEN client[p] ELSE "gone"]
      /\ used' = used /\ disk' = disk
  BY DEF DaemonEnds
<1>3. Typed(nextId', children', standbyWorker', worker', snapshot', client', used')
  BY <1>1, <1>2, NewWorkers, NoneIsNone DEF Typed, ClientType
<1>4. \A p \in Pids : ~Known(children', p) 
        /\ client'[p] \notin {"attached", "parked", "unserved"}
  BY <1>2 DEF Known
<1>5. Ids(nextId', children') /\ Owned(children', standbyWorker')
  BY <1>2, <1>4 DEF Ids, Owned
<1>6. Processes(children', standbyWorker', worker') /\ Advertised(standbyWorker', worker')
  BY <1>2, <1>4 DEF Processes, Advertised
<1>7. /\ Parked(children', worker', snapshot', client', used')
      /\ Attached(children', worker', client', used')
  BY <1>4 DEF Parked, Attached
<1>8. Fresh(children', client', used')
  BY <1>1, <1>2, <1>4 DEF Fresh
<1> QED BY <1>1, <1>2, <1>3, <1>5, <1>6, <1>7, <1>8 DEF DaemonInv, Consistent

(* A set of thread ids has a largest one.                                  *)
LEMMA LargestId ==
  ASSUME NEW S \in SUBSET (0..MaxIds), S # {}
  PROVE  \E i \in S : \A j \in S : j <= i
<1> DEFINE T == {MaxIds - i : i \in S}
<1>1. MaxIds \in Nat
  BY NoneIsNone
<1>2. T \subseteq Nat /\ T # {}
  <2>1. \A i \in S : MaxIds - i \in Nat
    BY <1>1
  <2> QED BY <2>1
<1>3. PICK x \in T : \A y \in T : ~(<<y, x>> \in OpToRel(<, Nat))
  BY <1>2, NatLessThanWellFounded, WFMin, Zenon
<1>4. \A y \in T : ~(y < x)
  BY <1>2, <1>3 DEF OpToRel
<1>5. PICK i \in S : x = MaxIds - i
  OBVIOUS
<1>6. ASSUME NEW j \in S PROVE j <= i
  <2>1. ~(MaxIds - j < MaxIds - i)
    BY <1>4, <1>5
  <2>2. i \in Nat /\ j \in Nat
    OBVIOUS
  <2> QED BY <1>1, <2>1, <2>2
<1> QED BY <1>6

(* The ids of an image, which are reserved before they are used.           *)
LEMMA SavedIdFacts ==
  ASSUME disk \in DiskType, SavedOK(disk), disk # None, CanReserve, nextId \in 0..MaxIds
  PROVE  /\ IdAfterRestore \in 0..MaxIds /\ nextId <= IdAfterRestore
         /\ \A p \in DOMAIN disk : \A i \in disk[p].ids :
              nextId <= i /\ i < IdAfterRestore
         /\ DOMAIN disk \subseteq Pids
         /\ \A p \in DOMAIN disk :
              /\ disk[p].ids \in SUBSET (0..MaxIds) /\ disk[p].used \in SUBSET Modules
              /\ disk[p].active \in SUBSET Modules /\ disk[p].handles \in SUBSET Modules
<1>1. /\ DOMAIN disk \subseteq Pids
      /\ \A p \in DOMAIN disk :
              /\ disk[p].ids \in SUBSET (0..MaxIds) /\ disk[p].used \in SUBSET Modules
              /\ disk[p].active \in SUBSET Modules /\ disk[p].handles \in SUBSET Modules
  BY DEF DiskType
<1>2. SavedIds \in SUBSET (0..MaxIds) /\ SavedIds # {} /\ \A i \in SavedIds : nextId <= i
  BY <1>1 DEF SavedIds, CanReserve
<1>3. \E i \in SavedIds : \A j \in SavedIds : j <= i
  BY <1>2, LargestId
<1>4. MaxSavedId \in SavedIds /\ \A j \in SavedIds : j <= MaxSavedId
  BY <1>3 DEF MaxSavedId
<1>5. \A p \in DOMAIN disk : \A i \in disk[p].ids : i \in SavedIds
  BY DEF SavedIds
<1>6. MaxSavedId < MaxIds
  <2>1. PICK p \in DOMAIN disk : MaxSavedId \in disk[p].ids
    BY <1>4 DEF SavedIds
  <2> QED BY <2>1 DEF SavedOK
<1>7. /\ IdAfterRestore = MaxSavedId + 1 /\ MaxSavedId \in Nat /\ nextId <= MaxSavedId
      /\ MaxIds \in Nat /\ nextId \in Nat
  BY <1>2, <1>4, NoneIsNone DEF IdAfterRestore
<1>8. IdAfterRestore \in 0..MaxIds /\ nextId <= IdAfterRestore
  BY <1>6, <1>7
<1>9. \A i \in SavedIds : nextId <= i /\ i < IdAfterRestore
  BY <1>2, <1>4, <1>7
<1> QED BY <1>1, <1>5, <1>8, <1>9

(* restore_job: the clients of the image get new workers with their        *)
(* modules, and ids that no client of this daemon has had.                 *)
LEMMA RestoreKeeps ==
  ASSUME DaemonInv, disk # None, NEW f \in [DOMAIN disk -> Workers],
         NEW back \in SUBSET DOMAIN disk, RestoreJob(f, back)
  PROVE  DaemonInv'
<1> DEFINE D == DOMAIN disk
           ch == ReapedChildren
           st == ReapedStandby
           wk == ReapedWorkers
<1>1. /\ Typed(nextId, ch, st, wk, snapshot, client, used)
      /\ Ids(nextId, ch) /\ Owned(ch, st) /\ Processes(ch, st, wk) /\ Advertised(st, wk)
      /\ Parked(ch, wk, snapshot, client, used) /\ Fresh(ch, client, used)
      /\ Attached(ch, wk, client, used)
  BY ReapingKeeps DEF Consistent
<1>2. disk \in DiskType /\ SavedOK(disk)
  BY DEF DaemonInv
<1>3. /\ nextId' \in 0..MaxIds /\ nextId <= nextId' /\ D \subseteq Pids
      /\ \A p \in D : \A i \in disk[p].ids : nextId <= i /\ i < nextId'
      /\ \A p \in D :
           /\ disk[p].ids \in SUBSET (0..MaxIds) /\ disk[p].used \in SUBSET Modules
           /\ disk[p].active \in SUBSET Modules /\ disk[p].handles \in SUBSET Modules
  <2>1. nextId \in 0..MaxIds /\ CanReserve /\ nextId' = IdAfterRestore
    BY <1>1 DEF Typed, RestoreJob
  <2> QED BY <1>2, <2>1, SavedIdFacts
<1>4. /\ \A p \in D : client[p] = "killed" /\ f[p] \in Workers /\ wk[f[p]] = NoWorker
      /\ \A p, q \in D : f[p] = f[q] => p = q
      /\ standbyWorker' = st /\ snapshot' = snapshot /\ disk' \in {None, disk}
      /\ DOMAIN f = D
  BY DEF RestoreJob
<1>5. /\ children' = [p \in Pids |-> IF p \in D THEN Child(f[p], disk[p].ids) ELSE ch[p]]
      /\ client' = [p \in Pids |-> IF p \in back THEN "attached" ELSE client[p]]
      /\ used' = [p \in Pids |-> IF p \in D THEN disk[p].used ELSE used[p]]
  BY <1>4 DEF RestoreJob
<1>6. worker' = [w \in Workers |->
       IF \E p \in DOMAIN f : f[p] = w
       THEN LET p == CHOOSE p \in DOMAIN f : f[p] = w
            IN  [StartThread(Spawned) EXCEPT !.modules = disk[p].active,
                   !.active = disk[p].active, !.resources = disk[p].handles]
       ELSE wk[w]]
  BY DEF RestoreJob
<1> HIDE DEF D, ch, st, wk
<1>7. ASSUME NEW p \in D
      PROVE  /\ children'[p] \in ChildType /\ children'[p].worker = f[p]
             /\ children'[p].ids = disk[p].ids
             /\ client'[p] \in {"attached", "killed"} /\ used'[p] = disk[p].used
             /\ worker'[f[p]] \in WorkerType /\ worker'[f[p]].proc = "running"
             /\ worker'[f[p]].thread = "run" /\ worker'[f[p]].active = disk[p].active
             /\ ~worker'[f[p]].poisoned
  <2>1. p \in Pids /\ f[p] \in Workers
    BY <1>3, <1>4
  <2>2. /\ children'[p] = Child(f[p], disk[p].ids)
        /\ client'[p] \in {"attached", "killed"} /\ used'[p] = disk[p].used
    BY <1>4, <1>5, <2>1
  <2>3. (CHOOSE q \in DOMAIN f : f[q] = f[p]) = p
    BY <1>4
  <2>4. worker'[f[p]] = [StartThread(Spawned) EXCEPT !.modules = disk[p].active,
                           !.active = disk[p].active, !.resources = disk[p].handles]
    BY <1>4, <1>6, <2>1, <2>3
  <2>5. /\ StartThread(Spawned) \in WorkerType /\ StartThread(Spawned).thread = "run"
        /\ StartThread(Spawned).proc = "running" /\ ~StartThread(Spawned).poisoned
    BY NewWorkers, ThreadStarts
  <2>6. /\ worker'[f[p]] \in WorkerType /\ worker'[f[p]].proc = "running"
        /\ worker'[f[p]].thread = "run" /\ worker'[f[p]].active = disk[p].active
        /\ ~worker'[f[p]].poisoned
    BY <1>3, <2>4, <2>5 DEF WorkerType
  <2> QED BY <1>3, <2>1, <2>2, <2>6, NewChild
<1>8. \A p \in Pids \ D :
        children'[p] = ch[p] /\ client'[p] = client[p] /\ used'[p] = used[p]
  <2>1. back \subseteq D
    BY DEF D
  <2> QED BY <1>5, <2>1
<1>9. \A w \in Workers : (\A p \in D : f[p] # w) => worker'[w] = wk[w]
  BY <1>4, <1>6
<1>10. /\ \A p \in Pids : Known(ch, p) =>
            /\ ch[p] \in ChildType /\ ch[p].ids \in SUBSET (0..MaxIds)
            /\ ch[p].worker \in Workers \cup {None}
            /\ \A q \in D : ch[p].worker # f[q]
       /\ st # None => st.worker \in Workers /\ \A q \in D : st.worker # f[q]
  <2>1. \A p \in Pids : Known(ch, p) =>
            /\ ch[p] \in ChildType /\ ch[p].ids \in SUBSET (0..MaxIds)
            /\ ch[p].worker \in Workers \cup {None}
    BY <1>1, ChildFacts DEF Typed, Known
  <2>2. \A q \in D : wk[f[q]].proc = "none" /\ f[q] # None
    BY <1>4, NewWorkers, NoneIsNone
  <2>3. st # None => st.worker \in Workers
    BY <1>1 DEF Typed, StandbyType
  <2> QED BY <1>1, <2>1, <2>2, <2>3 DEF Processes
<1>11. \A p \in D : children'[p] # None /\ f[p] # None
  BY <1>4, <1>7, NoneIsNone
<1>12. Typed(nextId', children', st, worker', snapshot, client', used')
  <2>1. \A p \in Pids : children'[p] \in {None} \cup ChildType
    BY <1>1, <1>7, <1>8 DEF Typed
  <2>2. \A w \in Workers : worker'[w] \in WorkerType
    BY <1>1, <1>7, <1>9 DEF Typed
  <2>3. /\ children' = [p \in Pids |-> children'[p]]
        /\ worker' = [w \in Workers |-> worker'[w]]
    BY <1>5, <1>6
  <2>4. /\ client' \in [Pids -> ClientType]
        /\ used' \in [Pids -> SUBSET Modules]
    BY <1>1, <1>3, <1>5 DEF Typed, ClientType
  <2> QED BY <1>1, <1>3, <2>1, <2>2, <2>3, <2>4 DEF Typed
<1>13. Ids(nextId', children')
  <2>1. ASSUME NEW p \in Pids \ D, Known(ch, p)
        PROVE  /\ ch[p].ids # {} /\ \A i \in ch[p].ids : i < nextId'
               /\ \A q \in D : ch[p].ids \cap disk[q].ids = {}
    <3>1. ch[p].ids # {} /\ \A i \in ch[p].ids : i < nextId
      BY <1>1, <2>1 DEF Ids
    <3>2. ch[p].ids \subseteq Nat /\ nextId \in Nat /\ nextId' \in Nat
      BY <1>1, <1>3, <1>10, <2>1 DEF Typed
    <3>3. \A i \in ch[p].ids : i < nextId' /\ ~(nextId <= i)
      BY <1>3, <3>1, <3>2
    <3> QED BY <1>3, <3>1, <3>3
  <2>2. \A p \in D : /\ disk[p].ids # {}
                     /\ \A q \in D \ {p} : disk[p].ids \cap disk[q].ids = {}
    BY <1>2 DEF SavedOK, D
  <2>3. \A p, q \in Pids \ D : Known(ch, p) /\ Known(ch, q) /\ p # q
          => ch[p].ids \cap ch[q].ids = {}
    BY <1>1 DEF Ids
  <2> QED BY <1>3, <1>7, <1>8, <2>1, <2>2, <2>3 DEF Ids, Known
<1>14. Owned(children', st)
  <2>1. ASSUME NEW p \in Pids, NEW q \in Pids, p # q, Known(children', p),
               Known(children', q), children'[p].worker # None
        PROVE  children'[p].worker # children'[q].worker
    <3>1. CASE p \in D /\ q \in D
      BY <1>4, <1>7, <2>1, <3>1
    <3>2. CASE p \in D /\ q \notin D
      BY <1>7, <1>8, <1>10, <2>1, <3>2 DEF Known
    <3>3. CASE p \notin D /\ q \in D
      BY <1>7, <1>8, <1>10, <2>1, <3>3 DEF Known
    <3>4. CASE p \notin D /\ q \notin D
      BY <1>1, <1>8, <2>1, <3>4 DEF Owned, Known
    <3> QED BY <3>1, <3>2, <3>3, <3>4
  <2>2. ASSUME st # None, NEW p \in Pids, Known(children', p)
        PROVE  children'[p].worker # st.worker
    BY <1>1, <1>7, <1>8, <1>10, <2>2 DEF Owned, Known
  <2> QED BY <2>1, <2>2 DEF Owned
<1>15. Processes(children', st, worker')
  BY <1>1, <1>7, <1>8, <1>9, <1>10 DEF Processes, Known
<1>16. Advertised(st, worker')
  BY <1>1, <1>9, <1>10 DEF Advertised
<1>20. \A p \in Pids \ D : client'[p] \in {"attached", "parked", "unserved"} =>
         /\ Known(ch, p) /\ children'[p] = ch[p] /\ client'[p] = client[p]
         /\ used'[p] = used[p]
         /\ ch[p].worker # None => worker'[ch[p].worker] = wk[ch[p].worker]
  <2> SUFFICES ASSUME NEW p \in Pids \ D,
                      client'[p] \in {"attached", "parked", "unserved"}
               PROVE  /\ Known(ch, p) /\ children'[p] = ch[p] /\ client'[p] = client[p]
                      /\ used'[p] = used[p]
                      /\ ch[p].worker # None => worker'[ch[p].worker] = wk[ch[p].worker]
    OBVIOUS
  <2>1. children'[p] = ch[p] /\ client'[p] = client[p] /\ used'[p] = used[p]
    BY <1>8
  <2>2. Known(ch, p)
    BY <1>1, <2>1 DEF Attached, Parked
  <2> QED BY <1>9, <1>10, <2>1, <2>2
<1>17. Parked(children', worker', snapshot, client', used')
       /\ Fresh(children', client', used')
  <2>1. Parked(children', worker', snapshot, client', used')
    <3> SUFFICES ASSUME NEW p \in Pids, client'[p] \in {"parked", "unserved"}
                 PROVE  /\ p \notin D /\ Known(children', p)
                        /\ Cardinality(children'[p].ids) = 1
                        /\ children'[p].worker # None =>
                             /\ worker'[children'[p].worker].proc = "running"
                             /\ worker'[children'[p].worker].thread = "dead"
                        /\ client'[p] = "parked" => snapshot[p] # None
                        /\ snapshot[p] # None => used'[p] \subseteq snapshot[p].active
      BY DEF Parked
    <3>1. p \notin D
      BY <1>7
    <3> QED BY <1>1, <1>20, <3>1 DEF Parked, Known
  <2>2. Fresh(children', client', used')
    BY <1>1, <1>7, <1>8 DEF Fresh, Known
  <2> QED BY <2>1, <2>2
<1>18. Attached(children', worker', client', used')
  <2>1. ASSUME NEW p \in D
        PROVE  /\ Known(children', p) /\ children'[p].worker # None
               /\ worker'[children'[p].worker].proc = "running"
               /\ worker'[children'[p].worker].thread = "run"
               /\ ~worker'[children'[p].worker].poisoned
               /\ Cardinality(children'[p].ids) = 1
                    => used'[p] \subseteq worker'[children'[p].worker].active
    <3>1. Cardinality(disk[p].ids) = 1 => disk[p].used \subseteq disk[p].active
      BY <1>2 DEF SavedOK, D
    <3> QED BY <1>7, <1>11, <3>1 DEF Known
  <2>3. ASSUME NEW p \in Pids \ D, client'[p] = "attached"
        PROVE  /\ Known(children', p) /\ children'[p].worker # None
               /\ worker'[children'[p].worker].proc = "running"
               /\ worker'[children'[p].worker].thread = "run"
               /\ ~worker'[children'[p].worker].poisoned
               /\ Cardinality(children'[p].ids) = 1
                    => used'[p] \subseteq worker'[children'[p].worker].active
    BY <1>1, <1>20, <2>3 DEF Attached, Known
  <2> QED BY <2>1, <2>3 DEF Attached
<1>19. Consistent(nextId', children', st, worker', snapshot, client', used')
  BY <1>12, <1>13, <1>14, <1>15, <1>16, <1>17, <1>18 DEF Consistent
<1> QED BY <1>2, <1>4, <1>19 DEF DaemonInv, SavedOK

-----------------------------------------------------------------------------
(* The theorems                                                            *)

(* Every handler of the daemon, and every end of a client or a worker,     *)
(* keeps the invariant.                                                    *)
LEMMA StepKeeps ==
  ASSUME DaemonInv, [Next]_vars
  PROVE  DaemonInv'
<1>1. CASE UNCHANGED vars
  BY <1>1 DEF vars, daemonVars, DaemonInv
<1>2. CASE ReapChildren
  BY <1>2, ReapingKeeps DEF ReapChildren, DaemonInv
<1>3. CASE Restart
  BY <1>3, EndKeeps DEF Restart
<1>4. CASE CheckpointPanics
  BY <1>4, EndKeeps DEF CheckpointPanics
<1>5. CASE RestorePanics
  BY <1>5, EndKeeps DEF RestorePanics
<1>6. ASSUME NEW p \in Pids, ClientExit(p)
      PROVE  DaemonInv'
  BY <1>6, ExitKeeps
<1>7. ASSUME NEW p \in Pids, NewClientThreadPanics(p) \/ AttachPanics(p) \/ DetachFails(p)
                                \/ DetachFindsStandby(p)
      PROVE  DaemonInv'
  BY <1>7, EndKeeps DEF NewClientThreadPanics, AttachPanics, DetachFails,
                        DetachFindsStandby
<1>8. ASSUME NEW p \in Pids, NEW w \in Workers, NewClientThread(p, w)
      PROVE  DaemonInv'
  <2>1. Consistent(nextId, ReapedChildren, ReapedStandby, ReapedWorkers,
                   snapshot, client, used)
    BY ReapingKeeps
  <2>2. /\ nextId < MaxIds /\ client[p] \in {"new", "attached", "unserved", "stranded"}
        /\ IF Known(ReapedChildren, p) THEN children[p].worker = w
                                       ELSE ReapedWorkers[w] = NoWorker
        /\ nextId' = nextId + 1
        /\ children' = [ReapedChildren EXCEPT ![p] =
             IF @ = None THEN Child(w, {nextId}) ELSE Child(w, @.ids \cup {nextId})]
        /\ standbyWorker' = ReapedStandby
        /\ worker' = [ReapedWorkers EXCEPT ![w] =
             StartThread(IF @ = NoWorker THEN Spawned ELSE @)]
        /\ client' = [client EXCEPT ![p] = ConnectedState(@)]
        /\ UNCHANGED <<snapshot, used, disk>>
    BY <1>8 DEF NewClientThread, Connects, ConnectedState
  <2>3. /\ ReapedWorkers[w].proc # "zombie"
        /\ IF Known(ReapedChildren, p) THEN ReapedChildren[p].worker = w
                                       ELSE ReapedWorkers[w] = NoWorker
    BY <2>2, ReapFacts
  <2>4. Consistent(nextId', children', standbyWorker', worker', snapshot, client', used)
    BY <2>1, <2>2, <2>3, ThreadKeeps
  <2> QED BY <2>2, <2>4 DEF DaemonInv
<1>9. ASSUME NEW p \in Pids, NEW w \in Workers, Detach(p, w)
      PROVE  DaemonInv'
  <2>1. Consistent(nextId, ReapedChildren, ReapedStandby, ReapedWorkers,
                   snapshot, client, used)
    BY ReapingKeeps
  <2>2. /\ Known(ReapedChildren, p) /\ ReapedChildren[p] = children[p]
        /\ children[p].worker = w /\ Cardinality(children[p].ids) = 1
        /\ worker[w].cache # None => ReapedStandby = None
        /\ ReapedWorkers[w] = worker[w]
    BY <1>9, ReapFacts DEF Detach, CanDetach
  <2>3. /\ children' = [ReapedChildren EXCEPT ![p].worker = None]
        /\ worker' = [ReapedWorkers EXCEPT ![w] = DetachedWorker(@, p)]
        /\ standbyWorker' = StandbyAfterDetach(w, p)
        /\ snapshot' = IF worker[w].thread = "run"
                       THEN [snapshot EXCEPT ![p] = [active |-> worker[w].active,
                                                     handles |-> worker[w].resources]]
                       ELSE snapshot
        /\ client' = [client EXCEPT ![p] =
             IF @ = "attached" /\ worker[w].thread = "run" THEN "parked" ELSE @]
        /\ UNCHANGED <<nextId, used, disk>>
    BY <1>9 DEF Detach
  <2>4. IF ReapedWorkers[w].cache = None THEN standbyWorker' = ReapedStandby
        ELSE standbyWorker' = [worker |-> w,
                               pids |-> DOMAIN DetachedWorker(ReapedWorkers[w], p).cache]
    <3>1. worker[w] \in WorkerType
      BY DEF DaemonInv, Consistent, Typed
    <3>2. DetachedWorker(worker[w], p).cache = None <=> worker[w].cache = None
      BY <3>1, DetachFacts
    <3> QED BY <2>2, <2>3, <3>2 DEF StandbyAfterDetach
  <2>5. /\ Changed(children', ReapedChildren, p, Reassigned(ReapedChildren[p], None))
        /\ Changed(worker', ReapedWorkers, w, DetachedWorker(ReapedWorkers[w], p))
        /\ Changed(client', client, p,
                   IF client[p] = "attached" /\ ReapedWorkers[w].thread = "run"
                   THEN "parked" ELSE client[p])
        /\ IF ReapedWorkers[w].thread = "run"
           THEN Changed(snapshot', snapshot, p,
                        [active |-> ReapedWorkers[w].active,
                         handles |-> ReapedWorkers[w].resources])
           ELSE snapshot' = snapshot
    BY <2>2, <2>3 DEF Changed, Reassigned
  <2>6. Consistent(nextId, children', standbyWorker', worker', snapshot', client', used)
    BY <2>1, <2>2, <2>4, <2>5, DetachKeeps
  <2> QED BY <2>3, <2>6 DEF DaemonInv
<1>10. ASSUME NEW p \in Pids, NEW w \in Workers, Attach(p, w)
       PROVE  DaemonInv'
  <2>1. Consistent(nextId, ReapedChildren, ReapedStandby, ReapedWorkers,
                   snapshot, client, used)
    BY ReapingKeeps
  <2>2. /\ Detached(ReapedChildren, p)
        /\ TakesStandby(p) => standbyWorker.worker \notin Zombies
        /\ IF TakesStandby(p) THEN w = standbyWorker.worker
                              ELSE ReapedWorkers[w] = NoWorker
        /\ standbyWorker' = IF TakesStandby(p) THEN None ELSE ReapedStandby
    BY <1>10 DEF Attach, CanAttach, StandbyAfterTake
  <2>3. /\ children' = [ReapedChildren EXCEPT ![p].worker = w]
        /\ worker' = [ReapedWorkers EXCEPT ![w] =
             AttachedWorker(Started(ReapedWorkers[w]), p)]
        /\ client' = [client EXCEPT ![p] = AttachedClient(Started(ReapedWorkers[w]), p)]
        /\ UNCHANGED <<nextId, snapshot, used, disk>>
    BY <1>10 DEF Attach, Started
  <2>4. /\ \/ /\ ReapedStandby # None /\ w = ReapedStandby.worker
              /\ standbyWorker' = None
           \/ ReapedWorkers[w] = NoWorker /\ standbyWorker' = ReapedStandby
        /\ ReapedWorkers[w].proc # "zombie"
    BY <2>2, ReapFacts DEF TakesStandby
  <2>5. /\ Changed(children', ReapedChildren, p, Reassigned(ReapedChildren[p], w))
        /\ Changed(worker', ReapedWorkers, w,
                   AttachedWorker(Started(ReapedWorkers[w]), p))
        /\ Changed(client', client, p, AttachedClient(Started(ReapedWorkers[w]), p))
    BY <2>3 DEF Changed, Reassigned
  <2>6. Consistent(nextId, children', standbyWorker', worker', snapshot, client', used)
    BY <2>1, <2>2, <2>4, <2>5, AttachKeeps
  <2> QED BY <2>3, <2>6 DEF DaemonInv
<1>11. ASSUME NEW p \in Pids, NEW w \in Workers, NEW m \in Modules, LoadModule(p, w, m)
       PROVE  DaemonInv'
  BY <1>11, LoadKeeps
<1>12. ASSUME NEW w \in Workers, WorkerEnds(w)
       PROVE  DaemonInv'
  BY <1>12, WorkerEndsKeeps
<1>13. ASSUME NEW ps \in SUBSET Pids \ {{}},
              StandbyPanics(ps) \/ \E w \in Workers : Standby(ps, w)
       PROVE  DaemonInv'
  BY <1>13, StandbyKeeps, EndKeeps DEF StandbyPanics
<1>14. ASSUME NEW mode \in {"Kill", "LeaveRunning"}, CheckpointJob(mode)
       PROVE  DaemonInv'
  BY <1>14, CheckpointKeeps
<1>15. ASSUME disk # None, NEW f \in [DOMAIN disk -> Workers],
              NEW back \in SUBSET DOMAIN disk, RestoreJob(f, back)
       PROVE  DaemonInv'
  BY <1>15, RestoreKeeps
<1>16. ASSUME NEW p \in Pids, ClientWrites(p)
       PROVE  DaemonInv'
  BY <1>16, WritesKeeps
<1> QED BY <1>1, <1>2, <1>3, <1>4, <1>5, <1>6, <1>7, <1>8, <1>9, <1>10, <1>11,
           <1>12, <1>13, <1>14, <1>15, <1>16 DEF Next

(* The invariant holds in every reachable state of the daemon, its workers *)
(* and its clients.                                                        *)
THEOREM DaemonInvariant == Spec => []DaemonInv
<1>1. Init => DaemonInv
  <2> SUFFICES ASSUME Init PROVE DaemonInv
    OBVIOUS
  <2>1. Typed(nextId, children, standbyWorker, worker, snapshot, client, used)
    BY NewWorkers, NoneIsNone DEF Init, Typed, ClientType
  <2>2. /\ \A p \in Pids : ~Known(children, p) /\ client[p] = "new" /\ used[p] = {}
        /\ standbyWorker = None /\ disk = None
    BY DEF Init, Known
  <2> QED BY <2>1, <2>2 DEF DaemonInv, Consistent, Ids, Owned, Processes, Advertised,
             Parked, Fresh, Attached, SavedOK
<1>2. DaemonInv /\ [Next]_vars => DaemonInv'
  BY StepKeeps
<1> QED BY <1>1, <1>2, PTL DEF Spec

(* Every variable has its type; in particular next_id stays within the ids *)
(* handed out, also after a restore that reserves those of an image.       *)
THEOREM DaemonTypes == Spec => []TypeOK
<1>1. DaemonInv => TypeOK
  BY DEF DaemonInv, Consistent, Typed, TypeOK
<1> QED BY <1>1, DaemonInvariant, PTL

(* No two clients of a daemon have the same thread id.                     *)
THEOREM IdsAreUnique == Spec => []UniqueIds
<1>1. DaemonInv => UniqueIds
  BY DEF DaemonInv, Consistent, Ids, UniqueIds
<1> QED BY <1>1, DaemonInvariant, PTL

(* No worker has two clients, and the standby worker has none.             *)
THEOREM WorkersHaveOneOwner == Spec => []OneOwner
<1>1. DaemonInv => OneOwner
  BY DEF DaemonInv, Consistent, Owned, OneOwner
<1> QED BY <1>1, DaemonInvariant, PTL

(* An attach that is sent to the standby worker finds its connection.      *)
THEOREM StandbyIsAdvertised == Spec => []StandbyAdvertised
<1>1. DaemonInv => StandbyAdvertised
  BY DEF DaemonInv, Consistent, Advertised, StandbyAdvertised
<1> QED BY <1>1, DaemonInvariant, PTL

(* A parked client can be brought back with every module it has loaded,    *)
(* also after attaches that failed before they gave its rings back.        *)
THEOREM ParkedClientsAreKept == Spec => []ParkedKept
<1>1. DaemonInv => ParkedKept
  BY DEF DaemonInv, Consistent, Parked, ParkedKept
<1> QED BY <1>1, DaemonInvariant, PTL
=============================================================================

------------------------ MODULE HandleManager_proofs ------------------------
(***************************************************************************)
(* Proofs about HandleManager, for every set of arguments and any number   *)
(* of handles and calls: what a client has configured is what it finds     *)
(* after any sequence of checkpoints, restores, detaches and attaches,     *)
(* none of them through an outdated entry of a standby cache.  What such   *)
(* an entry holds are handles that the client had at some time, or what    *)
(* further calls made of them.                                             *)
(*                                                                         *)
(* The argument rests on one set of calls: those recorded so far together  *)
(* with those still to be replayed, which get the timestamps that they     *)
(* will have.  A step of a replay does not change this set, and sorting    *)
(* the calls into an image and numbering them again only renames the       *)
(* timestamps.  What the client sees is a function of the set, and so is   *)
(* what the library objects are; for outdated handles it is what the       *)
(* client would see if they were its own.                                  *)
(***************************************************************************)
EXTENDS HandleManager, FiniteSetTheorems, TLAPS

-----------------------------------------------------------------------------
(* The inductive invariant                                                 *)

Keys == {Unkeyed, "create", "SetStream", "SetWorkspace"}
CallType == [op : {"create", "SetStream", "SetWorkspace", "Set"}, kind : Kinds,
             proxy : 1..MaxProxy, arg : Nat, ok : BOOLEAN]
PayloadType == [timestamp : Nat, key : Keys, call : CallType]
HandleType == [value : Nat, payloads : SUBSET PayloadType]

(* What a library object, or the client's idea of it, looks like.          *)
IsObject(obj) ==
  /\ obj = [kind |-> obj.kind, attrs |-> obj.attrs]
  /\ obj.kind \in Kinds /\ obj.attrs \in [Ops(obj.kind) -> Nat]

(* The accepted calls of P that set op, and those that reset it.           *)
Sets(P, op) == {x \in P : x.call.op = op /\ x.call.ok}
Resets(P, op) == {x \in P : op = "SetWorkspace" /\ x.call.op = "SetStream" /\ x.call.ok}

(* The calls P on one handle, in the order of their timestamps, leave op   *)
(* at v.                                                                   *)
Leaves(P, op, v) ==
  \/ \E x \in Sets(P, op) :
       v = x.call.arg /\ \A y \in Sets(P, op) \cup Resets(P, op) : y.timestamp <= x.timestamp
  \/ v = Null /\ Sets(P, op) = {}
  \/ v = Null /\ \E y \in Resets(P, op) : \A x \in Sets(P, op) : x.timestamp < y.timestamp

(* No refused call has taken the place of one that op depends on.          *)
Clean(P, op) ==
  \A x \in P : x.key # Unkeyed /\ ~x.call.ok =>
    x.call.op # op /\ ~(op = "SetWorkspace" /\ x.call.op = "SetStream")

Of(P, p) == {x \in P : x.call.proxy = p}

(* x is the call that created its handle.                                  *)
Creates(P, x) ==
  /\ x.call.op = "create"
  /\ \A y \in Of(P, x.call.proxy) : y # x =>
       y.call.op # "create" /\ x.timestamp < y.timestamp

(* The timestamps of P order it, and keys are used once per handle.        *)
Ordered(P) ==
  /\ \A x, y \in P : x.timestamp = y.timestamp => x = y
  /\ \A x, y \in P : x.call.proxy = y.call.proxy /\ x.key = y.key /\ x.key # Unkeyed
                       => x = y

(* x is a call on a handle that the client v has.                          *)
CallOn(v, x) ==
  /\ x.call.proxy \in DOMAIN v /\ x.call.kind = v[x.call.proxy].kind
  /\ x.call.op \in Ops(x.call.kind) \cup {"create"}
  /\ x.key = OpKey(x.call.kind, x.call.op)

(* The stream that x names has been created before.                        *)
StreamBefore(P, v, x) ==
  x.call.op = "SetStream" /\ x.call.arg # Null =>
    /\ x.call.arg \in DOMAIN v /\ v[x.call.arg].kind = "stream"
    /\ \E y \in P : /\ y.call.proxy = x.call.arg /\ y.call.op = "create"
                    /\ y.timestamp < x.timestamp

(* The calls P make everything that the client v has made of its handles.  *)
Script(P, v) ==
  /\ P \subseteq PayloadType /\ Ordered(P)
  /\ \A x \in P : CallOn(v, x) /\ StreamBefore(P, v, x)
  /\ \A p \in DOMAIN v : \E x \in Of(P, p) : Creates(P, x)
  /\ \A p \in DOMAIN v : \A op \in Ops(v[p].kind) :
       Clean(Of(P, p), op) => Leaves(Of(P, p), op, v[p].attrs[op])

(* What insert_args will record when lg is replayed from time t on.        *)
Rest(lg, t) ==
  {[timestamp |-> t + i - 1, key |-> OpKey(lg[i].kind, lg[i].op), call |-> lg[i]] :
     i \in 1..Len(lg)}

(* The entry of p, at time t: it has recorded its creation, and calls on p *)
(* alone.                                                                  *)
EntryOK(e, p, t) ==
  /\ e \in HandleType
  /\ \A x \in e.payloads : x.call.proxy = p /\ x.timestamp \in 1..(t - 1)
  /\ \E x \in e.payloads : x.call.op = "create"

EntriesOK(res, t) == \A p \in DOMAIN res : EntryOK(res[p], p, t)

(* Entries and real handles are in one-to-one correspondence.              *)
Backed(res, g) ==
  /\ IsFiniteSet(DOMAIN g) /\ DOMAIN g \subseteq Nat \ {0}
  /\ \A h \in DOMAIN g : IsObject(g[h]) /\ \E p \in DOMAIN res : res[p].value = h
  /\ \A p \in DOMAIN res : res[p].value \in DOMAIN g
  /\ \A p, q \in DOMAIN res : res[p].value = res[q].value => p = q

(* The real value of an attribute stands for the client's value a.         *)
Stands(res, op, real, a) ==
  IF op = "SetStream"
    THEN (a = Null /\ real = Null) \/ (a \in DOMAIN res \ {Null} /\ real = res[a].value)
    ELSE real = a

(* The real handle of p is what the calls recorded for p leave.            *)
ConfiguredAs(res, g, v, p) ==
  LET obj == g[res[p].value]
  IN  /\ obj.kind = v[p].kind
      /\ \A op \in Ops(v[p].kind) : Clean(res[p].payloads, op) =>
           \E a \in Nat : /\ Leaves(res[p].payloads, op, a)
                         /\ Stands(res, op, obj.attrs[op], a)

(* The handles res, when the calls lg have been replayed from time t on,   *)
(* are those of the client v.                                              *)
Held(res, t, g, lg, v) ==
  /\ t \in Nat \ {0} /\ lg \in Seq(CallType) /\ t + Len(lg) <= MaxCalls + 1
  /\ EntriesOK(res, t)
  /\ Script(Recorded(res) \cup Rest(lg, t), v)
  /\ Backed(res, g)
  /\ \A p \in DOMAIN res : ConfiguredAs(res, g, v, p)

ViewOK(v, n) ==
  n \in 1..(MaxProxy + 1) /\ \A p \in DOMAIN v : p \in 1..(n - 1) /\ IsObject(v[p])

(* v are handles of the client whose handles are w and whose next proxy is *)
(* n: perhaps not the ones it has now, but of the same kinds.              *)
MadeBy(v, w, n) ==
  ViewOK(v, n) /\ \A p \in DOMAIN v : p \in DOMAIN w => v[p].kind = w[p].kind

(* What a server thread of that client has: some handles of the client,    *)
(* and s unless o says that they are outdated.                             *)
HeldFor(res, t, g, lg, w, n, o, s) ==
  \E v : Held(res, t, g, lg, v) /\ MadeBy(v, w, n) /\ (~o => v = s)

(* The connections in the standby caches.                                  *)
KeptOK(K, w, n) ==
  \A k \in K :
    HeldFor(k.handles, k.clock, k.gpu, <<>>, w, n, k.outdated, k.view)

ImageOK(im) ==
  /\ im.where \in {"none", "disk", "snapshot"} /\ im.outdated \in BOOLEAN
  /\ ViewOK(im.view, im.nextProxy)
  /\ im.log \in Seq(CallType) /\ Len(im.log) <= MaxCalls
  /\ \E v : /\ Script(Rest(im.log, 1), v) /\ MadeBy(v, im.view, im.nextProxy)
            /\ ~im.outdated => v = im.view

(* The thread holds, or will hold at the end of the replay, the handles v. *)
Shows(v) ==
  /\ Held(resources, clock, gpu, log, v) /\ MadeBy(v, view, nextProxy)
  /\ ~outdated => v = view

HandleInv ==
  /\ ViewOK(view, nextProxy) /\ ImageOK(image) /\ KeptOK(kept, view, nextProxy)
  /\ phase \in {"serving", "stopped", "detached", "replaying"}
  /\ outdated \in BOOLEAN /\ standby \in BOOLEAN
  /\ phase \in {"serving", "replaying"} => \E v : Shows(v)
  /\ phase = "serving" => log = <<>>
  /\ phase \in {"stopped", "detached"} => clock = 1 /\ resources = <<>>
  /\ phase = "detached" =>
       /\ image.view = view /\ image.nextProxy = nextProxy
       /\ image.outdated = outdated

-----------------------------------------------------------------------------
(* Objects                                                                 *)

(* An object as the library makes it.                                      *)
LEMMA NewObjectFacts ==
  ASSUME NEW k \in Kinds
  PROVE  /\ IsObject(NewObject(k)) /\ NewObject(k).kind = k
         /\ \A op \in Ops(k) : NewObject(k).attrs[op] = Null
<1> DEFINE at == [op \in Ops(k) |-> Null]
<1>1. at \in [Ops(k) -> Nat] /\ \A op \in Ops(k) : at[op] = Null
  BY DEF Null
<1> HIDE DEF at
<1>2. NewObject(k) = [kind |-> k, attrs |-> at]
  BY DEF NewObject, at
<1> QED BY <1>1, <1>2 DEF IsObject

(* A call that is accepted sets its attribute, and SetStream also resets   *)
(* the workspace.                                                          *)
LEMMA ConfiguredFacts ==
  ASSUME NEW obj, IsObject(obj), NEW op, NEW v \in Nat
  PROVE  LET new == Configured(obj, op, v)
         IN  /\ IsObject(new) /\ new.kind = obj.kind
             /\ \A o \in Ops(obj.kind) :
                  /\ o = op => new.attrs[o] = v
                  /\ o # op /\ o = "SetWorkspace" /\ op = "SetStream" =>
                       new.attrs[o] = Null
                  /\ o # op /\ ~(o = "SetWorkspace" /\ op = "SetStream") =>
                       new.attrs[o] = obj.attrs[o]
<1> DEFINE at == [o \in DOMAIN obj.attrs |->
                    CASE o = op -> v
                      [] o = "SetWorkspace" /\ op = "SetStream" -> Null
                      [] OTHER -> obj.attrs[o]]
           new == Configured(obj, op, v)
<1>1. /\ obj = [kind |-> obj.kind, attrs |-> obj.attrs] /\ obj.kind \in Kinds
      /\ obj.attrs \in [Ops(obj.kind) -> Nat] /\ DOMAIN obj.attrs = Ops(obj.kind)
  BY DEF IsObject
<1>2. ASSUME NEW o \in Ops(obj.kind)
      PROVE  /\ at[o] \in Nat
             /\ o = op => at[o] = v
             /\ o # op /\ o = "SetWorkspace" /\ op = "SetStream" => at[o] = Null
             /\ o # op /\ ~(o = "SetWorkspace" /\ op = "SetStream") =>
                  at[o] = obj.attrs[o]
  <2>1. obj.attrs[o] \in Nat /\ at[o] = CASE o = op -> v
                      [] o = "SetWorkspace" /\ op = "SetStream" -> Null
                      [] OTHER -> obj.attrs[o]
    BY <1>1
  <2> HIDE DEF at
  <2>2. CASE o = op
    BY <2>1, <2>2
  <2>3. CASE o # op /\ o = "SetWorkspace" /\ op = "SetStream"
    BY <2>1, <2>3 DEF Null
  <2>4. CASE o # op /\ ~(o = "SetWorkspace" /\ op = "SetStream")
    BY <2>1, <2>4
  <2> QED BY <2>2, <2>3, <2>4
<1>3. at \in [Ops(obj.kind) -> Nat]
  BY <1>1, <1>2
<1> HIDE DEF at
<1>4. new = [kind |-> obj.kind, attrs |-> at]
  <2>1. new = [obj EXCEPT !.attrs = at]
    BY DEF Configured, at
  <2> QED BY <1>1, <2>1
<1> HIDE DEF new
<1>5. IsObject(new) /\ new.kind = obj.kind /\ new.attrs = at
  BY <1>1, <1>3, <1>4 DEF IsObject
<1> QED BY <1>2, <1>5 DEF new

-----------------------------------------------------------------------------
(* What the recorded calls of one handle leave                             *)

(* x is recorded after the calls P of a handle of kind k.                  *)
Inserts(P, x, k) ==
  /\ P \subseteq PayloadType /\ x \in PayloadType /\ k \in Kinds /\ x.call.op \in Ops(k)
  /\ \A y \in P \cup {x} : y.key = OpKey(k, y.call.op)
  /\ \A y \in P : y.timestamp < x.timestamp

(* The fields of a payload.                                                *)
LEMMA PayloadFields ==
  ASSUME NEW x \in PayloadType
  PROVE  /\ x.timestamp \in Nat /\ x.key \in Keys /\ x.call \in CallType
         /\ x.call.op \in {"create", "SetStream", "SetWorkspace", "Set"}
         /\ x.call.kind \in Kinds /\ x.call.proxy \in 1..MaxProxy
         /\ x.call.arg \in Nat /\ x.call.ok \in BOOLEAN
BY DEF PayloadType, CallType

(* Payloads::insert keeps every call of other keys, and of its own key     *)
(* only the new one.                                                       *)
LEMMA InsertMembers ==
  ASSUME NEW P, NEW x, NEW k, Inserts(P, x, k)
  PROVE  LET Q == PayloadsInsert(P, x)
         IN  /\ Q \subseteq PayloadType /\ x \in Q /\ Q \subseteq P \cup {x}
             /\ \A y \in P : y.call.op # x.call.op => y \in Q
             /\ k # "blas" => Q = P \cup {x} /\ x.key = Unkeyed
             /\ k = "blas" => x.key # Unkeyed /\ \A y \in Q : y.call.op = x.call.op => y = x
<1> DEFINE Q == PayloadsInsert(P, x)
<1>1. /\ P \subseteq PayloadType /\ x \in PayloadType
      /\ \A y \in P \cup {x} : y.key = OpKey(k, y.call.op)
  BY DEF Inserts
<1>2. CASE k # "blas"
  <2>1. x.key = Unkeyed
    BY <1>1, <1>2 DEF OpKey
  <2>2. Q = P \cup {x}
    BY <2>1 DEF PayloadsInsert
  <2> QED BY <1>1, <1>2, <2>1, <2>2
<1>3. CASE k = "blas"
  <2>1. x.key = x.call.op /\ \A y \in P : y.key = y.call.op
    BY <1>1, <1>3 DEF OpKey
  <2>2. x.key # Unkeyed
    BY <1>1, <2>1, PayloadFields DEF Unkeyed
  <2>3. Q = {y \in P : y.key # x.key} \cup {x}
    BY <2>2 DEF PayloadsInsert
  <2> HIDE DEF Q
  <2>4. /\ Q \subseteq PayloadType /\ x \in Q /\ Q \subseteq P \cup {x}
        /\ \A y \in P : y.call.op # x.call.op => y \in Q
        /\ \A y \in Q : y.call.op = x.call.op => y = x
    BY <1>1, <2>1, <2>3
  <2> QED BY <1>3, <2>2, <2>4 DEF Q
<1> QED BY <1>2, <1>3

(* After an accepted call its attribute is what the call says.             *)
LEMMA LeavesSet ==
  ASSUME NEW P, NEW x, NEW k, Inserts(P, x, k), x.call.ok
  PROVE  Leaves(PayloadsInsert(P, x), x.call.op, x.call.arg)
<1> DEFINE Q == PayloadsInsert(P, x)
<1>1. x \in Q /\ Q \subseteq P \cup {x}
  BY InsertMembers
<1> HIDE DEF Q
<1>2. x \in Sets(Q, x.call.op)
  BY <1>1 DEF Sets
<1>3. \A y \in Q : y.timestamp <= x.timestamp
  BY <1>1, PayloadFields DEF Inserts
<1>4. \A y \in Sets(Q, x.call.op) \cup Resets(Q, x.call.op) : y.timestamp <= x.timestamp
  BY <1>3 DEF Sets, Resets
<1> QED BY <1>2, <1>4 DEF Leaves, Q

(* After an accepted SetStream the workspace is the default.               *)
LEMMA LeavesReset ==
  ASSUME NEW P, NEW x, NEW k, Inserts(P, x, k), x.call.ok, x.call.op = "SetStream"
  PROVE  Leaves(PayloadsInsert(P, x), "SetWorkspace", Null)
<1> DEFINE Q == PayloadsInsert(P, x)
<1>1. x \in Q /\ Q \subseteq P \cup {x}
  BY InsertMembers
<1> HIDE DEF Q
<1>2. x \in Resets(Q, "SetWorkspace")
  BY <1>1 DEF Resets
<1>3. \A y \in Sets(Q, "SetWorkspace") : y.timestamp < x.timestamp
  BY <1>1 DEF Inserts, Sets
<1> QED BY <1>2, <1>3 DEF Leaves, Q

(* A call that neither sets nor resets op changes nothing about it.        *)
LEMMA LeavesKept ==
  ASSUME NEW P, NEW x, NEW k, Inserts(P, x, k), NEW op \in Ops(k),
         Clean(PayloadsInsert(P, x), op),
         x.call.ok => x.call.op # op /\ ~(op = "SetWorkspace" /\ x.call.op = "SetStream")
  PROVE  /\ Clean(P, op)
         /\ \A v : Leaves(P, op, v) => Leaves(PayloadsInsert(P, x), op, v)
<1> DEFINE Q == PayloadsInsert(P, x)
<1>1. /\ x \in Q /\ Q \subseteq P \cup {x}
      /\ \A y \in P : y.call.op # x.call.op => y \in Q
      /\ k # "blas" => Q = P \cup {x} /\ x.key = Unkeyed
      /\ k = "blas" => x.key # Unkeyed /\ \A y \in Q : y.call.op = x.call.op => y = x
  BY InsertMembers
<1>2. Clean(Q, op) /\ x \in PayloadType /\ k \in Kinds /\ x.call.op \in Ops(k)
  BY DEF Inserts
<1> HIDE DEF Q
<1>3. Clean(P, op) /\ Sets(Q, op) = Sets(P, op) /\ Resets(Q, op) = Resets(P, op)
  <2>1. CASE k = "blas"
    <3>1. x.call.op # op /\ ~(op = "SetWorkspace" /\ x.call.op = "SetStream")
      BY <1>1, <1>2, <2>1 DEF Clean
    <3> QED BY <1>1, <1>2, <3>1 DEF Clean, Sets, Resets
  <2>2. CASE k # "blas"
    <3>1. op = "Set" /\ x.call.op = "Set"
      BY <1>2, <2>2 DEF Kinds, Ops
    <3>2. ~x.call.ok
      BY <3>1
    <3> QED BY <1>1, <1>2, <2>2, <3>1, <3>2 DEF Clean, Sets, Resets
  <2> QED BY <2>1, <2>2
<1>4. ASSUME NEW v, Leaves(P, op, v) PROVE Leaves(Q, op, v)
  BY <1>3, <1>4 DEF Leaves
<1> QED BY <1>3, <1>4 DEF Q

(* There is only one value that the calls leave.                           *)
LEMMA LeavesUnique ==
  ASSUME NEW P \in SUBSET PayloadType, Ordered(P), NEW op, NEW v, NEW w,
         Leaves(P, op, v), Leaves(P, op, w)
  PROVE  v = w
<1> DEFINE S == Sets(P, op)
           R == Resets(P, op)
<1>1. S \subseteq P /\ R \subseteq P
  BY DEF Sets, Resets
<1>2. \A x, y \in P : x.timestamp = y.timestamp => x = y
  BY DEF Ordered
<1>3. \A x \in P : x.timestamp \in Nat
  BY PayloadFields
<1> DEFINE A(u) == \E x \in S : u = x.call.arg /\ \A y \in S \cup R :
                                              y.timestamp <= x.timestamp
           B(u) == u = Null /\ S = {}
           C(u) == u = Null /\ \E y \in R : \A x \in S : x.timestamp < y.timestamp
<1>4. (A(v) \/ B(v) \/ C(v)) /\ (A(w) \/ B(w) \/ C(w))
  BY DEF Leaves
<1> HIDE DEF S, R
<1>5. CASE A(v) /\ A(w)
  <2>1. PICK x \in S : v = x.call.arg /\ \A y \in S \cup R : y.timestamp <= x.timestamp
    BY <1>5
  <2>2. PICK z \in S : w = z.call.arg /\ \A y \in S \cup R : y.timestamp <= z.timestamp
    BY <1>5
  <2>3. x.timestamp <= z.timestamp /\ z.timestamp <= x.timestamp /\ x \in P /\ z \in P
    BY <1>1, <2>1, <2>2
  <2>4. x = z
    BY <1>2, <1>3, <2>3
  <2> QED BY <2>1, <2>2, <2>4
<1>6. ASSUME NEW u, A(u) PROVE \A t : ~B(t) /\ ~C(t)
  <2>1. PICK x \in S : u = x.call.arg /\ \A y \in S \cup R : y.timestamp <= x.timestamp
    BY <1>6
  <2> QED BY <1>1, <1>3, <2>1
<1> QED BY <1>4, <1>5, <1>6

-----------------------------------------------------------------------------
(* The calls that make what a client has                                   *)

(* The parts of Script, for use where it is hidden.                        *)
LEMMA ScriptFacts ==
  ASSUME NEW P, NEW v, Script(P, v)
  PROVE  /\ P \subseteq PayloadType /\ Ordered(P)
         /\ \A x \in P : CallOn(v, x) /\ StreamBefore(P, v, x)
         /\ \A p \in DOMAIN v : \E x \in P : x.call.proxy = p /\ Creates(P, x)
         /\ \A p \in DOMAIN v : \A op \in Ops(v[p].kind) :
              Clean(Of(P, p), op) => Leaves(Of(P, p), op, v[p].attrs[op])
BY DEF Script, Of

(* No call that configures is called create.                               *)
LEMMA OpNames ==
  ASSUME NEW k \in Kinds, NEW op \in Ops(k)
  PROVE  op # "create" /\ op \in {"SetStream", "SetWorkspace", "Set"}
BY DEF Kinds, Ops

(* A handle that is new to the client.                                     *)
LEMMA ScriptCreate ==
  ASSUME NEW P, NEW v, Script(P, v), NEW x \in PayloadType,
         x.call.proxy \notin DOMAIN v, x.call.op = "create",
         x.key = OpKey(x.call.kind, "create"), \A y \in P : y.timestamp < x.timestamp
  PROVE  Script(P \cup {x}, With(v, x.call.proxy, NewObject(x.call.kind)))
<1> DEFINE R == P \cup {x}
           p == x.call.proxy
           k == x.call.kind
           w == With(v, p, NewObject(k))
<1>1. /\ P \subseteq PayloadType /\ Ordered(P)
      /\ \A y \in P : CallOn(v, y) /\ StreamBefore(P, v, y)
      /\ \A q \in DOMAIN v : \E y \in P : y.call.proxy = q /\ Creates(P, y)
      /\ \A q \in DOMAIN v : \A op \in Ops(v[q].kind) :
           Clean(Of(P, q), op) => Leaves(Of(P, q), op, v[q].attrs[op])
  BY ScriptFacts
<1>2. /\ k \in Kinds /\ x.timestamp \in Nat /\ \A y \in P : y.timestamp \in Nat
      /\ p \notin DOMAIN v
  BY <1>1, PayloadFields
<1>3. /\ IsObject(NewObject(k)) /\ NewObject(k).kind = k
      /\ \A op \in Ops(k) : NewObject(k).attrs[op] = Null
  BY <1>2, NewObjectFacts
<1>4. /\ DOMAIN w = DOMAIN v \cup {p} /\ w[p] = NewObject(k)
      /\ \A q \in DOMAIN v : w[q] = v[q]
  BY <1>2 DEF With
<1>5. \A y \in P : y.call.proxy \in DOMAIN v /\ y.call.proxy # p
  BY <1>1, <1>2 DEF CallOn
<1>6. /\ \A q \in DOMAIN v : Of(R, q) = Of(P, q)
      /\ Of(R, p) = {x}
  BY <1>2, <1>5 DEF Of
<1> HIDE DEF w
<1>7. R \subseteq PayloadType /\ Ordered(R)
  BY <1>1, <1>2, <1>5 DEF Ordered
<1>8. ASSUME NEW y \in R PROVE CallOn(w, y) /\ StreamBefore(R, w, y)
  <2>1. CASE y = x
    BY <1>2, <1>3, <1>4, <2>1 DEF CallOn, StreamBefore
  <2>2. CASE y \in P
    BY <1>1, <1>4, <2>2 DEF CallOn, StreamBefore
  <2> QED BY <2>1, <2>2
<1>9. ASSUME NEW q \in DOMAIN w PROVE \E y \in Of(R, q) : Creates(R, y)
  <2>1. CASE q = p
    BY <1>6, <2>1 DEF Creates
  <2>2. CASE q \in DOMAIN v
    <3>1. PICK y \in P : y.call.proxy = q /\ Creates(P, y)
      BY <1>1, <2>2
    <3>2. y \in Of(R, q) /\ Creates(R, y)
      BY <1>6, <2>2, <3>1 DEF Creates, Of
    <3> QED BY <3>2
  <2> QED BY <1>4, <2>1, <2>2
<1>10. ASSUME NEW q \in DOMAIN w, NEW op \in Ops(w[q].kind), Clean(Of(R, q), op)
       PROVE  Leaves(Of(R, q), op, w[q].attrs[op])
  <2>1. CASE q = p
    <3>1. op \in Ops(k) /\ w[q].attrs[op] = Null
      BY <1>3, <1>4, <2>1
    <3>2. Sets(Of(R, q), op) = {}
      BY <1>2, <1>6, <2>1, <3>1, OpNames DEF Sets
    <3> QED BY <3>1, <3>2 DEF Leaves
  <2>2. CASE q \in DOMAIN v
    BY <1>1, <1>4, <1>6, <1>10, <2>2
  <2> QED BY <1>4, <2>1, <2>2
<1> QED BY <1>7, <1>8, <1>9, <1>10 DEF Script, w

(* A call that configures a handle, accepted or not.                       *)
LEMMA ScriptModify ==
  ASSUME NEW P, NEW v, Script(P, v), \A q \in DOMAIN v : IsObject(v[q]),
         NEW x \in PayloadType, CallOn(v, x), x.call.op # "create",
         x.call.op = "SetStream" /\ x.call.arg # Null =>
           x.call.arg \in DOMAIN v /\ v[x.call.arg].kind = "stream",
         \A y \in P : y.timestamp < x.timestamp
  PROVE  LET p == x.call.proxy
             w == IF x.call.ok THEN [v EXCEPT ![p] = Configured(@, x.call.op, x.call.arg)]
                               ELSE v
         IN  Script((P \ Of(P, p)) \cup PayloadsInsert(Of(P, p), x), w)
<1> DEFINE p == x.call.proxy
           k == v[p].kind
           new == Configured(v[p], x.call.op, x.call.arg)
           w == IF x.call.ok THEN [v EXCEPT ![p] = new] ELSE v
           Op == Of(P, p)
           I == PayloadsInsert(Op, x)
           R == (P \ Op) \cup I
<1>1. /\ P \subseteq PayloadType /\ Ordered(P)
      /\ \A y \in P : CallOn(v, y) /\ StreamBefore(P, v, y)
      /\ \A q \in DOMAIN v : \E y \in P : y.call.proxy = q /\ Creates(P, y)
      /\ \A q \in DOMAIN v : \A op \in Ops(v[q].kind) :
           Clean(Of(P, q), op) => Leaves(Of(P, q), op, v[q].attrs[op])
  BY ScriptFacts
<1>2. /\ x.timestamp \in Nat /\ x.call.arg \in Nat /\ \A y \in P : y.timestamp \in Nat
      /\ p \in DOMAIN v /\ k \in Kinds /\ x.call.kind = k /\ x.call.op \in Ops(k)
      /\ x.key = OpKey(k, x.call.op) /\ x.call.ok \in BOOLEAN
  BY <1>1, PayloadFields DEF CallOn
<1>3. Op \subseteq P /\ \A y \in P : y \in Op <=> y.call.proxy = p
  BY DEF Of
<1>4. Inserts(Op, x, k)
  BY <1>1, <1>2, <1>3 DEF Inserts, CallOn
<1>5. /\ I \subseteq PayloadType /\ x \in I /\ I \subseteq Op \cup {x}
      /\ \A y \in Op : y.call.op # x.call.op => y \in I
      /\ k # "blas" => I = Op \cup {x} /\ x.key = Unkeyed
      /\ k = "blas" => x.key # Unkeyed /\ \A y \in I : y.call.op = x.call.op => y = x
  BY <1>4, InsertMembers
<1> HIDE DEF I, Op
<1>6. Of(R, p) = I /\ \A q : q # p => Of(R, q) = Of(P, q)
  BY <1>3, <1>5 DEF Of
<1>7. /\ DOMAIN w = DOMAIN v /\ \A q \in DOMAIN v : q # p => w[q] = v[q]
      /\ x.call.ok => w[p] = new
      /\ ~x.call.ok => w[p] = v[p]
  BY <1>2
<1>8. /\ IsObject(new) /\ new.kind = k
      /\ \A o \in Ops(k) :
           /\ o = x.call.op => new.attrs[o] = x.call.arg
           /\ o # x.call.op /\ o = "SetWorkspace" /\ x.call.op = "SetStream" =>
                new.attrs[o] = Null
           /\ o # x.call.op /\ ~(o = "SetWorkspace" /\ x.call.op = "SetStream") =>
                new.attrs[o] = v[p].attrs[o]
  BY <1>2, ConfiguredFacts
<1> HIDE DEF w, new
<1>9. \A q \in DOMAIN v : w[q].kind = v[q].kind
  BY <1>7, <1>8
<1>10. R \subseteq P \cup {x} /\ R \subseteq PayloadType
  BY <1>1, <1>3, <1>5
<1>11. \A y \in P : y.call.op = "create" => y \in R
  BY <1>3, <1>5
<1>12. Ordered(R)
  <2>1. ASSUME NEW y \in R, NEW z \in R, y.timestamp = z.timestamp PROVE y = z
    BY <1>1, <1>2, <1>10, <2>1 DEF Ordered
  <2>2. ASSUME NEW y \in R, y.call.proxy = p, y.key = x.key, x.key # Unkeyed
        PROVE  y = x
    <3>1. k = "blas" /\ y \in I
      BY <1>3, <1>5, <2>2
    <3>2. y.key = y.call.op /\ x.key = x.call.op
      BY <1>3, <1>4, <1>5, <3>1 DEF Inserts, OpKey
    <3> QED BY <1>5, <2>2, <3>1, <3>2
  <2>3. ASSUME NEW y \in R, NEW z \in R, y.call.proxy = z.call.proxy, y.key = z.key,
               y.key # Unkeyed
        PROVE  y = z
    <3>1. CASE y = x \/ z = x
      BY <2>2, <2>3, <3>1
    <3>2. CASE y \in P /\ z \in P
      BY <1>1, <2>3, <3>2 DEF Ordered
    <3> QED BY <1>10, <3>1, <3>2
  <2> QED BY <2>1, <2>3 DEF Ordered
<1>13. ASSUME NEW y \in R PROVE CallOn(w, y) /\ StreamBefore(R, w, y)
  <2>1. CallOn(w, y)
    BY <1>1, <1>7, <1>9, <1>10 DEF CallOn
  <2>2. ASSUME y.call.op = "SetStream", y.call.arg # Null
        PROVE  /\ y.call.arg \in DOMAIN v /\ v[y.call.arg].kind = "stream"
               /\ \E z \in P : /\ z.call.proxy = y.call.arg /\ z.call.op = "create"
                               /\ z.timestamp < y.timestamp
    <3>1. CASE y = x
      <4>1. y.call.arg \in DOMAIN v /\ v[y.call.arg].kind = "stream"
        BY <2>2, <3>1
      <4>2. \E z \in P : z.call.proxy = y.call.arg /\ z.call.op = "create"
        BY <1>1, <4>1 DEF Creates
      <4> QED BY <3>1, <4>1, <4>2
    <3>2. CASE y \in P
      BY <1>1, <2>2, <3>2 DEF StreamBefore
    <3> QED BY <1>10, <3>1, <3>2
  <2>3. StreamBefore(R, w, y)
    BY <1>7, <1>9, <1>11, <2>2 DEF StreamBefore
  <2> QED BY <2>1, <2>3
<1>14. ASSUME NEW q \in DOMAIN w PROVE \E y \in Of(R, q) : Creates(R, y)
  <2>1. PICK y \in P : y.call.proxy = q /\ Creates(P, y)
    BY <1>1, <1>7
  <2>2. y \in R /\ y \in Of(R, q)
    BY <1>11, <2>1 DEF Creates, Of
  <2>3. ASSUME NEW z \in Of(R, q), z # y
        PROVE  z.call.op # "create" /\ y.timestamp < z.timestamp
    <3>1. z \in R /\ z.call.proxy = q
      BY DEF Of
    <3>2. CASE z = x
      BY <3>2
    <3>3. CASE z \in P
      BY <2>1, <2>3, <3>1, <3>3 DEF Creates, Of
    <3> QED BY <1>10, <3>1, <3>2, <3>3
  <2>4. Creates(R, y)
    BY <2>1, <2>3 DEF Creates
  <2> QED BY <2>2, <2>4
<1>15. ASSUME NEW q \in DOMAIN w, NEW op \in Ops(w[q].kind), Clean(Of(R, q), op)
       PROVE  Leaves(Of(R, q), op, w[q].attrs[op])
  <2>1. CASE q # p
    BY <1>1, <1>6, <1>7, <1>15, <2>1
  <2>2. CASE q = p
    <3>1. op \in Ops(k) /\ Clean(I, op) /\ Of(R, q) = I
      BY <1>2, <1>6, <1>9, <1>15, <2>2
    <3>2. CASE x.call.ok /\ op = x.call.op
      <4>1. w[q].attrs[op] = x.call.arg
        BY <1>7, <1>8, <2>2, <3>1, <3>2
      <4> QED BY <1>4, <3>1, <3>2, <4>1, LeavesSet DEF I
    <3>3. CASE x.call.ok /\ op = "SetWorkspace" /\ x.call.op = "SetStream"
      <4>1. w[q].attrs[op] = Null
        BY <1>7, <1>8, <2>2, <3>1, <3>3
      <4> QED BY <1>4, <3>1, <3>3, <4>1, LeavesReset DEF I
    <3>4. CASE x.call.ok =>
                 x.call.op # op /\ ~(op = "SetWorkspace" /\ x.call.op = "SetStream")
      <4>1. Clean(Op, op) /\ \A a : Leaves(Op, op, a) => Leaves(I, op, a)
        BY <1>4, <3>1, <3>4, LeavesKept DEF I
      <4>2. w[q].attrs[op] = v[p].attrs[op]
        BY <1>2, <1>7, <1>8, <2>2, <3>1, <3>4
      <4>3. Leaves(Op, op, v[p].attrs[op])
        BY <1>1, <1>2, <3>1, <4>1 DEF Op
      <4> QED BY <3>1, <4>1, <4>2, <4>3
    <3> QED BY <3>2, <3>3, <3>4
  <2> QED BY <2>1, <2>2
<1>16. Script(R, w)
  BY <1>10, <1>12, <1>13, <1>14, <1>15 DEF Script
<1> QED BY <1>16 DEF w, I, Op, new

(* A handle that is destroyed, with the calls on it.  It is no stream, so  *)
(* no other call names it.                                                 *)
LEMMA ScriptDestroy ==
  ASSUME NEW P, NEW v, Script(P, v), NEW p \in DOMAIN v, v[p].kind # "stream"
  PROVE  Script(P \ Of(P, p), Without(v, p))
<1> DEFINE R == P \ Of(P, p)
           w == Without(v, p)
<1>1. /\ P \subseteq PayloadType /\ Ordered(P)
      /\ \A y \in P : CallOn(v, y) /\ StreamBefore(P, v, y)
      /\ \A q \in DOMAIN v : \E y \in P : y.call.proxy = q /\ Creates(P, y)
      /\ \A q \in DOMAIN v : \A op \in Ops(v[q].kind) :
           Clean(Of(P, q), op) => Leaves(Of(P, q), op, v[q].attrs[op])
  BY ScriptFacts
<1>2. DOMAIN w = DOMAIN v \ {p} /\ \A q \in DOMAIN w : w[q] = v[q]
  BY DEF Without
<1>3. /\ R \subseteq P /\ \A y \in P : y \in R <=> y.call.proxy # p
      /\ \A q \in DOMAIN w : Of(R, q) = Of(P, q)
  BY <1>2 DEF Of
<1> HIDE DEF w, R
<1>4. R \subseteq PayloadType /\ Ordered(R)
  BY <1>1, <1>3 DEF Ordered
<1>5. ASSUME NEW y \in R PROVE CallOn(w, y) /\ StreamBefore(R, w, y)
  <2>1. CallOn(w, y)
    BY <1>1, <1>2, <1>3 DEF CallOn
  <2>2. StreamBefore(R, w, y)
    BY <1>1, <1>2, <1>3 DEF StreamBefore
  <2> QED BY <2>1, <2>2
<1>6. ASSUME NEW q \in DOMAIN w PROVE \E y \in Of(R, q) : Creates(R, y)
  <2>1. PICK y \in P : y.call.proxy = q /\ Creates(P, y)
    BY <1>1, <1>2
  <2>2. y \in Of(R, q) /\ Creates(R, y)
    BY <1>3, <2>1 DEF Creates, Of
  <2> QED BY <2>2
<1>7. ASSUME NEW q \in DOMAIN w, NEW op \in Ops(w[q].kind), Clean(Of(R, q), op)
      PROVE  Leaves(Of(R, q), op, w[q].attrs[op])
  BY <1>1, <1>2, <1>3, <1>7
<1>8. Script(R, w)
  BY <1>4, <1>5, <1>6, <1>7 DEF Script
<1> QED BY <1>8 DEF w, R

(* f numbers the calls P again, in the same order.                         *)
Renames(P, Q, f) ==
  /\ f \in [P -> Q] /\ \A y \in Q : \E x \in P : f[x] = y
  /\ \A x \in P : f[x].call = x.call /\ f[x].key = x.key
  /\ \A x, y \in P : x.timestamp < y.timestamp => f[x].timestamp < f[y].timestamp

(* Only the order of the timestamps matters.                               *)
LEMMA ScriptRenamed ==
  ASSUME NEW P, NEW v, Script(P, v), NEW Q \in SUBSET PayloadType, NEW f,
         Renames(P, Q, f)
  PROVE  Script(Q, v)
<1>1. /\ P \subseteq PayloadType /\ Ordered(P)
      /\ \A y \in P : CallOn(v, y) /\ StreamBefore(P, v, y)
      /\ \A q \in DOMAIN v : \E y \in P : y.call.proxy = q /\ Creates(P, y)
      /\ \A q \in DOMAIN v : \A op \in Ops(v[q].kind) :
           Clean(Of(P, q), op) => Leaves(Of(P, q), op, v[q].attrs[op])
  BY ScriptFacts
<1>2. /\ \A x \in P : f[x] \in Q /\ f[x].call = x.call /\ f[x].key = x.key
      /\ \A y \in Q : \E x \in P : f[x] = y
      /\ \A x, y \in P : x.timestamp < y.timestamp => f[x].timestamp < f[y].timestamp
  BY DEF Renames
<1>3. /\ \A x \in P : x.timestamp \in Nat /\ f[x].timestamp \in Nat
      /\ \A x, y \in P : x.timestamp = y.timestamp => x = y
  BY <1>1, <1>2, PayloadFields DEF Ordered
<1>4. /\ \A x, y \in P : f[x].timestamp = f[y].timestamp => x = y
      /\ \A x, y \in P : x.timestamp <= y.timestamp => f[x].timestamp <= f[y].timestamp
  BY <1>2, <1>3
<1>5. Ordered(Q)
  <2>1. \A x, y \in Q : x.timestamp = y.timestamp => x = y
    BY <1>2, <1>4
  <2>2. \A x, y \in Q : x.call.proxy = y.call.proxy /\ x.key = y.key /\ x.key # Unkeyed
                          => x = y
    BY <1>1, <1>2 DEF Ordered
  <2> QED BY <2>1, <2>2 DEF Ordered
<1>6. ASSUME NEW y \in Q PROVE CallOn(v, y) /\ StreamBefore(Q, v, y)
  <2>1. PICK x \in P : f[x] = y
    BY <1>2
  <2>2. y.call = x.call /\ y.key = x.key /\ CallOn(v, x) /\ StreamBefore(P, v, x)
    BY <1>1, <1>2, <2>1
  <2>3. CallOn(v, y)
    BY <2>2 DEF CallOn
  <2>4. ASSUME x.call.op = "SetStream", x.call.arg # Null
        PROVE  /\ x.call.arg \in DOMAIN v /\ v[x.call.arg].kind = "stream"
               /\ \E z \in Q : /\ z.call.proxy = x.call.arg /\ z.call.op = "create"
                               /\ z.timestamp < y.timestamp
    <3>1. PICK z \in P : /\ z.call.proxy = x.call.arg /\ z.call.op = "create"
                         /\ z.timestamp < x.timestamp
      BY <2>2, <2>4 DEF StreamBefore
    <3>2. f[z] \in Q /\ f[z].call = z.call /\ f[z].timestamp < y.timestamp
      BY <1>2, <2>1, <3>1
    <3> QED BY <2>2, <2>4, <3>1, <3>2 DEF StreamBefore
  <2>5. StreamBefore(Q, v, y)
    BY <2>2, <2>4 DEF StreamBefore
  <2> QED BY <2>3, <2>5
<1>7. ASSUME NEW q \in DOMAIN v PROVE \E y \in Of(Q, q) : Creates(Q, y)
  <2>1. PICK x \in P : x.call.proxy = q /\ Creates(P, x)
    BY <1>1
  <2>2. f[x] \in Of(Q, q) /\ f[x].call = x.call
    BY <1>2, <2>1 DEF Of
  <2>3. ASSUME NEW z \in Of(Q, q), z # f[x]
        PROVE  z.call.op # "create" /\ f[x].timestamp < z.timestamp
    <3>1. PICK y \in P : f[y] = z
      BY <1>2 DEF Of
    <3>2. y \in Of(P, q) /\ y # x /\ z.call = y.call
      BY <1>2, <2>3, <3>1 DEF Of
    <3>3. y.call.op # "create" /\ x.timestamp < y.timestamp
      BY <2>1, <3>2 DEF Creates
    <3> QED BY <1>2, <3>1, <3>2, <3>3
  <2>4. Creates(Q, f[x])
    BY <2>1, <2>2, <2>3 DEF Creates
  <2> QED BY <2>2, <2>4
<1>8. ASSUME NEW q \in DOMAIN v, NEW op \in Ops(v[q].kind), Clean(Of(Q, q), op)
      PROVE  Leaves(Of(Q, q), op, v[q].attrs[op])
  <2> DEFINE A == Of(P, q)
             B == Of(Q, q)
             a == v[q].attrs[op]
  <2>1. /\ A \subseteq P /\ \A x \in A : f[x] \in B
        /\ \A y \in B : \E x \in A : f[x] = y
    BY <1>2 DEF Of
  <2> HIDE DEF A, B
  <2>2. Clean(A, op)
    BY <1>2, <1>8, <2>1 DEF Clean, B
  <2>3. Leaves(A, op, a)
    BY <1>1, <2>2 DEF A
  <2> HIDE DEF a
  <2>4. /\ \A x \in Sets(A, op) : x \in P /\ f[x] \in Sets(B, op)
        /\ \A y \in Sets(B, op) : \E x \in Sets(A, op) : f[x] = y
    BY <1>2, <2>1 DEF Sets
  <2>5. /\ \A x \in Resets(A, op) : x \in P /\ f[x] \in Resets(B, op)
        /\ \A y \in Resets(B, op) : \E x \in Resets(A, op) : f[x] = y
    BY <1>2, <2>1 DEF Resets
  <2>6. CASE \E x \in Sets(A, op) :
               a = x.call.arg /\ \A y \in Sets(A, op) \cup Resets(A, op) :
                                   y.timestamp <= x.timestamp
    <3>1. PICK x \in Sets(A, op) :
               a = x.call.arg /\ \A y \in Sets(A, op) \cup Resets(A, op) :
                                   y.timestamp <= x.timestamp
      BY <2>6
    <3>2. f[x] \in Sets(B, op) /\ a = f[x].call.arg
      BY <1>2, <2>4, <3>1
    <3>3. ASSUME NEW z \in Sets(B, op) \cup Resets(B, op)
          PROVE  z.timestamp <= f[x].timestamp
      <4>1. PICK y \in Sets(A, op) \cup Resets(A, op) : y \in P /\ f[y] = z
        BY <2>4, <2>5
      <4> QED BY <1>4, <2>4, <3>1, <4>1
    <3> QED BY <3>2, <3>3 DEF Leaves, B, a
  <2>7. CASE a = Null /\ Sets(A, op) = {}
    <3>1. Sets(B, op) = {}
      BY <2>4, <2>7
    <3> QED BY <2>7, <3>1 DEF Leaves, B, a
  <2>8. CASE a = Null /\ \E y \in Resets(A, op) : \A x \in Sets(A, op) :
                             x.timestamp < y.timestamp
    <3>1. PICK y \in Resets(A, op) : \A x \in Sets(A, op) : x.timestamp < y.timestamp
      BY <2>8
    <3>2. f[y] \in Resets(B, op) /\ \A z \in Sets(B, op) : z.timestamp < f[y].timestamp
      BY <1>2, <2>4, <2>5, <3>1
    <3> QED BY <2>8, <3>2 DEF Leaves, B, a
  <2> QED BY <2>3, <2>6, <2>7, <2>8 DEF Leaves
<1> QED BY <1>5, <1>6, <1>7, <1>8 DEF Script

-----------------------------------------------------------------------------
(* serialize                                                               *)

(* How many calls are older than x: its place in the image, from 0.        *)
Rank(P, x) == Cardinality({y \in P : y.timestamp < x.timestamp})

(* Ranks number a finite set of calls in the order of their timestamps.    *)
LEMMA RankFacts ==
  ASSUME NEW P \in SUBSET PayloadType, IsFiniteSet(P),
         \A x, y \in P : x.timestamp = y.timestamp => x = y
  PROVE  /\ Cardinality(P) \in Nat
         /\ \A x \in P : Rank(P, x) \in 0..(Cardinality(P) - 1)
         /\ \A x, y \in P : x.timestamp < y.timestamp => Rank(P, x) < Rank(P, y)
         /\ \A x, y \in P : Rank(P, x) = Rank(P, y) => x = y
         /\ \A i \in 0..(Cardinality(P) - 1) : \E x \in P : Rank(P, x) = i
<1> DEFINE n == Cardinality(P)
           Older(x) == {y \in P : y.timestamp < x.timestamp}
<1>1. n \in Nat /\ \A x \in P : x.timestamp \in Nat
  BY FS_CardinalityType, PayloadFields
<1>2. ASSUME NEW x \in P
      PROVE  Rank(P, x) \in 0..(n - 1)
  <2>1. Older(x) \in SUBSET P /\ x \notin Older(x)
    BY <1>1
  <2>2. /\ IsFiniteSet(Older(x)) /\ Cardinality(Older(x)) <= n
        /\ Cardinality(Older(x)) = n => Older(x) = P
    BY <2>1, FS_Subset
  <2>3. Cardinality(Older(x)) \in Nat
    BY <2>2, FS_CardinalityType
  <2>4. Cardinality(Older(x)) # n
    BY <2>1, <2>2
  <2> HIDE DEF Older, n
  <2>5. Cardinality(Older(x)) \in 0..(n - 1)
    BY <1>1, <2>2, <2>3, <2>4
  <2> QED BY <2>5 DEF Rank, Older
<1>3. ASSUME NEW x \in P, NEW y \in P, x.timestamp < y.timestamp
      PROVE  Rank(P, x) < Rank(P, y)
  <2>1. /\ Older(x) \in SUBSET Older(y) /\ x \in Older(y) /\ x \notin Older(x)
        /\ Older(y) \in SUBSET P
    BY <1>1, <1>3
  <2>2. IsFiniteSet(Older(y))
    BY <2>1, FS_Subset
  <2>3. /\ Cardinality(Older(x)) <= Cardinality(Older(y))
        /\ Cardinality(Older(y)) = Cardinality(Older(x)) => Older(y) = Older(x)
    BY <2>1, <2>2, FS_Subset
  <2>4. Cardinality(Older(x)) # Cardinality(Older(y))
    BY <2>1, <2>3
  <2>5. Rank(P, x) = Cardinality(Older(x)) /\ Rank(P, y) = Cardinality(Older(y))
    BY DEF Rank
  <2>6. Rank(P, x) \in Nat /\ Rank(P, y) \in Nat
    BY <1>2
  <2> HIDE DEF Older
  <2> QED BY <2>3, <2>4, <2>5, <2>6
<1>4. ASSUME NEW x \in P, NEW y \in P, Rank(P, x) = Rank(P, y) PROVE x = y
  <2>1. CASE x.timestamp < y.timestamp
    BY <1>2, <1>3, <1>4, <2>1
  <2>2. CASE y.timestamp < x.timestamp
    BY <1>2, <1>3, <1>4, <2>2
  <2>3. CASE x.timestamp = y.timestamp
    BY <2>3
  <2> QED BY <1>1, <2>1, <2>2, <2>3
<1>5. \A i \in 0..(n - 1) : \E x \in P : Rank(P, x) = i
  <2> DEFINE r == [x \in P |-> Rank(P, x)]
  <2>1. r \in Injection(P, 0..(n - 1))
    BY <1>2, <1>4 DEF Injection, IsInjective
  <2>2. IsFiniteSet(0..(n - 1)) /\ Cardinality(0..(n - 1)) = n
    <3> HIDE DEF n
    <3>1. n - 1 \in Int /\ 0 \in Int
      BY <1>1
    <3> QED BY <1>1, <3>1, FS_Interval
  <2> HIDE DEF r
  <2>3. r \in Surjection(P, 0..(n - 1))
    BY <2>1, <2>2, FS_Injection
  <2> QED BY <2>3 DEF Surjection, r
<1> QED BY <1>1, <1>2, <1>3, <1>4, <1>5

(* The entries of a manager hold finitely many calls, no more than the     *)
(* clock has counted.                                                      *)
LEMMA RecordedFinite ==
  ASSUME NEW P \in SUBSET PayloadType, NEW t \in Nat \ {0},
         \A x \in P : x.timestamp \in 1..(t - 1),
         \A x, y \in P : x.timestamp = y.timestamp => x = y
  PROVE  IsFiniteSet(P) /\ Cardinality(P) <= t - 1
<1> DEFINE f == [x \in P |-> x.timestamp]
<1>1. f \in Injection(P, 1..(t - 1))
  BY DEF Injection, IsInjective
<1>2. IsFiniteSet(1..(t - 1)) /\ Cardinality(1..(t - 1)) = t - 1
  <2>1. 1 \in Int /\ t - 1 \in Int
    OBVIOUS
  <2> QED BY <2>1, FS_Interval
<1> HIDE DEF f
<1> QED BY <1>1, <1>2, FS_Injection

(* serialize numbers the recorded calls again in the same order, so the    *)
(* image makes the same handles.                                           *)
LEMMA SerializeFacts ==
  ASSUME NEW res, NEW t \in Nat \ {0}, NEW v, EntriesOK(res, t),
         Script(Recorded(res), v)
  PROVE  /\ Serialize(res) \in Seq(CallType) /\ Len(Serialize(res)) <= t - 1
         /\ Script(Rest(Serialize(res), 1), v)
<1> DEFINE P == Recorded(res)
           n == Cardinality(P)
           key == [x \in P |-> x.timestamp]
           lg == Serialize(res)
           At(i) == CHOOSE x \in P : Rank(P, x) = i - 1
           Q == Rest(lg, 1)
           Named(x) == [timestamp |-> Rank(P, x) + 1, key |-> x.key, call |-> x.call]
           f == [x \in P |-> Named(x)]
<1>1. P \subseteq PayloadType /\ Ordered(P) /\ \A x \in P : CallOn(v, x)
  BY ScriptFacts
<1>2. \A x \in P : x.timestamp \in 1..(t - 1)
  BY DEF Recorded, EntriesOK, EntryOK
<1>3. \A x, y \in P : x.timestamp = y.timestamp => x = y
  BY <1>1 DEF Ordered
<1>4. IsFiniteSet(P) /\ n <= t - 1
  BY <1>1, <1>2, <1>3, RecordedFinite
<1>5. /\ n \in Nat
      /\ \A x \in P : Rank(P, x) \in 0..(n - 1)
      /\ \A x, y \in P : x.timestamp < y.timestamp => Rank(P, x) < Rank(P, y)
      /\ \A x, y \in P : Rank(P, x) = Rank(P, y) => x = y
      /\ \A i \in 0..(n - 1) : \E x \in P : Rank(P, x) = i
  BY <1>1, <1>3, <1>4, RankFacts
<1>6. lg = [i \in 1..n |-> At(i).call]
  <2>1. ASSUME NEW x \in P
        PROVE  {y \in P : key[y] < key[x]} = {y \in P : y.timestamp < x.timestamp}
    OBVIOUS
  <2>2. ASSUME NEW x \in P PROVE Cardinality({y \in P : key[y] < key[x]}) = Rank(P, x)
    BY <2>1 DEF Rank
  <2>3. ASSUME NEW i \in 1..n
        PROVE  (CHOOSE x \in P : Cardinality({y \in P : key[y] < key[x]}) = i - 1) = At(i)
    BY <2>2
  <2>4. lg = [i \in 1..n |->
               (CHOOSE x \in P : Cardinality({y \in P : key[y] < key[x]}) = i - 1).call]
    BY DEF Serialize, SortedBy
  <2> QED BY <2>3, <2>4
<1> HIDE DEF P, n, key, lg
<1>7. ASSUME NEW i \in 1..n PROVE At(i) \in P /\ Rank(P, At(i)) = i - 1
  <2>1. i - 1 \in 0..(n - 1)
    BY <1>5
  <2>2. \E x \in P : Rank(P, x) = i - 1
    BY <1>5, <2>1
  <2> QED BY <2>2
<1>8. ASSUME NEW x \in P PROVE Rank(P, x) + 1 \in 1..n /\ At(Rank(P, x) + 1) = x
  <2>1. /\ Rank(P, x) \in 0..(n - 1) /\ Rank(P, x) + 1 \in 1..n
        /\ (Rank(P, x) + 1) - 1 = Rank(P, x)
    BY <1>5
  <2>2. /\ At(Rank(P, x) + 1) \in P
        /\ Rank(P, At(Rank(P, x) + 1)) = Rank(P, x)
    BY <1>7, <2>1
  <2> QED BY <1>5, <2>1, <2>2
<1> HIDE DEF At
<1>9. \A i \in 1..n : At(i).call \in CallType
  BY <1>1, <1>7, PayloadFields
<1>10. lg \in Seq(CallType) /\ Len(lg) = n /\ \A i \in 1..n : lg[i] = At(i).call
  BY <1>5, <1>6, <1>9
<1>11. ASSUME NEW i \in 1..n
       PROVE  [timestamp |-> 1 + i - 1, key |-> OpKey(lg[i].kind, lg[i].op), call |-> lg[i]]
                = Named(At(i))
  <2>1. At(i) \in P /\ Rank(P, At(i)) = i - 1 /\ lg[i] = At(i).call
    BY <1>7, <1>10
  <2>2. At(i).key = OpKey(lg[i].kind, lg[i].op)
    BY <1>1, <2>1 DEF CallOn
  <2>3. 1 + i - 1 = (i - 1) + 1
    OBVIOUS
  <2> QED BY <2>1, <2>2, <2>3
<1>12. Q = {Named(At(i)) : i \in 1..n}
  BY <1>10, <1>11 DEF Rest
<1> HIDE DEF Q
<1>13. ASSUME NEW x \in P
       PROVE  /\ Named(x) \in PayloadType /\ Named(x) \in Q
              /\ Named(x).call = x.call /\ Named(x).key = x.key
              /\ Named(x).timestamp = Rank(P, x) + 1
  <2>1. Rank(P, x) + 1 \in Nat
    BY <1>5
  <2>2. Named(x) \in PayloadType
    BY <1>1, <2>1, PayloadFields DEF PayloadType
  <2>3. Named(x) \in Q
    BY <1>8, <1>12
  <2> QED BY <2>2, <2>3
<1> HIDE DEF Named
<1>14. Q \subseteq PayloadType
  BY <1>7, <1>12, <1>13
<1>15. Renames(P, Q, f)
  <2>1. f \in [P -> Q] /\ \A x \in P : f[x] = Named(x)
    BY <1>13
  <2> HIDE DEF f
  <2>2. \A y \in Q : \E x \in P : f[x] = y
    BY <1>7, <1>12, <2>1
  <2>3. \A x \in P : f[x].call = x.call /\ f[x].key = x.key
    BY <1>13, <2>1
  <2>4. ASSUME NEW x \in P, NEW y \in P, x.timestamp < y.timestamp
        PROVE  f[x].timestamp < f[y].timestamp
    <3>1. Rank(P, x) < Rank(P, y) /\ Rank(P, x) \in Nat /\ Rank(P, y) \in Nat
      BY <1>5, <2>4
    <3> QED BY <1>13, <2>1, <3>1
  <2> QED BY <2>1, <2>2, <2>3, <2>4 DEF Renames
<1>16. Script(P, v)
  BY DEF P
<1>17. Script(Q, v)
  BY <1>14, <1>15, <1>16, ScriptRenamed
<1> QED BY <1>4, <1>10, <1>17 DEF Q, lg

-----------------------------------------------------------------------------
(* The entries of a manager and the handles behind them                    *)

(* A set of natural numbers has a smallest element.                        *)
LEMMA Smallest ==
  ASSUME NEW S, S \subseteq Nat, S # {}
  PROVE  \E x \in S : \A y \in S : x <= y
<1>1. PICK x \in S : \A y \in S : ~(<<y, x>> \in OpToRel(<, Nat))
  BY NatLessThanWellFounded, WFMin, Zenon
<1>2. \A y \in S : ~(y < x)
  BY <1>1 DEF OpToRel
<1> QED BY <1>2

(* The driver returns a handle that is not in use.                         *)
LEMMA FreshFacts ==
  ASSUME IsFiniteSet(DOMAIN gpu), DOMAIN gpu \subseteq Nat \ {0}
  PROVE  FreshHandle \in Nat \ {0} /\ FreshHandle \notin DOMAIN gpu
<1> DEFINE D == DOMAIN gpu
           n == Cardinality(D)
           S == (1..(n + 1)) \ D
<1>1. n \in Nat
  BY FS_CardinalityType
<1>2. S # {}
  <2> SUFFICES ASSUME S = {} PROVE FALSE
    OBVIOUS
  <2>1. 1..(n + 1) \in SUBSET D
    OBVIOUS
  <2>2. Cardinality(1..(n + 1)) <= n
    BY <2>1, FS_Subset
  <2> HIDE DEF n
  <2>3. Cardinality(1..(n + 1)) = n + 1
    <3>1. 1 \in Int /\ n + 1 \in Int
      BY <1>1
    <3> QED BY <1>1, <3>1, FS_Interval
  <2> QED BY <1>1, <2>2, <2>3
<1>3. S \subseteq Nat
  BY <1>1
<1>4. PICK x \in S : \A y \in S : x <= y
  BY <1>2, <1>3, Smallest
<1> HIDE DEF n
<1>5. x \in 1..(n + 1) /\ x \notin D /\ 1..(x - 1) \subseteq D
  <2>1. x \in 1..(n + 1) /\ x \notin D
    OBVIOUS
  <2>2. ASSUME NEW y \in 1..(x - 1) PROVE y \in D
    <3>1. y \in 1..(n + 1) /\ ~(x <= y)
      BY <1>1, <2>1
    <3> QED BY <1>4, <3>1
  <2> QED BY <2>1, <2>2
<1>6. /\ FreshHandle \in 1..(n + 1) /\ FreshHandle \notin D
  BY <1>5 DEF FreshHandle, n
<1> QED BY <1>1, <1>6

(* The entries res are in order at time t, and their real handles g are    *)
(* what the recorded calls leave.                                          *)
Entries(res, t, g, v) ==
  /\ t \in Nat \ {0} /\ EntriesOK(res, t) /\ Backed(res, g)
  /\ \A p \in DOMAIN res : ConfiguredAs(res, g, v, p)

(* x creates a handle that has no entry yet, and the driver returns h.     *)
Creation(res, t, g, v, w, x, h) ==
  /\ x \in PayloadType /\ x.timestamp = t /\ x.call.op = "create"
  /\ h \in Nat \ {0} /\ h \notin DOMAIN g
  /\ x.call.proxy \notin DOMAIN res /\ w[x.call.proxy].kind = x.call.kind
  /\ \A q \in DOMAIN res : w[q].kind = v[q].kind

(* A handle is created, by the client or by a replay.                      *)
LEMMA EntriesCreate ==
  ASSUME NEW res, NEW t, NEW g, NEW v, Entries(res, t, g, v), NEW w, NEW x, NEW h,
         Creation(res, t, g, v, w, x, h)
  PROVE  LET new == With(res, x.call.proxy, [value |-> h, payloads |-> {x}])
         IN  /\ Entries(new, t + 1, With(g, h, NewObject(x.call.kind)), w)
             /\ Recorded(new) = Recorded(res) \cup {x}
<1>0. /\ x \in PayloadType /\ x.timestamp = t /\ x.call.op = "create"
      /\ h \in Nat \ {0} /\ h \notin DOMAIN g
      /\ x.call.proxy \notin DOMAIN res /\ w[x.call.proxy].kind = x.call.kind
      /\ \A q \in DOMAIN res : w[q].kind = v[q].kind
  BY DEF Creation
<1> USE <1>0
<1> DEFINE p == x.call.proxy
           k == x.call.kind
           e == [value |-> h, payloads |-> {x}]
           new == With(res, p, e)
           g2 == With(g, h, NewObject(k))
<1>1. /\ t \in Nat \ {0} /\ EntriesOK(res, t) /\ Backed(res, g)
      /\ \A q \in DOMAIN res : ConfiguredAs(res, g, v, q)
  BY DEF Entries
<1>2. k \in Kinds /\ p \in 1..MaxProxy
  BY PayloadFields
<1>3. /\ IsObject(NewObject(k)) /\ NewObject(k).kind = k
      /\ \A op \in Ops(k) : NewObject(k).attrs[op] = Null
  BY <1>2, NewObjectFacts
<1>4. /\ DOMAIN new = DOMAIN res \cup {p} /\ new[p] = e
      /\ \A q \in DOMAIN res : q # p /\ new[q] = res[q]
  BY DEF With
<1>5. /\ DOMAIN g2 = DOMAIN g \cup {h} /\ g2[h] = NewObject(k)
      /\ \A i \in DOMAIN g : i # h /\ g2[i] = g[i]
  BY DEF With
<1>6. e \in HandleType /\ e.value = h /\ e.payloads = {x}
  BY DEF HandleType
<1> HIDE DEF new, g2, e
<1>7. EntriesOK(new, t + 1)
  <2> SUFFICES ASSUME NEW q \in DOMAIN new PROVE EntryOK(new[q], q, t + 1)
    BY DEF EntriesOK
  <2>1. CASE q = p
    BY <1>1, <1>4, <1>6, <2>1 DEF EntryOK
  <2>2. CASE q \in DOMAIN res
    <3>1. EntryOK(res[q], q, t)
      BY <1>1, <2>2 DEF EntriesOK
    <3> QED BY <1>1, <1>4, <2>2, <3>1 DEF EntryOK
  <2> QED BY <1>4, <2>1, <2>2
<1>8. Backed(new, g2)
  <2>1. /\ IsFiniteSet(DOMAIN g) /\ DOMAIN g \subseteq Nat \ {0}
        /\ \A i \in DOMAIN g : IsObject(g[i]) /\ \E q \in DOMAIN res : res[q].value = i
        /\ \A q \in DOMAIN res : res[q].value \in DOMAIN g
        /\ \A q, r \in DOMAIN res : res[q].value = res[r].value => q = r
    BY <1>1 DEF Backed
  <2>2. IsFiniteSet(DOMAIN g2) /\ DOMAIN g2 \subseteq Nat \ {0}
    BY <1>5, <2>1, FS_AddElement
  <2>3. \A i \in DOMAIN g2 : IsObject(g2[i]) /\ \E q \in DOMAIN new : new[q].value = i
    BY <1>3, <1>4, <1>5, <1>6, <2>1
  <2>4. /\ \A q \in DOMAIN new : new[q].value \in DOMAIN g2
        /\ \A q, r \in DOMAIN new : new[q].value = new[r].value => q = r
    BY <1>4, <1>5, <1>6, <2>1
  <2> QED BY <2>2, <2>3, <2>4 DEF Backed
<1>9. ASSUME NEW q \in DOMAIN new PROVE ConfiguredAs(new, g2, w, q)
  <2>1. CASE q = p
    <3>1. g2[new[q].value] = NewObject(k) /\ w[q].kind = k /\ new[q].payloads = {x}
      BY <1>4, <1>5, <1>6, <2>1
    <3>2. ASSUME NEW op \in Ops(k)
          PROVE  Leaves({x}, op, Null) /\ Stands(new, op, NewObject(k).attrs[op], Null)
      <4>1. Sets({x}, op) = {}
        BY <1>2, OpNames DEF Sets
      <4> QED BY <1>3, <4>1 DEF Leaves, Stands
    <3> QED BY <1>3, <3>1, <3>2 DEF ConfiguredAs, Null
  <2>2. CASE q \in DOMAIN res
    <3>1. new[q] = res[q] /\ res[q].value \in DOMAIN g /\ g2[res[q].value] = g[res[q].value]
      BY <1>1, <1>4, <1>5, <2>2 DEF Backed
    <3>2. w[q].kind = v[q].kind /\ ConfiguredAs(res, g, v, q)
      BY <1>1, <2>2
    <3>3. ASSUME NEW op, NEW real, NEW a, Stands(res, op, real, a)
          PROVE  Stands(new, op, real, a)
      BY <1>4, <3>3 DEF Stands
    <3> QED BY <3>1, <3>2, <3>3 DEF ConfiguredAs
  <2> QED BY <1>4, <2>1, <2>2
<1>10. Recorded(new) = Recorded(res) \cup {x}
  <2>1. ASSUME NEW y PROVE y \in Recorded(new) <=> y \in Recorded(res) \/ y = x
    BY <1>4, <1>6 DEF Recorded
  <2> QED BY <2>1
<1>11. Entries(new, t + 1, g2, w)
  BY <1>1, <1>7, <1>8, <1>9 DEF Entries
<1> QED BY <1>10, <1>11 DEF new, g2, e

(* The calls of one entry, among all that are recorded.                    *)
LEMMA RecordedOf ==
  ASSUME NEW res, NEW t, EntriesOK(res, t)
  PROVE  /\ \A p \in DOMAIN res : Of(Recorded(res), p) = res[p].payloads
         /\ \A x \in Recorded(res) : /\ x \in PayloadType /\ x.call.proxy \in DOMAIN res
                                     /\ x \in res[x.call.proxy].payloads
                                     /\ x.timestamp \in 1..(t - 1)
<1>1. \A p \in DOMAIN res :
        /\ res[p].payloads \subseteq PayloadType
        /\ \A x \in res[p].payloads : x.call.proxy = p /\ x.timestamp \in 1..(t - 1)
  BY DEF EntriesOK, EntryOK, HandleType
<1>2. \A x : x \in Recorded(res) <=> \E p \in DOMAIN res : x \in res[p].payloads
  BY DEF Recorded
<1> QED BY <1>1, <1>2 DEF Of

(* insert_args keeps an entry in order.                                    *)
LEMMA EntryInsert ==
  ASSUME NEW e, NEW p, NEW t \in Nat \ {0}, EntryOK(e, p, t), NEW x, NEW k,
         Inserts(e.payloads, x, k), x.call.proxy = p, x.timestamp = t
  PROVE  EntryOK([e EXCEPT !.payloads = PayloadsInsert(e.payloads, x)], p, t + 1)
<1> DEFINE I == PayloadsInsert(e.payloads, x)
           new == [e EXCEPT !.payloads = I]
<1>1. /\ I \subseteq PayloadType /\ x \in I /\ I \subseteq e.payloads \cup {x}
      /\ \A y \in e.payloads : y.call.op # x.call.op => y \in I
  BY InsertMembers
<1>2. /\ e \in HandleType
      /\ \A y \in e.payloads : y.call.proxy = p /\ y.timestamp \in 1..(t - 1)
      /\ \E y \in e.payloads : y.call.op = "create"
  BY DEF EntryOK
<1> HIDE DEF I
<1>3. new \in HandleType /\ new.payloads = I
  BY <1>1, <1>2 DEF HandleType
<1> HIDE DEF new
<1>4. x.call.op # "create"
  BY OpNames DEF Inserts
<1>5. \A y \in I : y.call.proxy = p /\ y.timestamp \in 1..(t + 1 - 1)
  BY <1>1, <1>2
<1>6. \E y \in I : y.call.op = "create"
  BY <1>1, <1>2, <1>4
<1> QED BY <1>3, <1>5, <1>6 DEF EntryOK, new, I

(* x configures a handle that has an entry, with real for its argument.    *)
Modification(res, t, v, w, x, real) ==
  /\ x \in PayloadType /\ x.timestamp = t /\ x.call.proxy \in DOMAIN res
  /\ Inserts(res[x.call.proxy].payloads, x, v[x.call.proxy].kind)
  /\ \A q \in DOMAIN res : w[q].kind = v[q].kind
  /\ x.call.op = "SetStream" => x.call.arg \in {Null} \cup DOMAIN res
  /\ real = IF x.call.op # "SetStream" \/ x.call.arg = Null THEN x.call.arg
            ELSE res[x.call.arg].value

(* The entries and the real handles after it.                              *)
ModifiedIn(res, x) == [res EXCEPT ![x.call.proxy].payloads = PayloadsInsert(@, x)]
ModifiedGpu(g, res, x, real) ==
  IF x.call.ok THEN [g EXCEPT ![res[x.call.proxy].value] = Configured(@, x.call.op, real)]
               ELSE g

(* A handle is configured, by the client or by a replay.                   *)
LEMMA EntriesModify ==
  ASSUME NEW res, NEW t, NEW g, NEW v, Entries(res, t, g, v), NEW w, NEW x, NEW real,
         Modification(res, t, v, w, x, real)
  PROVE  /\ Entries(ModifiedIn(res, x), t + 1, ModifiedGpu(g, res, x, real), w)
         /\ Recorded(ModifiedIn(res, x)) =
              (Recorded(res) \ Of(Recorded(res), x.call.proxy))
                \cup PayloadsInsert(Of(Recorded(res), x.call.proxy), x)
<1>0. /\ x \in PayloadType /\ x.timestamp = t /\ x.call.proxy \in DOMAIN res
      /\ Inserts(res[x.call.proxy].payloads, x, v[x.call.proxy].kind)
      /\ \A q \in DOMAIN res : w[q].kind = v[q].kind
      /\ x.call.op = "SetStream" => x.call.arg \in {Null} \cup DOMAIN res
      /\ x.call.op # "SetStream" => real = x.call.arg
      /\ x.call.op = "SetStream" =>
           real = IF x.call.arg = Null THEN Null ELSE res[x.call.arg].value
  BY DEF Modification
<1> USE <1>0
<1> DEFINE p == x.call.proxy
           k == v[p].kind
           h == res[p].value
           I == PayloadsInsert(res[p].payloads, x)
           new == [res EXCEPT ![p].payloads = PayloadsInsert(@, x)]
           conf == Configured(g[h], x.call.op, real)
           g2 == IF x.call.ok THEN [g EXCEPT ![h] = conf] ELSE g
<1>1. /\ t \in Nat \ {0} /\ EntriesOK(res, t) /\ Backed(res, g)
      /\ \A q \in DOMAIN res : ConfiguredAs(res, g, v, q)
  BY DEF Entries
<1>2. p \in DOMAIN res /\ Inserts(res[p].payloads, x, k) /\ x.call.ok \in BOOLEAN
  BY PayloadFields
<1>3. /\ I \subseteq PayloadType /\ x \in I /\ I \subseteq res[p].payloads \cup {x}
      /\ \A y \in res[p].payloads : y.call.op # x.call.op => y \in I
  BY <1>2, InsertMembers
<1>4. EntryOK(res[p], p, t)
  BY <1>1, <1>2 DEF EntriesOK
<1>5. /\ DOMAIN new = DOMAIN res /\ new[p] = [res[p] EXCEPT !.payloads = I]
      /\ \A q \in DOMAIN res : q # p => new[q] = res[q]
  BY <1>2
<1> HIDE DEF I
<1>6. new[p] \in HandleType /\ new[p].value = h /\ new[p].payloads = I
  BY <1>3, <1>4, <1>5 DEF EntryOK, HandleType
<1> HIDE DEF new
<1>7. EntriesOK(new, t + 1)
  <2> SUFFICES ASSUME NEW q \in DOMAIN new PROVE EntryOK(new[q], q, t + 1)
    BY DEF EntriesOK
  <2>1. CASE q = p
    BY <1>1, <1>2, <1>4, <1>5, <2>1, EntryInsert DEF I
  <2>2. CASE q # p
    <3>1. EntryOK(res[q], q, t) /\ new[q] = res[q]
      BY <1>1, <1>5, <2>2 DEF EntriesOK
    <3> QED BY <1>1, <3>1 DEF EntryOK
  <2> QED BY <2>1, <2>2
<1>8. /\ IsFiniteSet(DOMAIN g) /\ DOMAIN g \subseteq Nat \ {0}
      /\ \A i \in DOMAIN g : IsObject(g[i]) /\ \E q \in DOMAIN res : res[q].value = i
      /\ \A q \in DOMAIN res : res[q].value \in DOMAIN g
      /\ \A q, r \in DOMAIN res : res[q].value = res[r].value => q = r
  BY <1>1 DEF Backed
<1>9. real \in Nat
  <2>1. x.call.arg \in Nat
    BY PayloadFields
  <2>2. \A q \in DOMAIN res : res[q].value \in Nat
    BY <1>8
  <2> QED BY <2>1, <2>2 DEF Null
<1>10. IsObject(g[h]) /\ g[h].kind = k
  BY <1>1, <1>2, <1>8 DEF ConfiguredAs
<1>11. /\ IsObject(conf) /\ conf.kind = k
       /\ \A o \in Ops(k) :
            /\ o = x.call.op => conf.attrs[o] = real
            /\ o # x.call.op /\ o = "SetWorkspace" /\ x.call.op = "SetStream" =>
                 conf.attrs[o] = Null
            /\ o # x.call.op /\ ~(o = "SetWorkspace" /\ x.call.op = "SetStream") =>
                 conf.attrs[o] = g[h].attrs[o]
  BY <1>9, <1>10, ConfiguredFacts
<1>12. /\ DOMAIN g2 = DOMAIN g /\ h \in DOMAIN g
       /\ x.call.ok => g2[h] = conf
       /\ ~x.call.ok => g2[h] = g[h]
       /\ \A i \in DOMAIN g : i # h => g2[i] = g[i]
  BY <1>2, <1>8
<1> HIDE DEF conf, g2
<1>13. \A q \in DOMAIN res : new[q].value = res[q].value
  BY <1>5, <1>6
<1>14. Backed(new, g2)
  <2>1. \A i \in DOMAIN g2 : IsObject(g2[i])
    BY <1>8, <1>10, <1>11, <1>12
  <2>2. \A i \in DOMAIN g2 : \E q \in DOMAIN new : new[q].value = i
    BY <1>5, <1>8, <1>12, <1>13
  <2>3. /\ \A q \in DOMAIN new : new[q].value \in DOMAIN g2
        /\ \A q, r \in DOMAIN new : new[q].value = new[r].value => q = r
    BY <1>5, <1>8, <1>12, <1>13
  <2> QED BY <1>8, <1>12, <2>1, <2>2, <2>3 DEF Backed
<1>15. ASSUME NEW op, NEW r, NEW a, Stands(res, op, r, a) PROVE Stands(new, op, r, a)
  BY <1>5, <1>13, <1>15 DEF Stands
<1>16. ASSUME NEW q \in DOMAIN new PROVE ConfiguredAs(new, g2, w, q)
  <2>1. CASE q # p
    <3>1. /\ new[q] = res[q] /\ res[q].value \in DOMAIN g /\ res[q].value # h
          /\ g2[res[q].value] = g[res[q].value]
      BY <1>2, <1>5, <1>8, <1>12, <2>1
    <3>2. w[q].kind = v[q].kind /\ ConfiguredAs(res, g, v, q)
      BY <1>1, <1>5
    <3> QED BY <1>15, <3>1, <3>2 DEF ConfiguredAs
  <2>2. CASE q = p
    <3> DEFINE obj == g2[h]
    <3>1. /\ new[q].value = h /\ new[q].payloads = I /\ w[q].kind = k
          /\ obj.kind = k
      BY <1>2, <1>6, <1>10, <1>11, <1>12, <2>2
    <3>2. ASSUME NEW op \in Ops(k), Clean(I, op)
          PROVE  \E a \in Nat : Leaves(I, op, a) /\ Stands(new, op, obj.attrs[op], a)
      <4>1. CASE x.call.ok /\ op = x.call.op
        <5>1. obj.attrs[op] = real /\ x.call.arg \in Nat
          BY <1>11, <1>12, <4>1, PayloadFields
        <5>2. Leaves(I, op, x.call.arg)
          BY <1>2, <4>1, LeavesSet DEF I
        <5>3. Stands(res, op, real, x.call.arg)
          BY <4>1 DEF Stands
        <5> QED BY <1>15, <5>1, <5>2, <5>3
      <4>2. CASE x.call.ok /\ op = "SetWorkspace" /\ x.call.op = "SetStream"
        <5>1. obj.attrs[op] = Null
          BY <1>11, <1>12, <4>2
        <5>2. Leaves(I, op, Null)
          BY <1>2, <4>2, LeavesReset DEF I
        <5>3. Stands(new, op, Null, Null) /\ Null \in Nat
          BY <4>2 DEF Stands, Null
        <5> QED BY <5>1, <5>2, <5>3
      <4>3. CASE x.call.ok =>
                   x.call.op # op /\ ~(op = "SetWorkspace" /\ x.call.op = "SetStream")
        <5>1. /\ Clean(res[p].payloads, op)
              /\ \A a : Leaves(res[p].payloads, op, a) => Leaves(I, op, a)
          BY <1>2, <3>2, <4>3, LeavesKept DEF I
        <5>2. obj.attrs[op] = g[h].attrs[op]
          BY <1>2, <1>11, <1>12, <4>3
        <5>3. PICK a \in Nat : /\ Leaves(res[p].payloads, op, a)
                               /\ Stands(res, op, g[h].attrs[op], a)
          BY <1>1, <1>2, <5>1 DEF ConfiguredAs
        <5> QED BY <1>15, <5>1, <5>2, <5>3
      <4> QED BY <4>1, <4>2, <4>3
    <3> QED BY <3>1, <3>2 DEF ConfiguredAs
  <2> QED BY <2>1, <2>2
<1>17. Recorded(new) = (Recorded(res) \ Of(Recorded(res), p))
                          \cup PayloadsInsert(Of(Recorded(res), p), x)
  <2>1. Of(Recorded(res), p) = res[p].payloads
    BY <1>1, <1>2, RecordedOf
  <2>2. ASSUME NEW y
        PROVE  y \in Recorded(new) <=>
                 (y \in Recorded(res) /\ y \notin res[p].payloads) \/ y \in I
    <3>1. y \in Recorded(new) <=> \E q \in DOMAIN res : y \in new[q].payloads
      BY <1>5 DEF Recorded
    <3>2. y \in Recorded(res) <=> \E q \in DOMAIN res : y \in res[q].payloads
      BY DEF Recorded
    <3>3. \A q \in DOMAIN res : q # p => ~(y \in res[q].payloads /\ y \in res[p].payloads)
      BY <1>1, <1>2 DEF EntriesOK, EntryOK
    <3> QED BY <1>2, <1>5, <1>6, <3>1, <3>2, <3>3
  <2> QED BY <2>1, <2>2 DEF I
<1>18. Entries(new, t + 1, g2, w)
  BY <1>1, <1>7, <1>14, <1>16 DEF Entries
<1> QED BY <1>17, <1>18 DEF new, g2, conf, ModifiedIn, ModifiedGpu

(* A handle is destroyed.                                                  *)
LEMMA EntriesDestroy ==
  ASSUME NEW res, NEW t, NEW g, NEW v, Entries(res, t, g, v), NEW w,
         NEW p \in DOMAIN res,
         \A q \in DOMAIN res : q # p => w[q].kind = v[q].kind,
         \A x \in Recorded(res) : x.call.op = "SetStream" => x.call.arg # p
  PROVE  LET new == Without(res, p)
         IN  /\ Entries(new, t, Without(g, res[p].value), w)
             /\ Recorded(new) = Recorded(res) \ Of(Recorded(res), p)
<1> DEFINE h == res[p].value
           new == Without(res, p)
           g2 == Without(g, h)
<1>1. /\ t \in Nat \ {0} /\ EntriesOK(res, t) /\ Backed(res, g)
      /\ \A q \in DOMAIN res : ConfiguredAs(res, g, v, q)
  BY DEF Entries
<1>2. DOMAIN new = DOMAIN res \ {p} /\ \A q \in DOMAIN new : new[q] = res[q]
  BY DEF Without
<1>3. DOMAIN g2 = DOMAIN g \ {h} /\ \A i \in DOMAIN g2 : g2[i] = g[i]
  BY DEF Without
<1> HIDE DEF new, g2
<1>4. EntriesOK(new, t)
  BY <1>1, <1>2 DEF EntriesOK
<1>5. /\ IsFiniteSet(DOMAIN g) /\ DOMAIN g \subseteq Nat \ {0}
      /\ \A i \in DOMAIN g : IsObject(g[i]) /\ \E q \in DOMAIN res : res[q].value = i
      /\ \A q \in DOMAIN res : res[q].value \in DOMAIN g
      /\ \A q, r \in DOMAIN res : res[q].value = res[r].value => q = r
  BY <1>1 DEF Backed
<1>6. Backed(new, g2)
  <2>1. IsFiniteSet(DOMAIN g2)
    BY <1>3, <1>5, FS_RemoveElement
  <2>2. \A i \in DOMAIN g2 : IsObject(g2[i]) /\ \E q \in DOMAIN new : new[q].value = i
    BY <1>2, <1>3, <1>5
  <2>3. /\ \A q \in DOMAIN new : new[q].value \in DOMAIN g2
        /\ \A q, r \in DOMAIN new : new[q].value = new[r].value => q = r
    BY <1>2, <1>3, <1>5
  <2> QED BY <1>3, <1>5, <2>1, <2>2, <2>3 DEF Backed
<1>7. ASSUME NEW q \in DOMAIN new PROVE ConfiguredAs(new, g2, w, q)
  <2>1. /\ new[q] = res[q] /\ w[q].kind = v[q].kind /\ ConfiguredAs(res, g, v, q)
        /\ g2[res[q].value] = g[res[q].value] /\ q \in DOMAIN res
    BY <1>1, <1>2, <1>3, <1>5
  <2>2. \A y \in res[q].payloads : y.call.op = "SetStream" => y.call.arg # p
    BY <2>1 DEF Recorded
  <2>3. ASSUME NEW op, NEW r, NEW a, Stands(res, op, r, a), Leaves(res[q].payloads, op, a)
        PROVE  Stands(new, op, r, a)
    <3>1. CASE op # "SetStream" \/ a = Null
      BY <2>3, <3>1 DEF Stands
    <3>2. CASE op = "SetStream" /\ a # Null
      <4>1. \E y \in Sets(res[q].payloads, op) : a = y.call.arg
        BY <2>3, <3>2 DEF Leaves
      <4>2. a # p
        BY <2>2, <3>2, <4>1 DEF Sets
      <4> QED BY <1>2, <2>3, <3>2, <4>2 DEF Stands
    <3> QED BY <3>1, <3>2
  <2> QED BY <2>1, <2>3 DEF ConfiguredAs
<1>8. Recorded(new) = Recorded(res) \ Of(Recorded(res), p)
  <2>1. Of(Recorded(res), p) = res[p].payloads
    BY <1>1, RecordedOf
  <2>2. ASSUME NEW y
        PROVE  y \in Recorded(new) <=> y \in Recorded(res) /\ y \notin res[p].payloads
    <3>1. y \in Recorded(new) <=> \E q \in DOMAIN new : y \in res[q].payloads
      BY <1>2 DEF Recorded
    <3>2. y \in Recorded(res) <=> \E q \in DOMAIN res : y \in res[q].payloads
      BY DEF Recorded
    <3>3. \A q \in DOMAIN res : q # p => ~(y \in res[q].payloads /\ y \in res[p].payloads)
      BY <1>1 DEF EntriesOK, EntryOK
    <3> QED BY <1>2, <3>1, <3>2, <3>3
  <2> QED BY <2>1, <2>2
<1>9. Entries(new, t, g2, w)
  BY <1>1, <1>4, <1>6, <1>7 DEF Entries
<1> QED BY <1>8, <1>9 DEF new, g2

-----------------------------------------------------------------------------
(* What is held, and what is left to be replayed                           *)

(* Nothing is left to be replayed.                                         *)
LEMMA RestEmpty ==
  ASSUME NEW t
  PROVE  Rest(<<>>, t) = {}
<1>1. Len(<<>>) = 0
  OBVIOUS
<1> QED BY <1>1 DEF Rest

(* A replay takes the first of the calls that are left.                    *)
LEMMA RestTail ==
  ASSUME NEW lg \in Seq(CallType), lg # <<>>, NEW t \in Nat
  PROVE  LET x == [timestamp |-> t, key |-> OpKey(Head(lg).kind, Head(lg).op),
                   call |-> Head(lg)]
         IN  /\ Rest(lg, t) = Rest(Tail(lg), t + 1) \cup {x}
             /\ \A y \in Rest(lg, t) : y = x \/ t < y.timestamp
             /\ Head(lg) \in CallType /\ Tail(lg) \in Seq(CallType)
             /\ Len(Tail(lg)) = Len(lg) - 1
<1> DEFINE At(i) == [timestamp |-> t + i - 1, key |-> OpKey(lg[i].kind, lg[i].op),
                     call |-> lg[i]]
           tl == Tail(lg)
           Bt(i) == [timestamp |-> (t + 1) + i - 1, key |-> OpKey(tl[i].kind, tl[i].op),
                     call |-> tl[i]]
           x == [timestamp |-> t, key |-> OpKey(Head(lg).kind, Head(lg).op),
                 call |-> Head(lg)]
<1>1. /\ Len(lg) \in Nat \ {0} /\ Head(lg) = lg[1] /\ Head(lg) \in CallType
      /\ tl \in Seq(CallType) /\ Len(tl) = Len(lg) - 1
      /\ \A i \in 1..Len(tl) : tl[i] = lg[i + 1]
  OBVIOUS
<1>2. Rest(lg, t) = {At(i) : i \in 1..Len(lg)}
  BY DEF Rest
<1>3. Rest(tl, t + 1) = {Bt(i) : i \in 1..Len(tl)}
  BY DEF Rest
<1>4. At(1) = x
  <2>1. t + 1 - 1 = t
    OBVIOUS
  <2> QED BY <1>1, <2>1
<1>5. ASSUME NEW i \in 1..Len(tl) PROVE Bt(i) = At(i + 1)
  <2>1. tl[i] = lg[i + 1] /\ (t + 1) + i - 1 = t + (i + 1) - 1
    BY <1>1
  <2> QED BY <2>1
<1>6. \A i \in 1..Len(lg) : At(i).timestamp = t + i - 1
  OBVIOUS
<1> HIDE DEF At, Bt, x, tl
<1>7. \A i \in 1..Len(lg) : i = 1 \/ (i - 1 \in 1..Len(tl) /\ (i - 1) + 1 = i)
  BY <1>1
<1>8. \A i \in 1..Len(tl) : i + 1 \in 1..Len(lg)
  BY <1>1
<1>9. Rest(lg, t) \subseteq Rest(tl, t + 1) \cup {x}
  BY <1>2, <1>3, <1>4, <1>5, <1>7
<1>10. Rest(tl, t + 1) \cup {x} \subseteq Rest(lg, t)
  BY <1>1, <1>2, <1>3, <1>4, <1>5, <1>8
<1>11. \A y \in Rest(lg, t) : y = x \/ t < y.timestamp
  <2>1. ASSUME NEW i \in 1..Len(lg) PROVE At(i) = x \/ t < At(i).timestamp
    <3>1. CASE i = 1
      BY <1>4, <3>1
    <3>2. CASE i # 1
      BY <1>1, <1>6, <3>2
    <3> QED BY <3>1, <3>2
  <2> QED BY <1>2, <2>1
<1> QED BY <1>1, <1>9, <1>10, <1>11 DEF x, tl

(* With nothing left to be replayed, the entries are the client's handles. *)
LEMMA HeldAll ==
  ASSUME NEW res, NEW t, NEW g, NEW v, Held(res, t, g, <<>>, v)
  PROVE  /\ Entries(res, t, g, v) /\ Script(Recorded(res), v) /\ t <= MaxCalls + 1
         /\ DOMAIN res = DOMAIN v
<1>1. Entries(res, t, g, v)
  BY DEF Held, Entries
<1>2. Script(Recorded(res), v)
  <2>1. Recorded(res) \cup {} = Recorded(res)
    OBVIOUS
  <2> QED BY <2>1, RestEmpty DEF Held
<1>3. t <= MaxCalls + 1
  <2>1. t \in Nat /\ t + Len(<<>>) <= MaxCalls + 1 /\ Len(<<>>) = 0
    BY DEF Held
  <2> QED BY <2>1
<1>4. EntriesOK(res, t)
  BY DEF Held
<1>5. ASSUME NEW p \in DOMAIN v PROVE p \in DOMAIN res
  <2>1. PICK x \in Recorded(res) : x.call.proxy = p
    BY <1>2, ScriptFacts
  <2> QED BY <1>4, <2>1, RecordedOf
<1>6. ASSUME NEW p \in DOMAIN res PROVE p \in DOMAIN v
  <2>1. PICK x \in res[p].payloads : x.call.proxy = p
    BY <1>4 DEF EntriesOK, EntryOK
  <2>2. x \in Recorded(res)
    BY <2>1 DEF Recorded
  <2> QED BY <1>2, <2>1, <2>2, ScriptFacts DEF CallOn
<1> QED BY <1>1, <1>2, <1>3, <1>5, <1>6

(* And the other way round.                                                *)
LEMMA AllHeld ==
  ASSUME NEW res, NEW t, NEW g, NEW v, Entries(res, t, g, v),
         Script(Recorded(res), v), t <= MaxCalls + 1
  PROVE  Held(res, t, g, <<>>, v)
<1>1. Recorded(res) \cup Rest(<<>>, t) = Recorded(res)
  BY RestEmpty
<1>2. Len(<<>>) = 0 /\ <<>> \in Seq(CallType)
  OBVIOUS
<1>3. t \in Nat \ {0} /\ t + Len(<<>>) <= MaxCalls + 1
  BY <1>2 DEF Entries
<1> QED BY <1>1, <1>2, <1>3 DEF Held, Entries

(* A manager without entries, in front of the calls of an image.           *)
LEMMA HeldNone ==
  ASSUME NEW lg \in Seq(CallType), NEW v, NEW t \in Nat \ {0}, NEW res, NEW g,
         t + Len(lg) <= MaxCalls + 1, Script(Rest(lg, t), v),
         DOMAIN res = {}, DOMAIN g = {}
  PROVE  Held(res, t, g, lg, v)
<1>1. Recorded(res) = {}
  BY DEF Recorded
<1>2. Recorded(res) \cup Rest(lg, t) = Rest(lg, t)
  BY <1>1
<1>3. EntriesOK(res, t) /\ Backed(res, g)
  BY FS_EmptySet DEF EntriesOK, Backed
<1> QED BY <1>2, <1>3 DEF Held

(* Nothing at all.                                                         *)
LEMMA ScriptNone ==
  ASSUME NEW v, DOMAIN v = {}
  PROVE  Script({}, v)
BY DEF Script, Ordered

(* The first call to be replayed names handles that are there.  Creating   *)
(* calls name one that is not.                                             *)
LEMMA HeldReplayable ==
  ASSUME NEW res, NEW t, NEW g, NEW lg, NEW v, Held(res, t, g, lg, v), lg # <<>>
  PROVE  LET c == Head(lg)
         IN  /\ c.op = "create" => c.proxy \notin DOMAIN res
             /\ c.op # "create" => c.proxy \in DOMAIN res
             /\ c.op = "SetStream" => c.arg \in {Null} \cup DOMAIN res
<1> DEFINE c == Head(lg)
           x == [timestamp |-> t, key |-> OpKey(c.kind, c.op), call |-> c]
           P == Recorded(res) \cup Rest(lg, t)
<1>1. t \in Nat \ {0} /\ lg \in Seq(CallType) /\ EntriesOK(res, t) /\ Script(P, v)
  BY DEF Held
<1>2. x \in Rest(lg, t) /\ \A y \in Rest(lg, t) : y = x \/ t < y.timestamp
  BY <1>1, RestTail
<1>3. x.timestamp = t /\ x.call = c
  OBVIOUS
<1> HIDE DEF x
<1>4. x \in P
  BY <1>2
<1>5. ASSUME NEW y \in P, y.timestamp < t
      PROVE  y.call.proxy \in DOMAIN res
  <2>1. y \in Recorded(res)
    <3>1. y.timestamp \in Nat
      BY <1>1, ScriptFacts, PayloadFields
    <3>2. ~(t < y.timestamp) /\ y # x
      BY <1>1, <1>3, <1>5, <3>1
    <3> QED BY <1>2, <1>5, <3>2
  <2> QED BY <1>1, <2>1, RecordedOf
<1>6. PICK z \in P : z.call.proxy = c.proxy /\ Creates(P, z)
  <2>1. c.proxy \in DOMAIN v
    BY <1>1, <1>3, <1>4, ScriptFacts DEF CallOn
  <2> QED BY <1>1, <2>1, ScriptFacts
<1>7. c.op = "create" => c.proxy \notin DOMAIN res
  <2> SUFFICES ASSUME c.op = "create", c.proxy \in DOMAIN res PROVE FALSE
    OBVIOUS
  <2>1. PICK y \in res[c.proxy].payloads : y.call.op = "create"
    BY <1>1 DEF EntriesOK, EntryOK
  <2>2. y.call.proxy = c.proxy /\ y.timestamp \in 1..(t - 1)
    BY <1>1, <2>1 DEF EntriesOK, EntryOK
  <2>3. y \in P /\ y # x
    BY <1>1, <1>3, <2>1, <2>2 DEF Recorded
  <2>4. y \in Of(P, z.call.proxy) /\ x \in Of(P, z.call.proxy)
    BY <1>3, <1>4, <1>6, <2>2, <2>3 DEF Of
  <2> QED BY <1>3, <1>6, <2>1, <2>3, <2>4 DEF Creates
<1>8. c.op # "create" => c.proxy \in DOMAIN res
  <2> SUFFICES ASSUME c.op # "create" PROVE c.proxy \in DOMAIN res
    OBVIOUS
  <2>1. x \in Of(P, z.call.proxy) /\ x # z
    BY <1>3, <1>4, <1>6 DEF Of, Creates
  <2>2. z.timestamp < t
    BY <1>3, <1>6, <2>1 DEF Creates
  <2> QED BY <1>5, <1>6, <2>2
<1>9. c.op = "SetStream" => c.arg \in {Null} \cup DOMAIN res
  <2> SUFFICES ASSUME c.op = "SetStream", c.arg # Null PROVE c.arg \in DOMAIN res
    OBVIOUS
  <2>1. StreamBefore(P, v, x)
    BY <1>1, <1>4, ScriptFacts
  <2>2. PICK y \in P : y.call.proxy = c.arg /\ y.timestamp < t
    BY <1>3, <2>1 DEF StreamBefore
  <2> QED BY <1>5, <2>2
<1> QED BY <1>7, <1>8, <1>9

-----------------------------------------------------------------------------
(* The actions                                                             *)

(* A step of the client makes at most one handle, n, and changes no kind.  *)
ViewStep(w, n, w2, n2) ==
  /\ n \in Nat /\ n2 \in 1..(MaxProxy + 1) /\ n <= n2
  /\ \A p \in DOMAIN w2 : (p \in DOMAIN w /\ w2[p].kind = w[p].kind) \/ p = n

(* What the client had before such a step is still of the same kinds.      *)
LEMMA MadeStill ==
  ASSUME NEW v, NEW w, NEW n, NEW w2, NEW n2, MadeBy(v, w, n), ViewStep(w, n, w2, n2)
  PROVE  MadeBy(v, w2, n2)
<1>1. /\ n \in Nat /\ n2 \in 1..(MaxProxy + 1) /\ n <= n2 /\ MaxProxy \in Nat
      /\ \A p \in DOMAIN w2 : (p \in DOMAIN w /\ w2[p].kind = w[p].kind) \/ p = n
  BY HandleAssumption DEF ViewStep
<1>2. /\ \A p \in DOMAIN v : p \in 1..(n - 1) /\ IsObject(v[p])
      /\ \A p \in DOMAIN v : p \in DOMAIN w => v[p].kind = w[p].kind
  BY DEF MadeBy, ViewOK
<1>3. \A p \in DOMAIN v : p \in 1..(n2 - 1) /\ p # n
  BY <1>1, <1>2
<1>4. \A p \in DOMAIN v : p \in DOMAIN w2 => v[p].kind = w2[p].kind
  BY <1>1, <1>2, <1>3
<1> QED BY <1>1, <1>2, <1>3, <1>4 DEF MadeBy, ViewOK

LEMMA KeptStill ==
  ASSUME NEW K, NEW w, NEW n, NEW w2, NEW n2, KeptOK(K, w, n), ViewStep(w, n, w2, n2)
  PROVE  KeptOK(K, w2, n2)
<1> SUFFICES ASSUME NEW k \in K
             PROVE  HeldFor(k.handles, k.clock, k.gpu, <<>>, w2, n2, k.outdated, k.view)
  BY DEF KeptOK
<1>1. PICK v : /\ Held(k.handles, k.clock, k.gpu, <<>>, v) /\ MadeBy(v, w, n)
               /\ ~k.outdated => v = k.view
  BY DEF KeptOK, HeldFor
<1>2. MadeBy(v, w2, n2)
  BY <1>1, MadeStill
<1> QED BY <1>1, <1>2 DEF HeldFor

(* What the invariant says of a thread that serves or replays.             *)
LEMMA ServingFacts ==
  ASSUME HandleInv, phase = "serving", NEW v, Shows(v)
  PROVE  /\ Held(resources, clock, gpu, <<>>, v) /\ log = <<>>
         /\ Entries(resources, clock, gpu, v) /\ Script(Recorded(resources), v)
         /\ DOMAIN resources = DOMAIN v /\ clock \in 1..(MaxCalls + 1)
         /\ EntriesOK(resources, clock) /\ Backed(resources, gpu)
<1>1. Held(resources, clock, gpu, <<>>, v) /\ log = <<>>
  BY DEF HandleInv, Shows
<1>2. /\ Entries(resources, clock, gpu, v) /\ Script(Recorded(resources), v)
      /\ DOMAIN resources = DOMAIN v /\ clock <= MaxCalls + 1
  BY <1>1, HeldAll
<1>3. /\ EntriesOK(resources, clock) /\ Backed(resources, gpu)
      /\ clock \in Nat \ {0}
  BY <1>2 DEF Entries
<1>4. MaxCalls \in Nat
  BY HandleAssumption
<1> QED BY <1>1, <1>2, <1>3, <1>4

(* What a thread shows after a step, if it has the handles w then.         *)
LEMMA ShowsThen ==
  ASSUME NEW w, Held(resources', clock', gpu', log', w), MadeBy(w, view', nextProxy'),
         ~outdated' => w = view'
  PROVE  (\E v : Shows(v))'
BY DEF Shows

(* After a step that goes on serving.                                      *)
LEMMA StillServing ==
  ASSUME phase' = "serving", log' = <<>>, ImageOK(image'),
         outdated' \in BOOLEAN, standby' \in BOOLEAN,
         KeptOK(kept', view', nextProxy'), ViewOK(view', nextProxy'),
         NEW w, Held(resources', clock', gpu', <<>>, w), MadeBy(w, view', nextProxy'),
         ~outdated' => w = view'
  PROVE  HandleInv'
<1>1. (\E v : Shows(v))'
  BY ShowsThen
<1> QED BY <1>1 DEF HandleInv

(* What is recorded about a call is a payload.                             *)
LEMMA PayloadOf ==
  ASSUME NEW c \in CallType, clock \in Nat, c.op \in Ops(c.kind) \cup {"create"}
  PROVE  /\ Payload(c) \in PayloadType /\ Payload(c).timestamp = clock
         /\ Payload(c).call = c /\ Payload(c).key = OpKey(c.kind, c.op)
<1>1. c.kind \in Kinds /\ c.op \in {"create", "SetStream", "SetWorkspace", "Set"}
  BY DEF CallType
<1>2. OpKey(c.kind, c.op) \in Keys
  <2>1. CASE c.kind = "blas"
    BY <2>1 DEF OpKey, Keys, Ops
  <2>2. CASE c.kind # "blas"
    BY <2>2 DEF OpKey, Keys
  <2> QED BY <2>1, <2>2
<1> QED BY <1>2 DEF Payload, PayloadType

(* The client creates a handle.                                            *)
LEMMA CreateKeeps ==
  ASSUME HandleInv, NEW k \in Kinds, Create(k)
  PROVE  HandleInv'
<1> DEFINE c == Call("create", k, nextProxy, Null, TRUE)
           x == Payload(c)
<1>1. /\ phase = "serving" /\ nextProxy <= MaxProxy /\ clock <= MaxCalls
      /\ resources' = With(resources, c.proxy,
           [value |-> FreshHandle, payloads |-> {Payload(c)}])
      /\ gpu' = With(gpu, FreshHandle, NewObject(c.kind))
      /\ clock' = clock + 1 /\ nextProxy' = nextProxy + 1
      /\ view' = With(view, nextProxy, NewObject(k))
      /\ phase' = phase /\ log' = log /\ image' = image
      /\ kept' = kept /\ outdated' = outdated /\ standby' = standby
  BY DEF Create, ExeCreate, MayCall
<1>v. PICK v : Shows(v)
  BY <1>1 DEF HandleInv
<1>w. PICK w : w = With(v, nextProxy, NewObject(k))
  OBVIOUS
<1>m. ViewOK(v, nextProxy) /\ MadeBy(v, view, nextProxy) /\ (~outdated => v = view)
  BY <1>v DEF Shows, MadeBy
<1>2. /\ log = <<>> /\ Entries(resources, clock, gpu, v)
      /\ Script(Recorded(resources), v)
      /\ DOMAIN resources = DOMAIN v /\ clock \in 1..(MaxCalls + 1)
      /\ EntriesOK(resources, clock) /\ Backed(resources, gpu)
  BY <1>1, <1>v, ServingFacts
<1>3. /\ ViewOK(view, nextProxy) /\ ImageOK(image) /\ KeptOK(kept, view, nextProxy)
      /\ outdated \in BOOLEAN /\ standby \in BOOLEAN
      /\ MaxCalls \in Nat /\ MaxProxy \in Nat
  BY HandleAssumption DEF HandleInv
<1>4. /\ nextProxy \in 1..MaxProxy /\ nextProxy \notin DOMAIN view
      /\ nextProxy \notin DOMAIN v
  BY <1>1, <1>3, <1>m DEF ViewOK
<1>5. /\ c \in CallType /\ c.op = "create" /\ c.kind = k /\ c.proxy = nextProxy
  BY <1>4 DEF Call, CallType, Null
<1>6. clock \in Nat
  BY <1>2, <1>3
<1> HIDE DEF c
<1>7. /\ x \in PayloadType /\ x.timestamp = clock /\ x.call = c
      /\ x.key = OpKey(k, "create")
  BY <1>5, <1>6, PayloadOf
<1> HIDE DEF x
<1>8. IsFiniteSet(DOMAIN gpu) /\ DOMAIN gpu \subseteq Nat \ {0}
  BY <1>2 DEF Backed
<1>9. FreshHandle \in Nat \ {0} /\ FreshHandle \notin DOMAIN gpu
  BY <1>8, FreshFacts
<1>10. /\ DOMAIN view' = DOMAIN view \cup {nextProxy} /\ view'[nextProxy] = NewObject(k)
       /\ \A q \in DOMAIN view : view'[q] = view[q]
       /\ DOMAIN w = DOMAIN v \cup {nextProxy} /\ w[nextProxy] = NewObject(k)
       /\ \A q \in DOMAIN v : w[q] = v[q]
  BY <1>1, <1>4, <1>w DEF With
<1>11. IsObject(NewObject(k)) /\ NewObject(k).kind = k
  BY NewObjectFacts
<1>12. ViewOK(view', nextProxy') /\ ViewOK(w, nextProxy')
  <2>1. nextProxy' \in 1..(MaxProxy + 1)
    BY <1>1, <1>3, <1>4
  <2>2. ASSUME NEW q \in DOMAIN view' PROVE q \in 1..(nextProxy' - 1) /\ IsObject(view'[q])
    <3>1. CASE q = nextProxy
      BY <1>1, <1>4, <1>10, <1>11, <3>1
    <3>2. CASE q \in DOMAIN view
      BY <1>1, <1>3, <1>4, <1>10, <3>2 DEF ViewOK
    <3> QED BY <1>10, <3>1, <3>2
  <2>3. ASSUME NEW q \in DOMAIN w PROVE q \in 1..(nextProxy' - 1) /\ IsObject(w[q])
    <3>1. CASE q = nextProxy
      BY <1>1, <1>4, <1>10, <1>11, <3>1
    <3>2. CASE q \in DOMAIN v
      BY <1>1, <1>m, <1>4, <1>10, <3>2 DEF ViewOK
    <3> QED BY <1>10, <3>1, <3>2
  <2> QED BY <2>1, <2>2, <2>3 DEF ViewOK
<1>13. /\ Entries(resources', clock', gpu', w)
       /\ Recorded(resources') = Recorded(resources) \cup {x}
  <2>1. /\ x.call.op = "create" /\ x.call.proxy = nextProxy /\ x.call.kind = k
    BY <1>5, <1>7
  <2>2. /\ x.call.proxy \notin DOMAIN resources /\ w[x.call.proxy].kind = x.call.kind
        /\ \A q \in DOMAIN resources : w[q].kind = v[q].kind
    BY <1>2, <1>4, <1>10, <1>11, <2>1
  <2> DEFINE h == FreshHandle
             new == With(resources, x.call.proxy, [value |-> h, payloads |-> {x}])
             g2 == With(gpu, h, NewObject(x.call.kind))
  <2>3. h \in Nat \ {0} /\ h \notin DOMAIN gpu
    BY <1>9
  <2>4. resources' = new /\ gpu' = g2
    BY <1>1, <1>5, <1>7, <2>1 DEF x
  <2> HIDE DEF h
  <2>5. Creation(resources, clock, gpu, v, w, x, h)
    BY <1>7, <2>1, <2>2, <2>3 DEF Creation
  <2>6. /\ Entries(new, clock + 1, g2, w) /\ Recorded(new) = Recorded(resources) \cup {x}
    BY <1>2, <2>5, EntriesCreate
  <2> QED BY <1>1, <2>4, <2>6
<1>14. Script(Recorded(resources'), w)
  <2>1. \A y \in Recorded(resources) : y.timestamp < x.timestamp
    BY <1>2, <1>6, <1>7, RecordedOf
  <2>2. Script(Recorded(resources) \cup {x}, With(v, x.call.proxy, NewObject(x.call.kind)))
    BY <1>2, <1>4, <1>5, <1>7, <2>1, ScriptCreate
  <2> QED BY <1>w, <1>5, <1>7, <1>13, <2>2
<1>15. clock' <= MaxCalls + 1
  BY <1>1, <1>3, <1>6
<1>16. Held(resources', clock', gpu', <<>>, w)
  BY <1>13, <1>14, <1>15, AllHeld
<1>17. MadeBy(w, view', nextProxy') /\ (~outdated' => w = view')
  <2>1. \A q \in DOMAIN v : q \in DOMAIN view => v[q].kind = view[q].kind
    BY <1>m DEF MadeBy
  <2>2. \A q \in DOMAIN w : q \in DOMAIN view' => w[q].kind = view'[q].kind
    BY <1>4, <1>10, <2>1
  <2> QED BY <1>1, <1>w, <1>m, <1>12, <2>2 DEF MadeBy
<1>18. KeptOK(kept', view', nextProxy')
  <2>1. ViewStep(view, nextProxy, view', nextProxy')
    BY <1>1, <1>3, <1>4, <1>10, <1>12 DEF ViewStep, ViewOK
  <2> QED BY <1>1, <1>3, <2>1, KeptStill
<1> QED BY <1>1, <1>2, <1>3, <1>12, <1>16, <1>17, <1>18, StillServing

(* What get returns for a known proxy.                                     *)
LEMMA RealHandles ==
  ASSUME NEW p \in DOMAIN resources, p # Null
  PROVE  RealHandle(p) = resources[p].value
BY DEF RealHandle

(* The client configures a handle.                                         *)
LEMMA ModifyKeeps ==
  ASSUME HandleInv, NEW p \in DOMAIN view, NEW op \in Ops(view[p].kind),
         NEW arg \in ArgsOf(op), NEW ok \in BOOLEAN, Modify(p, op, arg, ok)
  PROVE  HandleInv'
<1> DEFINE k == view[p].kind
           c == Call(op, k, p, arg, ok)
           x == Payload(c)
           real == IF c.op = "SetStream" THEN RealHandle(c.arg) ELSE c.arg
<1>1. /\ phase = "serving" /\ clock <= MaxCalls
      /\ resources' = [resources EXCEPT ![c.proxy].payloads = PayloadsInsert(@, Payload(c))]
      /\ gpu' = IF c.ok THEN [gpu EXCEPT ![RealHandle(c.proxy)] =
                                Configured(@, c.op, real)]
                        ELSE gpu
      /\ clock' = clock + 1 /\ nextProxy' = nextProxy
      /\ view' = IF ok THEN [view EXCEPT ![p] = Configured(@, op, arg)] ELSE view
      /\ phase' = phase /\ log' = log /\ image' = image
      /\ kept' = kept /\ outdated' = outdated /\ standby' = standby
      /\ Executable(c)
  BY DEF Modify, ExeModify, MayCall
<1>v. PICK v : Shows(v)
  BY <1>1 DEF HandleInv
<1>w. PICK w : w = IF ok THEN [v EXCEPT ![p] = Configured(@, op, arg)] ELSE v
  OBVIOUS
<1>m. /\ ViewOK(v, nextProxy) /\ MadeBy(v, view, nextProxy) /\ (~outdated => v = view)
      /\ \A q \in DOMAIN v : q \in DOMAIN view => v[q].kind = view[q].kind
  BY <1>v DEF Shows, MadeBy
<1>2. /\ log = <<>> /\ Entries(resources, clock, gpu, v)
      /\ Script(Recorded(resources), v)
      /\ DOMAIN resources = DOMAIN v /\ clock \in 1..(MaxCalls + 1)
      /\ EntriesOK(resources, clock) /\ Backed(resources, gpu)
  BY <1>1, <1>v, ServingFacts
<1>3. /\ ViewOK(view, nextProxy) /\ ImageOK(image) /\ KeptOK(kept, view, nextProxy)
      /\ outdated \in BOOLEAN /\ standby \in BOOLEAN
      /\ MaxCalls \in Nat /\ MaxProxy \in Nat
  BY HandleAssumption DEF HandleInv
<1>4. /\ nextProxy \in 1..(MaxProxy + 1) /\ p \in 1..(nextProxy - 1) /\ p \in 1..MaxProxy
      /\ p # Null /\ IsObject(view[p]) /\ \A q \in DOMAIN view : IsObject(view[q])
      /\ \A q \in DOMAIN view : q \in 1..(nextProxy - 1) /\ q \in Nat
      /\ \A q \in DOMAIN v : q \in 1..(nextProxy - 1) /\ IsObject(v[q])
  BY <1>3, <1>m DEF ViewOK, Null
<1>5. k \in Kinds /\ op \in {"SetStream", "SetWorkspace", "Set"} /\ op # "create"
  BY <1>4, OpNames DEF IsObject
<1>6. /\ arg \in Nat
      /\ op = "SetStream" /\ arg # Null => arg \in DOMAIN view /\ view[arg].kind = "stream"
  <2>1. CASE op = "SetStream"
    BY <1>4, <2>1 DEF ArgsOf, Null
  <2>2. CASE op # "SetStream"
    BY <2>2, HandleAssumption DEF ArgsOf
  <2> QED BY <2>1, <2>2
<1>7. /\ c \in CallType /\ c.op = op /\ c.kind = k /\ c.proxy = p /\ c.arg = arg
      /\ c.ok = ok
  BY <1>4, <1>5, <1>6 DEF Call, CallType
<1>e. /\ p \in DOMAIN v /\ v[p].kind = k
      /\ op = "SetStream" /\ arg # Null => arg \in DOMAIN v /\ v[arg].kind = "stream"
  <2>1. p \in DOMAIN v
    BY <1>1, <1>2, <1>4, <1>5, <1>7 DEF Executable, KnownHandle
  <2>2. op = "SetStream" /\ arg # Null => arg \in DOMAIN v
    BY <1>1, <1>2, <1>5, <1>7 DEF Executable, KnownHandle
  <2> QED BY <1>6, <1>m, <2>1, <2>2
<1>8. clock \in Nat \ {0}
  BY <1>2, <1>3
<1> HIDE DEF c, k
<1>9. x \in PayloadType /\ x.timestamp = clock /\ x.call = c /\ x.key = OpKey(k, op)
  BY <1>7, <1>8, PayloadOf DEF k
<1> HIDE DEF x
<1>10. CallOn(v, x)
  BY <1>7, <1>9, <1>e DEF CallOn, k
<1>11. \A y \in Recorded(resources) : y.timestamp < x.timestamp
  BY <1>2, <1>8, <1>9, RecordedOf
<1>12. Inserts(resources[p].payloads, x, k)
  <2>1. resources[p].payloads = Of(Recorded(resources), p)
    BY <1>2, <1>e, RecordedOf
  <2>2. \A y \in resources[p].payloads : y \in Recorded(resources) /\ y.call.proxy = p
    BY <2>1 DEF Of
  <2>3. \A y \in resources[p].payloads : y \in PayloadType /\ y.key = OpKey(k, y.call.op)
    BY <1>2, <1>e, <2>2, ScriptFacts DEF CallOn
  <2>4. x.call.op \in Ops(k) /\ x.key = OpKey(k, x.call.op)
    BY <1>7, <1>9 DEF k
  <2> QED BY <1>5, <1>9, <1>11, <2>2, <2>3, <2>4 DEF Inserts
<1>13. /\ DOMAIN view' = DOMAIN view /\ DOMAIN w = DOMAIN v
       /\ \A q \in DOMAIN view : IsObject(view'[q]) /\ view'[q].kind = view[q].kind
       /\ \A q \in DOMAIN v : IsObject(w[q]) /\ w[q].kind = v[q].kind
  <2> DEFINE new == Configured(view[p], op, arg)
             mine == Configured(v[p], op, arg)
  <2>1. /\ IsObject(new) /\ new.kind = view[p].kind
        /\ IsObject(mine) /\ mine.kind = v[p].kind
    BY <1>4, <1>6, <1>e, ConfiguredFacts
  <2> HIDE DEF new, mine
  <2>2. /\ view' = IF ok THEN [view EXCEPT ![p] = new] ELSE view
        /\ w = IF ok THEN [v EXCEPT ![p] = mine] ELSE v
    BY <1>1, <1>w DEF new, mine
  <2>3. /\ DOMAIN view' = DOMAIN view
        /\ \A q \in DOMAIN view : IsObject(view'[q]) /\ view'[q].kind = view[q].kind
    BY <1>4, <2>1, <2>2
  <2>4. /\ DOMAIN w = DOMAIN v
        /\ \A q \in DOMAIN v : IsObject(w[q]) /\ w[q].kind = v[q].kind
    BY <1>4, <2>1, <2>2
  <2> QED BY <2>3, <2>4
<1>14. ViewOK(view', nextProxy') /\ ViewOK(w, nextProxy')
  BY <1>1, <1>3, <1>4, <1>13 DEF ViewOK
<1>15. /\ real = IF op = "SetStream" THEN IF arg = Null THEN Null ELSE resources[arg].value
                                     ELSE arg
       /\ RealHandle(c.proxy) = resources[p].value
  BY <1>2, <1>4, <1>6, <1>7, <1>e, RealHandles DEF RealHandle
<1> HIDE DEF real
<1>16. /\ Entries(resources', clock', gpu', w)
       /\ Recorded(resources') = (Recorded(resources) \ Of(Recorded(resources), p))
            \cup PayloadsInsert(Of(Recorded(resources), p), x)
  <2>1. x.call.op = op /\ x.call.proxy = p /\ x.call.ok = ok /\ x.call.arg = arg
    BY <1>7, <1>9
  <2>2. /\ x.call.proxy \in DOMAIN resources
        /\ x.call.op = "SetStream" => x.call.arg \in {Null} \cup DOMAIN resources
        /\ \A q \in DOMAIN resources : w[q].kind = v[q].kind
    BY <1>2, <1>e, <1>13, <2>1
  <2>3. real = IF x.call.op # "SetStream" \/ x.call.arg = Null THEN x.call.arg
               ELSE resources[x.call.arg].value
    BY <1>15, <2>1
  <2>4. Inserts(resources[x.call.proxy].payloads, x, v[x.call.proxy].kind)
    BY <1>12, <1>e, <2>1
  <2>5. /\ resources' = ModifiedIn(resources, x)
        /\ gpu' = ModifiedGpu(gpu, resources, x, real)
    BY <1>1, <1>7, <1>9, <1>15, <2>1 DEF x, ModifiedIn, ModifiedGpu
  <2>6. Modification(resources, clock, v, w, x, real)
    BY <1>9, <2>2, <2>3, <2>4 DEF Modification
  <2>7. clock' = clock + 1
    BY <1>1
  <2>8. Entries(resources, clock, gpu, v)
    BY <1>2
  <2>9. /\ Entries(ModifiedIn(resources, x), clock + 1,
                    ModifiedGpu(gpu, resources, x, real), w)
         /\ Recorded(ModifiedIn(resources, x)) =
              (Recorded(resources) \ Of(Recorded(resources), x.call.proxy))
                \cup PayloadsInsert(Of(Recorded(resources), x.call.proxy), x)
    BY ONLY <2>6, <2>8, EntriesModify
  <2> QED BY <2>1, <2>5, <2>7, <2>9
<1>17. Script(Recorded(resources'), w)
  <2>1. /\ x.call.op = op /\ x.call.proxy = p /\ x.call.ok = ok /\ x.call.arg = arg
    BY <1>7, <1>9
  <2>2. Script((Recorded(resources) \ Of(Recorded(resources), p))
                 \cup PayloadsInsert(Of(Recorded(resources), p), x),
               IF ok THEN [v EXCEPT ![p] = Configured(@, op, arg)] ELSE v)
    BY <1>2, <1>4, <1>5, <1>6, <1>9, <1>10, <1>11, <1>e, <2>1, ScriptModify DEF k
  <2> QED BY <1>w, <1>16, <2>2
<1>18. clock' <= MaxCalls + 1
  BY <1>1, <1>3, <1>8
<1>19. Held(resources', clock', gpu', <<>>, w)
  BY <1>16, <1>17, <1>18, AllHeld
<1>20. MadeBy(w, view', nextProxy') /\ (~outdated' => w = view')
  BY <1>1, <1>w, <1>m, <1>13, <1>14 DEF MadeBy
<1>21. KeptOK(kept', view', nextProxy')
  <2>1. ViewStep(view, nextProxy, view', nextProxy')
    BY <1>1, <1>3, <1>4, <1>13 DEF ViewStep
  <2> QED BY <1>1, <1>3, <2>1, KeptStill
<1> QED BY <1>1, <1>2, <1>3, <1>14, <1>19, <1>20, <1>21, StillServing

(* The client destroys a handle, which is no stream.                       *)
LEMMA DestroyKeeps ==
  ASSUME HandleInv, NEW p \in DOMAIN view, Destroy(p)
  PROVE  HandleInv'
<1>1. /\ phase = "serving" /\ view[p].kind # "stream" /\ KnownHandle(p)
      /\ gpu' = Without(gpu, RealHandle(p)) /\ resources' = Without(resources, p)
      /\ view' = Without(view, p) /\ nextProxy' = nextProxy /\ clock' = clock
      /\ phase' = phase /\ log' = log /\ image' = image
      /\ kept' = kept /\ outdated' = outdated /\ standby' = standby
  BY DEF Destroy
<1>v. PICK v : Shows(v)
  BY <1>1 DEF HandleInv
<1>w. PICK w : w = Without(v, p)
  OBVIOUS
<1>m. /\ ViewOK(v, nextProxy) /\ (~outdated => v = view)
      /\ \A q \in DOMAIN v : q \in DOMAIN view => v[q].kind = view[q].kind
  BY <1>v DEF Shows, MadeBy
<1>2. /\ log = <<>> /\ Entries(resources, clock, gpu, v)
      /\ Script(Recorded(resources), v)
      /\ DOMAIN resources = DOMAIN v /\ clock \in 1..(MaxCalls + 1)
  BY <1>1, <1>v, ServingFacts
<1>3. /\ ViewOK(view, nextProxy) /\ ImageOK(image) /\ KeptOK(kept, view, nextProxy)
      /\ outdated \in BOOLEAN /\ standby \in BOOLEAN /\ MaxProxy \in Nat
  BY HandleAssumption DEF HandleInv
<1>4. p # Null /\ p \in DOMAIN v /\ v[p].kind # "stream"
  BY <1>1, <1>2, <1>3, <1>m DEF ViewOK, Null, KnownHandle
<1>5. RealHandle(p) = resources[p].value
  BY <1>2, <1>4, RealHandles
<1>6. /\ DOMAIN view' = DOMAIN view \ {p} /\ \A q \in DOMAIN view' : view'[q] = view[q]
      /\ DOMAIN w = DOMAIN v \ {p} /\ \A q \in DOMAIN w : w[q] = v[q]
  BY <1>1, <1>w DEF Without
<1>7. ViewOK(view', nextProxy') /\ ViewOK(w, nextProxy')
  BY <1>1, <1>3, <1>m, <1>6 DEF ViewOK
<1>8. \A x \in Recorded(resources) : x.call.op = "SetStream" => x.call.arg # p
  BY <1>2, <1>4, ScriptFacts DEF StreamBefore
<1>9. /\ Entries(resources', clock', gpu', w)
      /\ Recorded(resources') = Recorded(resources) \ Of(Recorded(resources), p)
  BY <1>1, <1>2, <1>4, <1>5, <1>6, <1>8, EntriesDestroy
<1>10. Script(Recorded(resources'), w)
  BY <1>2, <1>4, <1>w, <1>9, ScriptDestroy
<1>11. clock' <= MaxCalls + 1
  BY <1>1, <1>2, HandleAssumption
<1>12. Held(resources', clock', gpu', <<>>, w)
  BY <1>9, <1>10, <1>11, AllHeld
<1>13. MadeBy(w, view', nextProxy') /\ (~outdated' => w = view')
  BY <1>1, <1>w, <1>m, <1>6, <1>7 DEF MadeBy
<1>14. KeptOK(kept', view', nextProxy')
  <2>1. ViewStep(view, nextProxy, view', nextProxy')
    BY <1>1, <1>3, <1>6 DEF ViewStep, ViewOK
  <2> QED BY <1>1, <1>3, <2>1, KeptStill
<1> QED BY <1>1, <1>2, <1>3, <1>7, <1>12, <1>13, <1>14, StillServing

(* A call that is replayed replaces nothing: an image has one call per key *)
(* of a handle.                                                            *)
LEMMA InsertNew ==
  ASSUME NEW P, Ordered(P), NEW R, R \subseteq P, NEW x \in P, x \notin R,
         \A y \in R : y.call.proxy = x.call.proxy
  PROVE  PayloadsInsert(R, x) = R \cup {x}
<1>1. CASE x.key = Unkeyed
  BY <1>1 DEF PayloadsInsert
<1>2. CASE x.key # Unkeyed
  <2>1. \A y \in R : y.key # x.key
    BY <1>2 DEF Ordered
  <2> QED BY <1>2, <2>1 DEF PayloadsInsert
<1> QED BY <1>1, <1>2

(* What is left of a replay after one call: the same calls in all, one     *)
(* more of them recorded.                                                  *)
LEMMA HeldNext ==
  ASSUME NEW res, NEW t, NEW g, NEW lg, NEW v, Held(res, t, g, lg, v), lg # <<>>,
         NEW new, NEW g2, NEW x,
         x = [timestamp |-> t, key |-> OpKey(Head(lg).kind, Head(lg).op), call |-> Head(lg)],
         Entries(new, t + 1, g2, v), Recorded(new) = Recorded(res) \cup {x}
  PROVE  Held(new, t + 1, g2, Tail(lg), v)
<1>1. /\ t \in Nat \ {0} /\ lg \in Seq(CallType) /\ t + Len(lg) <= MaxCalls + 1
      /\ Script(Recorded(res) \cup Rest(lg, t), v)
  BY DEF Held
<1>2. /\ Rest(lg, t) = Rest(Tail(lg), t + 1) \cup {x} /\ Tail(lg) \in Seq(CallType)
      /\ Len(Tail(lg)) = Len(lg) - 1
  BY <1>1, RestTail
<1>3. Recorded(new) \cup Rest(Tail(lg), t + 1) = Recorded(res) \cup Rest(lg, t)
  BY <1>2
<1>4. (t + 1) + Len(Tail(lg)) <= MaxCalls + 1
  <2>1. Len(lg) \in Nat /\ MaxCalls \in Nat
    BY <1>1, HandleAssumption
  <2> QED BY <1>1, <1>2, <2>1
<1> QED BY <1>1, <1>2, <1>3, <1>4 DEF Held, Entries

(* What is known of the next call of a replay.                             *)
LEMMA NextCall ==
  ASSUME NEW res, NEW t, NEW g, NEW lg, NEW v, Held(res, t, g, lg, v), lg # <<>>, NEW x,
         x = [timestamp |-> t, key |-> OpKey(Head(lg).kind, Head(lg).op), call |-> Head(lg)]
  PROVE  /\ x \in PayloadType /\ x \in Rest(lg, t) /\ CallOn(v, x)
         /\ x \notin Recorded(res) /\ Entries(res, t, g, v)
         /\ \A y \in Recorded(res) : y.timestamp < x.timestamp /\ CallOn(v, y)
         /\ Ordered(Recorded(res) \cup Rest(lg, t))
<1>1. /\ t \in Nat \ {0} /\ lg \in Seq(CallType) /\ EntriesOK(res, t)
      /\ Script(Recorded(res) \cup Rest(lg, t), v) /\ Entries(res, t, g, v)
  BY DEF Held, Entries
<1>2. x \in Rest(lg, t)
  BY <1>1, RestTail
<1>3. /\ \A y \in Recorded(res) \cup Rest(lg, t) : y \in PayloadType /\ CallOn(v, y)
      /\ Ordered(Recorded(res) \cup Rest(lg, t))
  BY <1>1, ScriptFacts
<1>4. x.timestamp = t
  OBVIOUS
<1>5. \A y \in Recorded(res) : y.timestamp < x.timestamp
  BY <1>1, <1>4, RecordedOf
<1>6. x \notin Recorded(res)
  BY <1>1, <1>4, <1>5
<1> QED BY <1>1, <1>2, <1>3, <1>5, <1>6

(* A replay goes on.                                                       *)
LEMMA StillReplaying ==
  ASSUME HandleInv, phase' = "replaying", view' = view, nextProxy' = nextProxy,
         image' = image, kept' = kept, outdated' = outdated, standby' = standby,
         NEW v, Shows(v), Held(resources', clock', gpu', log', v)
  PROVE  HandleInv'
<1>1. MadeBy(v, view', nextProxy') /\ (~outdated' => v = view')
  BY DEF Shows
<1>2. (\E w : Shows(w))'
  BY <1>1, ShowsThen
<1> QED BY <1>2 DEF HandleInv

(* A replayed call that creates a handle.                                  *)
LEMMA ReplayCreateKeeps ==
  ASSUME HandleInv, ReplayCall, Head(log).op = "create"
  PROVE  HandleInv'
<1> DEFINE c == Head(log)
           x == Payload(c)
<1>1. /\ phase = "replaying" /\ log # <<>> /\ log' = Tail(log) /\ phase' = phase
      /\ view' = view /\ nextProxy' = nextProxy /\ image' = image
      /\ kept' = kept /\ outdated' = outdated /\ standby' = standby
      /\ resources' = With(resources, c.proxy, [value |-> FreshHandle, payloads |-> {x}])
      /\ gpu' = With(gpu, FreshHandle, NewObject(c.kind)) /\ clock' = clock + 1
  BY DEF ReplayCall, ExeCreate, clientVars
<1>v. PICK v : Shows(v)
  BY <1>1 DEF HandleInv
<1>2. Held(resources, clock, gpu, log, v)
  BY <1>v DEF Shows
<1>3. x = [timestamp |-> clock, key |-> OpKey(Head(log).kind, Head(log).op),
           call |-> Head(log)]
  BY DEF Payload
<1>4. x.call = c /\ x.timestamp = clock
  BY <1>3
<1> DEFINE h == FreshHandle
           g2 == With(gpu, h, NewObject(x.call.kind))
           new == With(resources, x.call.proxy, [value |-> h, payloads |-> {x}])
<1>5. resources' = new /\ gpu' = g2
  BY <1>1, <1>4
<1> HIDE DEF x
<1>6. /\ x \in PayloadType /\ CallOn(v, x) /\ Entries(resources, clock, gpu, v)
  BY <1>1, <1>2, <1>3, NextCall
<1>7. x.call.proxy \notin DOMAIN resources
  BY <1>1, <1>2, <1>4, HeldReplayable
<1>8. h \in Nat \ {0} /\ h \notin DOMAIN gpu
  BY <1>6, FreshFacts DEF Entries, Backed
<1> HIDE DEF h
<1>9. Creation(resources, clock, gpu, v, v, x, h)
  BY <1>4, <1>6, <1>7, <1>8 DEF Creation, CallOn
<1>10. Entries(new, clock + 1, g2, v) /\ Recorded(new) = Recorded(resources) \cup {x}
  BY ONLY <1>6, <1>9, EntriesCreate
<1> HIDE DEF new, g2
<1>11. Held(new, clock + 1, g2, Tail(log), v)
  BY <1>1, <1>2, <1>3, <1>10, HeldNext
<1> QED BY <1>1, <1>v, <1>5, <1>11, StillReplaying

(* A replayed call that configures a handle.                               *)
LEMMA ReplayModifyKeeps ==
  ASSUME HandleInv, ReplayCall, Head(log).op # "create"
  PROVE  HandleInv'
<1> DEFINE c == Head(log)
           x == Payload(c)
           real == IF c.op = "SetStream" THEN RealHandle(c.arg) ELSE c.arg
           P == Recorded(resources) \cup Rest(log, clock)
<1>1. /\ phase = "replaying" /\ log # <<>> /\ log' = Tail(log) /\ phase' = phase
      /\ view' = view /\ nextProxy' = nextProxy /\ image' = image
      /\ kept' = kept /\ outdated' = outdated /\ standby' = standby
      /\ clock' = clock + 1
  BY DEF ReplayCall, ExeModify, clientVars
<1>2. /\ resources' = [resources EXCEPT ![c.proxy].payloads = PayloadsInsert(@, Payload(c))]
      /\ gpu' = IF c.ok THEN [gpu EXCEPT ![RealHandle(c.proxy)] = Configured(@, c.op, real)]
                        ELSE gpu
  BY DEF ReplayCall, ExeModify, clientVars
<1>v. PICK v : Shows(v)
  BY <1>1 DEF HandleInv
<1>3. Held(resources, clock, gpu, log, v)
  BY <1>v DEF Shows
<1>4. x = [timestamp |-> clock, key |-> OpKey(Head(log).kind, Head(log).op),
           call |-> Head(log)]
  BY DEF Payload
<1>5. x.call = c /\ x.timestamp = clock
  BY <1>4
<1>6. /\ x.call.proxy \in DOMAIN resources
      /\ x.call.op = "SetStream" => x.call.arg \in {Null} \cup DOMAIN resources
  BY <1>1, <1>3, <1>5, HeldReplayable
<1> HIDE DEF x
<1>7. /\ x \in PayloadType /\ x \in Rest(log, clock) /\ CallOn(v, x)
      /\ Entries(resources, clock, gpu, v) /\ x \notin Recorded(resources)
      /\ \A y \in Recorded(resources) : y.timestamp < x.timestamp /\ CallOn(v, y)
      /\ Ordered(P)
  BY <1>1, <1>3, <1>4, NextCall
<1> HIDE DEF P
<1>8. x.call.proxy # Null /\ RealHandle(c.proxy) = resources[x.call.proxy].value
  BY <1>5, <1>6, <1>7, PayloadFields, RealHandles DEF Null
<1>9. real = IF x.call.op # "SetStream" \/ x.call.arg = Null THEN x.call.arg
             ELSE resources[x.call.arg].value
  BY <1>5 DEF RealHandle
<1>10. /\ resources' = ModifiedIn(resources, x)
       /\ gpu' = ModifiedGpu(gpu, resources, x, real)
  BY <1>2, <1>5, <1>8 DEF x, ModifiedIn, ModifiedGpu
<1> HIDE DEF real
<1>11. /\ Of(Recorded(resources), x.call.proxy) = resources[x.call.proxy].payloads
       /\ Recorded(resources) \subseteq PayloadType
  BY <1>6, <1>7, RecordedOf DEF Entries
<1>12. Inserts(resources[x.call.proxy].payloads, x, v[x.call.proxy].kind)
  <2> DEFINE R == Of(Recorded(resources), x.call.proxy)
             k == v[x.call.proxy].kind
  <2>1. x.call.kind = k /\ x.call.op \in Ops(k) /\ x.key = OpKey(k, x.call.op)
    BY <1>5, <1>7 DEF CallOn
  <2>2. k \in Kinds
    BY <1>7, <2>1, PayloadFields
  <2>3. \A y \in R : y \in Recorded(resources) /\ y.call.proxy = x.call.proxy
    BY DEF Of
  <2>4. \A y \in R : y.key = OpKey(k, y.call.op)
    BY <1>7, <2>3 DEF CallOn
  <2> HIDE DEF k, R
  <2>5. Inserts(R, x, k)
    BY <1>7, <1>11, <2>1, <2>2, <2>3, <2>4 DEF Inserts
  <2> QED BY <1>11, <2>5 DEF R, k
<1>13. Modification(resources, clock, v, v, x, real)
  BY <1>5, <1>6, <1>7, <1>9, <1>12 DEF Modification
<1> DEFINE new == ModifiedIn(resources, x)
           g2 == ModifiedGpu(gpu, resources, x, real)
<1>14. /\ Entries(new, clock + 1, g2, v)
       /\ Recorded(new) = (Recorded(resources) \ Of(Recorded(resources), x.call.proxy))
            \cup PayloadsInsert(Of(Recorded(resources), x.call.proxy), x)
  BY ONLY <1>7, <1>13, EntriesModify
<1> HIDE DEF new, g2
<1>15. Recorded(new) = Recorded(resources) \cup {x}
  <2> DEFINE R == Of(Recorded(resources), x.call.proxy)
  <2>1. R \subseteq Recorded(resources) /\ \A y \in R : y.call.proxy = x.call.proxy
    BY DEF Of
  <2>2. R \subseteq P /\ x \in P /\ x \notin R
    BY <1>7, <2>1 DEF P
  <2> HIDE DEF R
  <2>3. PayloadsInsert(R, x) = R \cup {x}
    BY <1>7, <2>1, <2>2, InsertNew
  <2>4. Recorded(new) = (Recorded(resources) \ R) \cup PayloadsInsert(R, x)
    BY <1>14 DEF R
  <2> QED BY ONLY <2>1, <2>3, <2>4
<1>16. Held(new, clock + 1, g2, Tail(log), v)
  BY <1>1, <1>3, <1>4, <1>14, <1>15, HeldNext
<1>17. resources' = new /\ gpu' = g2
  BY <1>10 DEF new, g2
<1> QED BY <1>1, <1>v, <1>16, <1>17, StillReplaying

(* What a checkpoint or a detach saves.                                    *)
LEMMA SavedImage ==
  ASSUME HandleInv, phase = "serving", NEW where \in {"none", "disk", "snapshot"}
  PROVE  /\ ImageOK(Saved(where)) /\ Saved(where).view = view
         /\ Saved(where).nextProxy = nextProxy /\ Saved(where).outdated = outdated
<1> DEFINE im == Saved(where)
           lg == Serialize(resources)
<1>1. /\ im.where = where /\ im.log = lg /\ im.view = view /\ im.nextProxy = nextProxy
      /\ im.outdated = outdated
  BY DEF Saved
<1> HIDE DEF im, lg
<1>v. PICK v : Shows(v)
  BY DEF HandleInv
<1>2. /\ Script(Recorded(resources), v) /\ EntriesOK(resources, clock)
      /\ clock \in 1..(MaxCalls + 1) /\ ViewOK(view, nextProxy) /\ MaxCalls \in Nat
      /\ MadeBy(v, view, nextProxy) /\ (~outdated => v = view) /\ outdated \in BOOLEAN
  BY <1>v, ServingFacts, HandleAssumption DEF HandleInv, Shows
<1>3. clock \in Nat \ {0} /\ clock - 1 <= MaxCalls
  BY <1>2
<1>4. lg \in Seq(CallType) /\ Len(lg) <= clock - 1 /\ Script(Rest(lg, 1), v)
  BY <1>2, <1>3, SerializeFacts DEF lg
<1>5. Len(lg) <= MaxCalls
  <2>1. Len(lg) \in Nat
    BY <1>4
  <2> QED BY <1>2, <1>3, <1>4, <2>1
<1> QED BY <1>1, <1>2, <1>4, <1>5 DEF ImageOK, im

(* The calls of an image make the same handles whenever they are replayed. *)
LEMMA ScriptShift ==
  ASSUME NEW lg \in Seq(CallType), NEW v, Script(Rest(lg, 1), v), NEW t \in Nat \ {0}
  PROVE  Script(Rest(lg, t), v)
<1> DEFINE P == Rest(lg, 1)
           Q == Rest(lg, t)
           Moved(x) == [timestamp |-> t + x.timestamp - 1, key |-> x.key, call |-> x.call]
           At(i) == [timestamp |-> 1 + i - 1, key |-> OpKey(lg[i].kind, lg[i].op),
                     call |-> lg[i]]
           Bt(i) == [timestamp |-> t + i - 1, key |-> OpKey(lg[i].kind, lg[i].op),
                     call |-> lg[i]]
           f == [x \in P |-> Moved(x)]
<1>1. P = {At(i) : i \in 1..Len(lg)} /\ Q = {Bt(i) : i \in 1..Len(lg)}
  BY DEF Rest
<1>2. P \subseteq PayloadType
  BY ScriptFacts
<1>3. ASSUME NEW i \in 1..Len(lg) PROVE Moved(At(i)) = Bt(i)
  <2>1. 1 + i - 1 = i
    OBVIOUS
  <2> QED BY <2>1
<1>4. ASSUME NEW x \in P
      PROVE  /\ Moved(x) \in PayloadType /\ Moved(x).call = x.call
             /\ Moved(x).key = x.key /\ Moved(x).timestamp = t + x.timestamp - 1
             /\ x.timestamp \in Nat
  <2>1. x \in PayloadType
    BY <1>2
  <2>2. t + x.timestamp - 1 \in Nat /\ x.timestamp \in Nat
    BY <2>1, PayloadFields
  <2> QED BY <2>1, <2>2, PayloadFields DEF PayloadType
<1> HIDE DEF P, Q, Moved, At, Bt
<1>5. f \in [P -> Q] /\ \A x \in P : f[x] = Moved(x)
  BY <1>1, <1>3
<1> HIDE DEF f
<1>6. \A y \in Q : \E x \in P : f[x] = y
  BY <1>1, <1>3, <1>5
<1>7. Q \in SUBSET PayloadType
  BY <1>4, <1>5, <1>6
<1>8. \A x \in P : f[x].call = x.call /\ f[x].key = x.key
  BY <1>4, <1>5
<1>9. \A x, y \in P : x.timestamp < y.timestamp => f[x].timestamp < f[y].timestamp
  BY <1>4, <1>5
<1>10. Renames(P, Q, f)
  BY <1>5, <1>6, <1>8, <1>9 DEF Renames
<1>11. Script(P, v)
  BY DEF P
<1>12. Script(Q, v)
  BY <1>7, <1>10, <1>11, ScriptRenamed
<1> QED BY <1>12 DEF Q

(* A thread without handles, in front of an image.                         *)
LEMMA HeldImage ==
  ASSUME NEW im, ImageOK(im), NEW t \in Nat \ {0}, t + Len(im.log) <= MaxCalls + 1,
         NEW res, NEW g, DOMAIN res = {}, DOMAIN g = {}
  PROVE  HeldFor(res, t, g, im.log, im.view, im.nextProxy, im.outdated, im.view)
<1>1. im.log \in Seq(CallType)
  BY DEF ImageOK
<1>2. PICK v : /\ Script(Rest(im.log, 1), v) /\ MadeBy(v, im.view, im.nextProxy)
               /\ ~im.outdated => v = im.view
  BY DEF ImageOK
<1>3. Script(Rest(im.log, t), v)
  BY <1>1, <1>2, ScriptShift
<1>4. Held(res, t, g, im.log, v)
  BY <1>1, <1>3, HeldNone
<1> QED BY <1>2, <1>4 DEF HeldFor

(* In a process that starts there is room for the image.                   *)
LEMMA ImageFits ==
  ASSUME NEW im, ImageOK(im)
  PROVE  1 + Len(im.log) <= MaxCalls + 1
<1>1. im.log \in Seq(CallType) /\ Len(im.log) <= MaxCalls /\ MaxCalls \in Nat
  BY HandleAssumption DEF ImageOK
<1>2. Len(im.log) \in Nat
  BY <1>1
<1> QED BY <1>1, <1>2

(* No image at all.                                                        *)
LEMMA NoImageFacts == ImageOK(NoImage)
<1>1. /\ NoImage.where = "none" /\ NoImage.log = <<>> /\ NoImage.view = <<>>
      /\ NoImage.nextProxy = 1 /\ NoImage.outdated = FALSE
  BY DEF NoImage
<1>2. ViewOK(<<>>, 1)
  BY HandleAssumption DEF ViewOK
<1>3. MadeBy(<<>>, <<>>, 1)
  BY <1>2 DEF MadeBy
<1>4. /\ Rest(<<>>, 1) = {} /\ <<>> \in Seq(CallType) /\ Len(<<>>) = 0 /\ DOMAIN <<>> = {}
      /\ MaxCalls \in Nat
  BY RestEmpty, HandleAssumption
<1>5. Script({}, <<>>)
  BY <1>4, ScriptNone
<1>6. \E v : /\ Script(Rest(NoImage.log, 1), v)
             /\ MadeBy(v, NoImage.view, NoImage.nextProxy)
             /\ ~NoImage.outdated => v = NoImage.view
  <2>1. Script(Rest(NoImage.log, 1), NoImage.view)
    BY <1>1, <1>4, <1>5
  <2>2. MadeBy(NoImage.view, NoImage.view, NoImage.nextProxy)
    BY <1>1, <1>3
  <2> QED BY <2>1, <2>2
<1>7. NoImage.where \in {"none", "disk", "snapshot"} /\ NoImage.outdated \in BOOLEAN
  BY <1>1
<1>8. ViewOK(NoImage.view, NoImage.nextProxy)
  BY <1>1, <1>2
<1>9. NoImage.log \in Seq(CallType) /\ Len(NoImage.log) <= MaxCalls
  <2>1. Len(<<>>) <= MaxCalls
    BY <1>4
  <2> QED BY <1>1, <1>4, <2>1
<1> QED BY <1>6, <1>7, <1>8, <1>9 DEF ImageOK

(* Nobody serves the client any more.                                      *)
LEMMA StoppedKeeps ==
  ASSUME HandleInv, Stopped, ImageOK(image'), view' = view, nextProxy' = nextProxy,
         outdated' = outdated
  PROVE  HandleInv'
<1>1. /\ phase' = "stopped" /\ kept' = {} /\ resources' = <<>> /\ clock' = 1
      /\ standby' = FALSE
  BY DEF Stopped, NewProcess
<1>2. KeptOK(kept', view', nextProxy')
  BY <1>1 DEF KeptOK
<1> QED BY <1>1, <1>2 DEF HandleInv

(* A call on a handle that the thread does not have.                       *)
LEMMA CallPanicsKeeps ==
  ASSUME HandleInv, NEW p \in DOMAIN view, CallPanics(p)
  PROVE  HandleInv'
<1>1. /\ Stopped /\ view' = view /\ nextProxy' = nextProxy /\ image' = image
      /\ outdated' = outdated
  BY DEF CallPanics, clientVars
<1>2. ImageOK(image')
  BY <1>1 DEF HandleInv
<1> QED BY <1>1, <1>2, StoppedKeeps

(* dump_handles.                                                           *)
LEMMA CheckpointKeeps ==
  ASSUME HandleInv, NEW mode \in {"Kill", "LeaveRunning"}, Checkpoint(mode)
  PROVE  HandleInv'
<1>1. /\ phase = "serving" /\ image' = Saved("disk") /\ log' = log
      /\ view' = view /\ nextProxy' = nextProxy /\ outdated' = outdated
      /\ \/ Stopped
         \/ /\ phase' = "serving" /\ resources' = resources /\ clock' = clock
            /\ gpu' = gpu /\ standby' = standby /\ kept' = kept
  BY DEF Checkpoint, clientVars, workerVars
<1>2. ImageOK(Saved("disk"))
  BY <1>1, SavedImage
<1>3. ImageOK(image')
  BY <1>1, <1>2
<1>4. CASE Stopped
  BY <1>1, <1>3, <1>4, StoppedKeeps
<1>5. CASE /\ phase' = "serving" /\ resources' = resources /\ clock' = clock
           /\ gpu' = gpu /\ standby' = standby /\ kept' = kept
  <2>1. PICK v : Shows(v)
    BY <1>1 DEF HandleInv
  <2>2. /\ Held(resources, clock, gpu, <<>>, v) /\ log = <<>>
        /\ MadeBy(v, view, nextProxy) /\ (~outdated => v = view)
    BY <1>1, <2>1, ServingFacts DEF Shows
  <2>3. /\ KeptOK(kept, view, nextProxy) /\ ViewOK(view, nextProxy)
        /\ outdated \in BOOLEAN /\ standby \in BOOLEAN
    BY DEF HandleInv
  <2> QED BY <1>1, <1>3, <1>5, <2>2, <2>3, StillServing
<1> QED BY <1>1, <1>4, <1>5

(* dump_state and try_put_standby.                                         *)
LEMMA DetachKeeps ==
  ASSUME HandleInv, Detach
  PROVE  HandleInv'
<1>1. /\ phase = "serving" /\ image' = Saved("snapshot")
      /\ view' = view /\ nextProxy' = nextProxy /\ outdated' = outdated
      /\ kept' = IF standby THEN kept \cup {Connection} ELSE kept
      /\ phase' = "detached" /\ resources' = <<>> /\ clock' = 1 /\ standby' = FALSE
  BY DEF Detach, NewProcess, clientVars
<1>2. /\ ImageOK(Saved("snapshot")) /\ Saved("snapshot").view = view
      /\ Saved("snapshot").nextProxy = nextProxy
      /\ Saved("snapshot").outdated = outdated
  BY <1>1, SavedImage
<1>3. /\ ViewOK(view, nextProxy) /\ KeptOK(kept, view, nextProxy) /\ outdated \in BOOLEAN
  BY DEF HandleInv
<1>4. PICK v : Shows(v)
  BY <1>1 DEF HandleInv
<1>5. /\ Held(resources, clock, gpu, <<>>, v) /\ MadeBy(v, view, nextProxy)
      /\ (~outdated => v = view)
  BY <1>1, <1>4, ServingFacts DEF Shows
<1>6. /\ Connection.handles = resources /\ Connection.clock = clock
      /\ Connection.gpu = gpu /\ Connection.view = view /\ Connection.outdated = outdated
  BY DEF Connection
<1>7. HeldFor(Connection.handles, Connection.clock, Connection.gpu, <<>>, view, nextProxy,
              Connection.outdated, Connection.view)
  BY <1>5, <1>6 DEF HeldFor
<1>8. KeptOK(kept', view', nextProxy')
  <2> HIDE DEF Connection
  <2>1. \A k \in kept' : k \in kept \/ k = Connection
    BY <1>1
  <2> QED BY <1>1, <1>3, <1>7, <2>1 DEF KeptOK
<1> QED BY <1>1, <1>2, <1>3, <1>8 DEF HandleInv

(* A replay begins.                                                        *)
LEMMA BeginReplay ==
  ASSUME ImageOK(image'), ViewOK(view', nextProxy'), phase' = "replaying",
         KeptOK(kept', view', nextProxy'), outdated' \in BOOLEAN, standby' \in BOOLEAN,
         HeldFor(resources', clock', gpu', log', view', nextProxy', outdated', view')
  PROVE  HandleInv'
<1>1. PICK v : /\ Held(resources', clock', gpu', log', v)
               /\ MadeBy(v, view', nextProxy') /\ (~outdated' => v = view')
  BY DEF HeldFor
<1>2. (\E w : Shows(w))'
  BY <1>1, ShowsThen
<1> QED BY <1>2 DEF HandleInv

(* begin_handle_restore.                                                   *)
LEMMA RestoreDiskKeeps ==
  ASSUME HandleInv, RestoreDisk
  PROVE  HandleInv'
<1>1. /\ phase' = "replaying" /\ log' = image.log /\ image' = image
      /\ nextProxy' = image.nextProxy /\ view' = image.view
      /\ resources' = <<>> /\ clock' = 1 /\ gpu' = <<>> /\ standby' = FALSE
      /\ kept' = {} /\ outdated' = image.outdated
  BY DEF RestoreDisk, NewProcess
<1>2. /\ ImageOK(image) /\ ViewOK(image.view, image.nextProxy)
      /\ image.outdated \in BOOLEAN
  BY DEF HandleInv, ImageOK
<1>3. DOMAIN <<>> = {} /\ 1 \in Nat \ {0} /\ 1 + Len(image.log) <= MaxCalls + 1
  BY <1>2, ImageFits
<1>4. HeldFor(<<>>, 1, <<>>, image.log, image.view, image.nextProxy, image.outdated,
              image.view)
  BY <1>2, <1>3, HeldImage
<1>5. HeldFor(resources', clock', gpu', log', view', nextProxy', outdated', view')
  BY <1>1, <1>4
<1>6. /\ ImageOK(image') /\ ViewOK(view', nextProxy') /\ KeptOK(kept', view', nextProxy')
      /\ outdated' \in BOOLEAN /\ standby' \in BOOLEAN
  BY <1>1, <1>2 DEF KeptOK
<1> QED BY <1>1, <1>5, <1>6, BeginReplay

(* begin_attach in a worker without handles of the client.                 *)
LEMMA AttachColdKeeps ==
  ASSUME HandleInv, NEW cache \in BOOLEAN, AttachCold(cache)
  PROVE  HandleInv'
<1>1. /\ phase = "detached"
      /\ phase' = "replaying" /\ log' = image.log /\ image' = NoImage
      /\ nextProxy' = nextProxy /\ view' = view
      /\ resources' = <<>> /\ clock' = 1 /\ gpu' = <<>> /\ standby' = cache
      /\ kept' = kept /\ outdated' = outdated
  BY DEF AttachCold, NewProcess, clientVars
<1>2. /\ ImageOK(image) /\ ViewOK(view, nextProxy) /\ KeptOK(kept, view, nextProxy)
      /\ image.view = view /\ image.nextProxy = nextProxy /\ image.outdated = outdated
      /\ outdated \in BOOLEAN
  BY <1>1 DEF HandleInv
<1>3. DOMAIN <<>> = {} /\ 1 \in Nat \ {0} /\ 1 + Len(image.log) <= MaxCalls + 1
  BY <1>2, ImageFits
<1>4. HeldFor(<<>>, 1, <<>>, image.log, image.view, image.nextProxy, image.outdated,
              image.view)
  BY <1>2, <1>3, HeldImage
<1>5. HeldFor(resources', clock', gpu', log', view', nextProxy', outdated', view')
  BY <1>1, <1>2, <1>4
<1>6. /\ ImageOK(image') /\ ViewOK(view', nextProxy') /\ KeptOK(kept', view', nextProxy')
      /\ outdated' \in BOOLEAN /\ standby' \in BOOLEAN
  BY <1>1, <1>2, NoImageFacts
<1> QED BY <1>1, <1>5, <1>6, BeginReplay

(* begin_attach with kept handles.  If there are any, nothing is replayed, *)
(* and they are the client's unless the entry is outdated; if there are    *)
(* none, everything in the image is.                                       *)
LEMMA AttachWarmKeeps ==
  ASSUME HandleInv, NEW k \in kept, AttachWarm(k)
  PROVE  HandleInv'
<1>1. /\ phase = "detached" /\ phase' = "replaying" /\ resources' = k.handles
      /\ clock' = k.clock /\ gpu' = k.gpu /\ standby' = TRUE /\ kept' = kept \ {k}
      /\ log' = HandlesToReplay(k.handles) /\ image' = NoImage
      /\ k.clock + Len(HandlesToReplay(k.handles)) <= MaxCalls + 1
      /\ outdated' = IF DOMAIN k.handles = {} THEN outdated
                     ELSE k.outdated \/ k.view # view
      /\ nextProxy' = nextProxy /\ view' = view
  BY DEF AttachWarm, clientVars
<1>2. /\ ImageOK(image) /\ ViewOK(view, nextProxy) /\ KeptOK(kept, view, nextProxy)
      /\ image.view = view /\ image.nextProxy = nextProxy /\ image.outdated = outdated
      /\ outdated \in BOOLEAN
  BY <1>1 DEF HandleInv
<1>3. PICK v : /\ Held(k.handles, k.clock, k.gpu, <<>>, v) /\ MadeBy(v, view, nextProxy)
               /\ ~k.outdated => v = k.view
  BY <1>2 DEF KeptOK, HeldFor
<1>4. HeldFor(resources', clock', gpu', log', view', nextProxy', outdated', view')
  <2>1. CASE DOMAIN k.handles # {}
    <3>1. log' = <<>> /\ (~outdated' => ~k.outdated /\ k.view = view)
      BY <1>1, <2>1 DEF HandlesToReplay
    <3>2. Held(resources', clock', gpu', log', v) /\ MadeBy(v, view', nextProxy')
      BY <1>1, <1>3, <3>1
    <3>3. ~outdated' => v = view'
      BY <1>1, <1>3, <3>1
    <3> QED BY <3>2, <3>3 DEF HeldFor
  <2>2. CASE DOMAIN k.handles = {}
    <3>1. log' = image.log /\ outdated' = outdated
      BY <1>1, <2>2 DEF HandlesToReplay
    <3>2. k.clock \in Nat \ {0} /\ Backed(k.handles, k.gpu)
      BY <1>3 DEF Held
    <3>3. DOMAIN k.gpu = {}
      BY <2>2, <3>2 DEF Backed
    <3>4. k.clock + Len(image.log) <= MaxCalls + 1
      BY <1>1, <3>1
    <3>5. HeldFor(k.handles, k.clock, k.gpu, image.log, image.view, image.nextProxy,
                  image.outdated, image.view)
      BY <1>2, <2>2, <3>2, <3>3, <3>4, HeldImage
    <3> QED BY <1>1, <1>2, <3>1, <3>5
  <2> QED BY <2>1, <2>2
<1>5. outdated' \in BOOLEAN /\ standby' \in BOOLEAN
  BY <1>1, <1>2
<1>6. /\ ImageOK(image') /\ ViewOK(view', nextProxy') /\ KeptOK(kept', view', nextProxy')
  BY <1>1, <1>2, NoImageFacts DEF KeptOK
<1> QED BY <1>1, <1>4, <1>5, <1>6, BeginReplay

(* The replay is over.                                                     *)
LEMMA RestoreEofKeeps ==
  ASSUME HandleInv, RestoreEof
  PROVE  HandleInv'
<1>1. /\ phase = "replaying" /\ phase' = "serving" /\ log = <<>> /\ log' = log
      /\ view' = view /\ nextProxy' = nextProxy /\ image' = image
      /\ resources' = resources /\ clock' = clock /\ gpu' = gpu
      /\ standby' = standby /\ kept' = kept /\ outdated' = outdated
  BY DEF RestoreEof, clientVars, workerVars
<1>2. PICK v : Shows(v)
  BY <1>1 DEF HandleInv
<1>3. /\ Held(resources', clock', gpu', <<>>, v) /\ MadeBy(v, view', nextProxy')
      /\ (~outdated' => v = view')
  BY <1>1, <1>2 DEF Shows
<1>4. /\ ImageOK(image') /\ ViewOK(view', nextProxy') /\ KeptOK(kept', view', nextProxy')
      /\ outdated' \in BOOLEAN /\ standby' \in BOOLEAN /\ log' = <<>>
  BY <1>1 DEF HandleInv
<1> QED BY <1>1, <1>3, <1>4, StillServing

(* A client without handles.                                               *)
LEMMA InitHandles ==
  ASSUME Init
  PROVE  HandleInv
<1>1. /\ nextProxy = 1 /\ view = <<>> /\ resources = <<>> /\ clock = 1 /\ gpu = <<>>
      /\ phase = "serving" /\ log = <<>> /\ image = NoImage /\ standby = FALSE
      /\ kept = {} /\ outdated = FALSE
  BY DEF Init
<1>2. ImageOK(NoImage) /\ NoImage.log = <<>> /\ NoImage.view = <<>>
      /\ NoImage.nextProxy = 1 /\ NoImage.outdated = FALSE
  BY NoImageFacts DEF NoImage
<1>3. DOMAIN <<>> = {} /\ 1 \in Nat \ {0} /\ 1 + Len(NoImage.log) <= MaxCalls + 1
  BY <1>2, ImageFits
<1>4. HeldFor(<<>>, 1, <<>>, NoImage.log, NoImage.view, NoImage.nextProxy,
              NoImage.outdated, NoImage.view)
  BY <1>2, <1>3, HeldImage
<1>5. \E v : Shows(v)
  BY <1>1, <1>2, <1>4 DEF HeldFor, Shows
<1>6. ViewOK(view, nextProxy) /\ KeptOK(kept, view, nextProxy)
  BY <1>1, <1>2 DEF ImageOK, KeptOK
<1> QED BY <1>1, <1>2, <1>5, <1>6 DEF HandleInv

(* The invariant holds in every reachable state.                           *)
THEOREM HandleInvariant == Spec => []HandleInv
<1>1. Init => HandleInv
  BY InitHandles
<1>2. HandleInv /\ [Next]_vars => HandleInv'
  <2> SUFFICES ASSUME HandleInv, [Next]_vars PROVE HandleInv'
    OBVIOUS
  <2>1. ASSUME NEW kind \in Kinds, Create(kind) PROVE HandleInv'
    BY <2>1, CreateKeeps
  <2>2. ASSUME NEW p \in DOMAIN view, Destroy(p) PROVE HandleInv'
    BY <2>2, DestroyKeeps
  <2>3. ASSUME NEW p \in DOMAIN view, NEW op \in Ops(view[p].kind),
               NEW arg \in ArgsOf(op), NEW ok \in BOOLEAN, Modify(p, op, arg, ok)
        PROVE  HandleInv'
    BY <2>3, ModifyKeeps
  <2>4. ASSUME NEW mode \in {"Kill", "LeaveRunning"}, Checkpoint(mode) PROVE HandleInv'
    BY <2>4, CheckpointKeeps
  <2>5. CASE Detach
    BY <2>5, DetachKeeps
  <2>6. CASE RestoreDisk
    BY <2>6, RestoreDiskKeeps
  <2>7. ASSUME NEW cache \in BOOLEAN, AttachCold(cache) PROVE HandleInv'
    BY <2>7, AttachColdKeeps
  <2>8. ASSUME NEW k \in kept, AttachWarm(k) PROVE HandleInv'
    BY <2>8, AttachWarmKeeps
  <2>9. CASE ReplayCall
    BY <2>9, ReplayCreateKeeps, ReplayModifyKeeps
  <2>10. CASE RestoreEof
    BY <2>10, RestoreEofKeeps
  <2>11. CASE UNCHANGED vars
    BY <2>11 DEF vars, clientVars, workerVars, HandleInv, Shows
  <2>12. ASSUME NEW p \in DOMAIN view, CallPanics(p) PROVE HandleInv'
    BY <2>12, CallPanicsKeeps
  <2> QED BY <2>1, <2>2, <2>3, <2>4, <2>5, <2>6, <2>7, <2>8, <2>9, <2>10, <2>11, <2>12
          DEF Next
<1> QED BY <1>1, <1>2, PTL DEF Spec

-----------------------------------------------------------------------------
(* What follows from it                                                    *)

(* A thread that serves or replays has entries with real handles.          *)
LEMMA HeldTypes ==
  ASSUME NEW res, NEW t, NEW g, NEW lg, NEW v, Held(res, t, g, lg, v)
  PROVE  /\ t \in 1..(MaxCalls + 1)
         /\ \A p \in DOMAIN res :
              /\ res[p].value \in DOMAIN g
              /\ \A x \in res[p].payloads : x.timestamp \in 1..(t - 1)
<1>1. /\ t \in Nat \ {0} /\ lg \in Seq(CallType) /\ t + Len(lg) <= MaxCalls + 1
      /\ EntriesOK(res, t) /\ Backed(res, g) /\ MaxCalls \in Nat
  BY HandleAssumption DEF Held
<1>2. Len(lg) \in Nat
  BY <1>1
<1>3. t \in 1..(MaxCalls + 1)
  BY <1>1, <1>2
<1> QED BY <1>1, <1>3 DEF EntriesOK, EntryOK, Backed

(* Type correctness: every entry of a thread names a handle that the       *)
(* library knows, and timestamps come from the counter of the process.     *)
THEOREM HandleTypes == Spec => []TypeOK
<1>1. HandleInv => TypeOK
  <2> SUFFICES ASSUME HandleInv PROVE TypeOK
    OBVIOUS
  <2>1. nextProxy \in 1..(MaxProxy + 1) /\ DOMAIN view \subseteq 1..MaxProxy
    BY HandleAssumption DEF HandleInv, ViewOK
  <2>2. /\ phase \in {"serving", "stopped", "detached", "replaying"}
        /\ standby \in BOOLEAN /\ outdated \in BOOLEAN
        /\ image.where \in {"none", "disk", "snapshot"}
    BY DEF HandleInv, ImageOK
  <2>3. /\ clock \in 1..(MaxCalls + 1)
        /\ \A p \in DOMAIN resources :
             /\ resources[p].value \in DOMAIN gpu
             /\ \A x \in resources[p].payloads : x.timestamp \in 1..(clock - 1)
    <3>1. CASE phase \in {"serving", "replaying"}
      BY <3>1, HeldTypes DEF HandleInv, Shows
    <3>2. CASE phase \in {"stopped", "detached"}
      <4>1. DOMAIN resources = {} /\ clock = 1
        BY <3>2 DEF HandleInv
      <4> QED BY <4>1, HandleAssumption
    <3> QED BY <2>2, <3>1, <3>2
  <2> QED BY <2>1, <2>2, <2>3 DEF TypeOK
<1> QED BY <1>1, HandleInvariant, PTL

(* After any number of checkpoints, restores, detaches and attaches the    *)
(* real handle behind every proxy is configured the way the client has     *)
(* configured it, unless a refused call was recorded last for it or the    *)
(* client was attached through an outdated entry of a standby cache.       *)
THEOREM HandlesAlwaysMatch == Spec => []HandlesMatch
<1>1. HandleInv => HandlesMatch
  <2> SUFFICES ASSUME HandleInv, phase = "serving", ~outdated
               PROVE  /\ DOMAIN resources = DOMAIN view
                      /\ \A p \in DOMAIN view :
                           LET obj == gpu[resources[p].value]
                           IN  /\ obj.kind = view[p].kind
                               /\ ~Spoiled(p) =>
                                    \A op \in Ops(obj.kind) :
                                      SameAttr(op, obj.attrs[op], view[p].attrs[op])
    BY DEF HandlesMatch
  <2>1. /\ Entries(resources, clock, gpu, view) /\ Script(Recorded(resources), view)
        /\ DOMAIN resources = DOMAIN view /\ EntriesOK(resources, clock)
    <3>1. PICK v : Shows(v)
      BY DEF HandleInv
    <3>2. v = view
      BY <3>1 DEF Shows
    <3> QED BY <3>1, <3>2, ServingFacts
  <2>2. ASSUME NEW p \in DOMAIN view
        PROVE  gpu[resources[p].value].kind = view[p].kind
    BY <2>1 DEF Entries, ConfiguredAs
  <2>3. ASSUME NEW p \in DOMAIN view, ~Spoiled(p), NEW op \in Ops(view[p].kind)
        PROVE  SameAttr(op, gpu[resources[p].value].attrs[op], view[p].attrs[op])
    <3> DEFINE P == resources[p].payloads
               real == gpu[resources[p].value].attrs[op]
    <3>1. Clean(P, op)
      BY <2>3 DEF Spoiled, Clean
    <3>2. P = Of(Recorded(resources), p)
      BY <2>1, RecordedOf
    <3>3. P \in SUBSET PayloadType /\ Ordered(P)
      <4>1. Recorded(resources) \subseteq PayloadType /\ Ordered(Recorded(resources))
        BY <2>1, ScriptFacts
      <4>2. P \subseteq Recorded(resources)
        BY <3>2 DEF Of
      <4> QED BY <4>1, <4>2 DEF Ordered
    <3>4. Leaves(P, op, view[p].attrs[op])
      BY <2>1, <2>3, <3>1, <3>2, ScriptFacts
    <3>5. PICK a \in Nat : Leaves(P, op, a) /\ Stands(resources, op, real, a)
      BY <2>1, <2>3, <3>1 DEF Entries, ConfiguredAs
    <3> HIDE DEF P, real
    <3>6. a = view[p].attrs[op]
      BY <3>3, <3>4, <3>5, LeavesUnique
    <3>7. SameAttr(op, real, a)
      BY <3>5 DEF Stands, SameAttr, KnownHandle, RealHandle, Null
    <3> QED BY <3>6, <3>7 DEF real
  <2> QED BY <2>1, <2>2, <2>3
<1> QED BY <1>1, HandleInvariant, PTL

(* A replay never meets a proxy without an entry, so no handler panics     *)
(* during a restore or an attach.                                          *)
THEOREM ReplaysAreDefined == Spec => []ReplayDefined
<1>1. HandleInv => ReplayDefined
  <2> SUFFICES ASSUME HandleInv, phase = "replaying", log # <<>>
               PROVE  Executable(Head(log))
    BY DEF ReplayDefined
  <2>1. PICK v : Held(resources, clock, gpu, log, v)
    BY DEF HandleInv, Shows
  <2> QED BY <2>1, HeldReplayable DEF Executable, KnownHandle
<1> QED BY <1>1, HandleInvariant, PTL

(* A worker that serves has one real handle per entry and no other, so     *)
(* neither a replay nor a warm attach leaks one.                           *)
THEOREM NoHandleLeaks == Spec => []NoLeakedHandles
<1>1. HandleInv => NoLeakedHandles
  <2> SUFFICES ASSUME HandleInv, phase = "serving"
               PROVE  /\ {resources[p].value : p \in DOMAIN resources} = DOMAIN gpu
                      /\ Cardinality(DOMAIN resources) = Cardinality(DOMAIN gpu)
    BY DEF NoLeakedHandles
  <2>1. /\ IsFiniteSet(DOMAIN gpu)
        /\ \A h \in DOMAIN gpu : \E p \in DOMAIN resources : resources[p].value = h
        /\ \A p \in DOMAIN resources : resources[p].value \in DOMAIN gpu
        /\ \A p, q \in DOMAIN resources : resources[p].value = resources[q].value => p = q
    <3>1. PICK v : Shows(v)
      BY DEF HandleInv
    <3> QED BY <3>1, ServingFacts DEF Backed
  <2> DEFINE f == [p \in DOMAIN resources |-> resources[p].value]
             D == DOMAIN resources
             G == DOMAIN gpu
  <2>2. f \in Injection(D, G) /\ f \in Surjection(D, G)
    BY <2>1 DEF Injection, Surjection, IsInjective
  <2>3. Cardinality(D) = Cardinality(G)
    <3> HIDE DEF f, D, G
    <3>1. IsFiniteSet(G)
      BY <2>1 DEF G
    <3> QED BY <2>2, <3>1, FS_Injection
  <2>4. {resources[p].value : p \in DOMAIN resources} = DOMAIN gpu
    <3>1. \A h : h \in DOMAIN gpu <=> \E p \in DOMAIN resources : h = resources[p].value
      BY ONLY <2>1
    <3> QED BY ONLY <3>1, Zenon
  <2> QED BY <2>3, <2>4
<1> QED BY <1>1, HandleInvariant, PTL

=============================================================================

--------------------------- MODULE MemoryManager ---------------------------
(***************************************************************************)
(* Device memory of a PhOS worker (server/src/phos/memory): the manager    *)
(* behind cudaMalloc and the cuMem* calls, its checkpoint, and its restore *)
(* into a new process.  All calls run under the MEMORY_MANAGER mutex, so   *)
(* each is one action.  A call that returns an error leaves everything as  *)
(* it was, except where an action below says otherwise.                    *)
(*                                                                         *)
(* Addresses are relative to BASE.  Physical memory objects (what          *)
(* cuMemCreate makes) have an identity and one value as their content; the *)
(* driver's own checks on addresses are external.                          *)
(***************************************************************************)
EXTENDS Integers, FiniteSets, FiniteSetsExt, Functions

CONSTANTS Granularity,   \* of physical memory and of addresses
          RangeLen,      \* size of the address range reserved by new()
          AllocSizes,    \* sizes clients pass to cudaMalloc
          HandleSizes,   \* sizes clients pass to cuMemCreate
          Values,        \* what kernels write to memory
          NPhys,         \* bound: physical objects the GPU has room for
          MaxProxy       \* bound: largest proxy of a user handle

ASSUME MemoryAssumption ==
  /\ Granularity \in Nat \ {0} /\ RangeLen \in Nat
  /\ RangeLen % Granularity = 0
  /\ AllocSizes \subseteq Nat \ {0}
  /\ \A s \in HandleSizes : s \in Nat \ {0} /\ s % Granularity = 0
  /\ NPhys \in Nat /\ MaxProxy \in Nat

VARIABLES
  next, allocations, userHandles, \* DeviceMemoryManagerInner
  content,                        \* the GPU: physical memory and its content
  phase,                          \* of the worker process
  image,                          \* MemoryCheckpointMeta and the raw data
  saved,                          \* the state when the image was made
  reserved,                       \* address intervals the client was given
  orphaned                        \* has a mapped handle ever been released

managerVars == <<next, allocations, userHandles>>
clientVars == <<reserved, orphaned>>
vars == <<managerVars, content, phase, image, saved, clientVars>>

Owned == 0       \* the proxy of a segment that has its own handle
Junk == "junk"   \* content of memory nobody has written
None == "none"

RoundUp(size) == ((size + Granularity - 1) \div Granularity) * Granularity

Interval(p, size) == p..(p + size - 1)

Live == {allocations[p].phys : p \in DOMAIN allocations}
          \cup {userHandles[x].phys : x \in DOMAIN userHandles}
FreePhys == (1..NPhys) \ Live

\* f with x mapped to e, f without x
With(f, x, e) == [y \in DOMAIN f \cup {x} |-> IF y = x THEN e ELSE f[y]]
Without(f, x) == Restrict(f, DOMAIN f \ {x})

Running == phase \in {"running", "restored"}

(* A call of the client: the process runs, and an image made earlier is of *)
(* no further interest.                                                    *)
ClientCall ==
  /\ Running
  /\ phase' = "running" /\ image' = None /\ saved' = None

Init ==
  /\ next = 0 /\ allocations = <<>> /\ userHandles = <<>>
  /\ content = <<>> /\ phase = "running" /\ image = None /\ saved = None
  /\ reserved = {} /\ orphaned = FALSE

-----------------------------------------------------------------------------
(* Addresses: reserve_address and reserve_aligned                          *)

(* Mutant: the end of the range is not checked.                            *)
Fits_Always(size) == next <= RangeLen

Fits(size) == next + size <= RangeLen

ReserveAligned(size) == Fits(size) /\ next' = next + size

(* cuMemAddressReserve.  cuMemAddressFree does nothing.                    *)
ReserveAddress(size) ==
  /\ ClientCall
  /\ ReserveAligned(RoundUp(size))
  /\ reserved' = reserved \cup {<<next, size>>}
  /\ UNCHANGED <<allocations, userHandles, content, orphaned>>

-----------------------------------------------------------------------------
(* cudaMalloc and cudaFree                                                 *)

Allocate(size) ==
  LET len == RoundUp(size)
      ph  == Min(FreePhys)
  IN  /\ ClientCall
      /\ ReserveAligned(len)
      /\ FreePhys # {}
      /\ allocations' = With(allocations, next,
           [size |-> len, proxy |-> Owned, phys |-> ph, access |-> TRUE])
      /\ content' = With(content, ph, Junk)
      /\ reserved' = reserved \cup {<<next, size>>}
      /\ UNCHANGED <<userHandles, orphaned>>

(* The GPU has no memory left; the addresses are not given back.           *)
AllocateFails(size) ==
  /\ ClientCall
  /\ ReserveAligned(RoundUp(size))
  /\ FreePhys = {}
  /\ UNCHANGED <<allocations, userHandles, content, clientVars>>

(* The physical memory goes away with the last mapping or handle.          *)
DropUnused(alloc, handles) ==
  Restrict(content, {alloc[p].phys : p \in DOMAIN alloc}
                      \cup {handles[x].phys : x \in DOMAIN handles})

(* A client does not use an address after it has freed it.                 *)
Free(p) ==
  /\ ClientCall
  /\ p \in DOMAIN allocations
  /\ allocations' = Without(allocations, p)
  /\ content' = DropUnused(allocations', userHandles)
  /\ reserved' = IF allocations[p].proxy = Owned
                 THEN {r \in reserved : r[1] # p} ELSE reserved
  /\ UNCHANGED <<next, userHandles, orphaned>>

-----------------------------------------------------------------------------
(* User handles: cuMemCreate, cuMemMap, cuMemSetAccess, cuMemUnmap,        *)
(* cuMemRelease                                                            *)

(* Mutant: named after how many there are.                                 *)
NewProxy_Count == Cardinality(DOMAIN userHandles) + 1

NewProxy == IF DOMAIN userHandles = {} THEN 1 ELSE Max(DOMAIN userHandles) + 1

CreateUserHandle(size) ==
  LET ph == Min(FreePhys)
  IN  /\ ClientCall
      /\ FreePhys # {} /\ NewProxy <= MaxProxy
      /\ userHandles' = With(userHandles, NewProxy, [size |-> size, phys |-> ph])
      /\ content' = With(content, ph, Junk)
      /\ UNCHANGED <<next, allocations, clientVars>>

(* What the driver asks of cuMemMap: addresses from one reservation, none  *)
(* of them mapped, and no more than the handle has.                        *)
Mappable(p, size, handle) ==
  /\ p % Granularity = 0 /\ size <= handle.size
  /\ \E r \in reserved : Interval(p, size) \subseteq Interval(r[1], RoundUp(r[2]))
  /\ \A q \in DOMAIN allocations :
       Interval(p, size) \cap Interval(q, allocations[q].size) = {}

MapUserHandle(p, size, proxy) ==
  /\ ClientCall
  /\ proxy \in DOMAIN userHandles
  /\ p \notin DOMAIN allocations
  /\ Mappable(p, size, userHandles[proxy])
  /\ allocations' = With(allocations, p,
       [size |-> size, proxy |-> proxy, phys |-> userHandles[proxy].phys,
        access |-> FALSE])
  /\ UNCHANGED <<next, userHandles, content, clientVars>>

SetAccess(p) ==
  /\ ClientCall
  /\ p \in DOMAIN allocations
  /\ allocations' = [allocations EXCEPT ![p].access = TRUE]
  /\ UNCHANGED <<next, userHandles, content, clientVars>>

Unmap(p, size) ==
  /\ ClientCall
  /\ p \in DOMAIN allocations
  /\ allocations[p].proxy # Owned /\ allocations[p].size = size
  /\ allocations' = Without(allocations, p)
  /\ content' = DropUnused(allocations', userHandles)
  /\ UNCHANGED <<next, userHandles, clientVars>>

ReleaseUserHandle(proxy) ==
  /\ ClientCall
  /\ proxy \in DOMAIN userHandles
  /\ userHandles' = Without(userHandles, proxy)
  /\ content' = DropUnused(allocations, userHandles')
  /\ orphaned' = (orphaned \/ \E p \in DOMAIN allocations :
                                 allocations[p].proxy = proxy)
  /\ UNCHANGED <<next, allocations, reserved>>

(* A kernel or a copy writes through a mapping.                            *)
Write(p, v) ==
  /\ ClientCall
  /\ p \in DOMAIN allocations /\ allocations[p].access
  /\ content' = [content EXCEPT ![allocations[p].phys] = v]
  /\ UNCHANGED <<managerVars, clientVars>>

-----------------------------------------------------------------------------
(* Checkpoint and restore                                                  *)

(* Where the data of the segment at an address begins in a detach          *)
(* snapshot: the offset steps over the data of every segment below it.     *)
SliceOffset(segments) ==
  LET offset[p \in 0..RangeLen] ==
        IF p = 0 THEN 0
        ELSE offset[p - 1] + (IF p - 1 \in DOMAIN segments
                              THEN segments[p - 1].size ELSE 0)
  IN  offset

(* Where dump and restore look for the data of the segment at p: in a file *)
(* named after p, or in the snapshot.                                      *)
DataKey(where, segments, p) ==
  IF where = "disk" THEN p ELSE SliceOffset(segments)[p]

CheckpointMeta ==
  [next     |-> next,
   segments |-> [p \in DOMAIN allocations |->
                   [size |-> allocations[p].size, proxy |-> allocations[p].proxy]],
   handles  |-> [x \in DOMAIN userHandles |-> userHandles[x].size]]

DataAt(segments, where) ==
  LET at(k) == CHOOSE p \in DOMAIN segments : DataKey(where, segments, p) = k
  IN  [k \in {DataKey(where, segments, p) : p \in DOMAIN segments} |->
         content[allocations[at(k)].phys]]

(* memory::dump and memory::dump_to_slice: the metadata, then every        *)
(* segment's data.                                                         *)
Dump(where) ==
  /\ Running
  /\ \A p \in DOMAIN allocations : allocations[p].access
  /\ image' = [where |-> where, meta |-> CheckpointMeta,
               data |-> DataAt(CheckpointMeta.segments, where)]
  /\ saved' = [next |-> next, allocations |-> allocations,
               userHandles |-> userHandles, content |-> content]
  /\ phase' = "dumped"
  /\ UNCHANGED <<managerVars, content, clientVars>>

(* The copy of a segment that has been mapped and not been given access    *)
(* fails, and with it an assertion.                                        *)
DumpFails ==
  /\ Running
  /\ \E p \in DOMAIN allocations : ~allocations[p].access
  /\ phase' = "dumpFailed" /\ image' = None /\ saved' = None
  /\ UNCHANGED <<managerVars, content, clientVars>>

(* A new process, or memory::reset in a standby worker.                    *)
Reset ==
  /\ phase = "dumped"
  /\ phase' = "fresh"
  /\ next' = 0 /\ allocations' = <<>> /\ userHandles' = <<>> /\ content' = <<>>
  /\ UNCHANGED <<image, saved, clientVars>>

Rank(S, x) == Cardinality({y \in S : y <= x})

(* Physical objects: one for each user handle, in the order of their       *)
(* proxies, then one for each owned segment.                               *)
RestoredHandles(handles) ==
  [x \in DOMAIN handles |->
     [size |-> handles[x], phys |-> Rank(DOMAIN handles, x)]]

(* Mutant: every segment gets memory of its own.                           *)
RestoredSegments_Unshared(segments, handles) ==
  [p \in DOMAIN segments |->
     [size |-> segments[p].size, proxy |-> segments[p].proxy,
      phys |-> Cardinality(DOMAIN handles) + Rank(DOMAIN segments, p),
      access |-> TRUE]]

RestoredSegments(segments, handles) ==
  LET own == {p \in DOMAIN segments : segments[p].proxy = Owned}
  IN  [p \in DOMAIN segments |->
         [size |-> segments[p].size, proxy |-> segments[p].proxy,
          phys |-> IF p \in own THEN Cardinality(DOMAIN handles) + Rank(own, p)
                                ELSE handles[segments[p].proxy].phys,
          access |-> TRUE]]

(* The data is copied in the order of the segments, so the last one that   *)
(* shares a physical object decides.                                       *)
RestoredContent(segments, handles) ==
  LET mapped(ph) == {p \in DOMAIN segments : segments[p].phys = ph}
  IN  [ph \in {segments[p].phys : p \in DOMAIN segments}
                \cup {handles[x].phys : x \in DOMAIN handles} |->
         IF mapped(ph) = {} THEN Junk
         ELSE image.data[DataKey(image.where, image.meta.segments,
                                 Max(mapped(ph)))]]

(* Every segment that was borrowed names a handle of the image.            *)
HandlesPresent ==
  \A p \in DOMAIN image.meta.segments :
    image.meta.segments[p].proxy \in {Owned} \cup DOMAIN image.meta.handles

(* Mutant: addresses go on behind the last segment.                        *)
RestoredNext_AfterSegments ==
  Max({0} \cup {p + image.meta.segments[p].size : p \in DOMAIN image.meta.segments})

RestoredNext == image.meta.next

Restore ==
  /\ phase = "fresh"
  /\ HandlesPresent
  /\ next' = RestoredNext
  /\ userHandles' = RestoredHandles(image.meta.handles)
  /\ allocations' = RestoredSegments(image.meta.segments, userHandles')
  /\ content' = RestoredContent(allocations', userHandles')
  /\ phase' = "restored"
  /\ UNCHANGED <<image, saved, clientVars>>

(* CUDA_ERROR_INVALID_VALUE, on which memory::restore panics.              *)
RestoreFails ==
  /\ phase = "fresh"
  /\ ~HandlesPresent
  /\ next' = RestoredNext
  /\ phase' = "restoreFailed"
  /\ UNCHANGED <<allocations, userHandles, content, image, saved, clientVars>>

-----------------------------------------------------------------------------
Next ==
  \/ \E size \in AllocSizes :
       ReserveAddress(size) \/ Allocate(size) \/ AllocateFails(size)
  \/ \E size \in HandleSizes : CreateUserHandle(size)
  \/ \E p \in 0..(RangeLen - 1) :
       \/ Free(p) \/ SetAccess(p)
       \/ \E v \in Values : Write(p, v)
       \/ \E size \in HandleSizes :
            \/ Unmap(p, size)
            \/ \E proxy \in DOMAIN userHandles : MapUserHandle(p, size, proxy)
  \/ \E proxy \in DOMAIN userHandles : ReleaseUserHandle(proxy)
  \/ \E where \in {"disk", "slice"} : Dump(where)
  \/ DumpFails \/ Reset \/ Restore \/ RestoreFails

Spec == Init /\ [][Next]_vars

-----------------------------------------------------------------------------
(* Properties                                                              *)

(* Every variable has its type.                                            *)
TypeOK ==
  /\ next \in 0..RangeLen
  /\ DOMAIN allocations \subseteq 0..(RangeLen - 1)
  /\ \A p \in DOMAIN allocations :
       allocations[p] \in [size : 1..RangeLen, proxy : Nat, phys : 1..NPhys,
                           access : BOOLEAN]
  /\ DOMAIN userHandles \subseteq Nat \ {Owned}
  /\ \A x \in DOMAIN userHandles :
       userHandles[x] \in [size : HandleSizes, phys : 1..NPhys]
  /\ DOMAIN content = Live
  /\ \A ph \in Live : content[ph] \in Values \cup {Junk}
  /\ phase \in {"running", "dumped", "fresh", "restored", "dumpFailed",
                "restoreFailed"}
  /\ reserved \subseteq (0..RangeLen) \X AllocSizes

(* What a client can tell apart: which addresses are mapped, how far, what *)
(* is read there, which handle they came from, and which of them and of    *)
(* the handles are the same memory.                                        *)
SameView(a, h, c, b, k, d) ==
  /\ DOMAIN a = DOMAIN b /\ DOMAIN h = DOMAIN k
  /\ \A p \in DOMAIN a :
       /\ a[p].size = b[p].size /\ a[p].proxy = b[p].proxy
       /\ c[a[p].phys] = d[b[p].phys]
  /\ \A p, q \in DOMAIN a : a[p].phys = a[q].phys <=> b[p].phys = b[q].phys
  /\ \A x \in DOMAIN h :
       /\ h[x].size = k[x].size
       /\ \A p \in DOMAIN a : a[p].phys = h[x].phys <=> b[p].phys = k[x].phys

(* After a restore, from disk or from a detach snapshot, the client finds  *)
(* its memory as it left it: the same addresses, sizes, contents and       *)
(* sharing, although all physical memory is new, and the restore itself    *)
(* does not fail.  This is so for clients that never release a handle that *)
(* is still mapped: CUDA lets them, and the image then names a handle that *)
(* is not in it, or another one that has been given the same proxy.        *)
RestoreFaithful ==
  ~orphaned =>
    /\ phase # "restoreFailed"
    /\ phase = "restored" =>
         SameView(allocations, userHandles, content,
                  saved.allocations, saved.userHandles, saved.content)

(* No address is handed out twice: what cudaMalloc and cuMemAddressReserve *)
(* return overlaps nothing a client still holds, also after a restore,     *)
(* where reserved addresses that were not mapped left no segment.          *)
ReservationsDisjoint ==
  /\ \A r, s \in reserved :
       r # s => Interval(r[1], r[2]) \cap Interval(s[1], s[2]) = {}
  /\ Running => \A r \in reserved : r[1] + r[2] <= next

(* The manager can be restored as long as no mapped handle is released:    *)
(* every borrowed segment's proxy names the memory that is mapped.         *)
BorrowedBacked ==
  ~orphaned => \A p \in DOMAIN allocations :
    LET x == allocations[p].proxy
    IN  x # Owned => /\ x \in DOMAIN userHandles
                     /\ userHandles[x].phys = allocations[p].phys
=============================================================================

---------------------------- MODULE DeviceMemory ----------------------------
(***************************************************************************)
(* The runtime's two-tier device allocator (memory.cpp): slabs carved by a  *)
(* best-fit free list, large requests in a buffer of their own, the NPU's   *)
(* fixed window as a slab without a buffer, the map of live allocations,    *)
(* and the reset that gives a device's memory back. Each call holds          *)
(* g_mem_mutex throughout, so each is one action; a call that fails changes  *)
(* nothing unless an action says so. grx-sanitize is off: it would keep      *)
(* freed memory back.                                                        *)
(*                                                                         *)
(* The driver's buffers are external. Addresses count in grains, of which   *)
(* Align make what the code calls an alignment unit.                        *)
(***************************************************************************)
EXTENDS Integers, Sequences, FiniteSets

CONSTANTS
  Gpus, Npus,      \* device indices; each has an address space of its own
  Managed,         \* the devices with managedMemory
  MinAlign,        \* kMinAlign, which is also what the NPU's window keeps back
  Align,           \* alignment_for(): at least a cache line
  SlabSize,        \* slab_size()
  DirectDivisor,   \* kDirectDivisor
  NpuTotal,        \* totalGlobalMem of an NPU
  AddrEnd,         \* bound: the end of a GPU's address space
  Sizes,           \* bound: the sizes requested
  MaxLive,         \* bound: allocations at a time
  ResetWithOthers  \* whether a device may be reset while others have slabs

Devices == Gpus \cup Npus

ASSUME DevicesAssumption == Gpus \cap Npus = {} /\ Managed \subseteq Gpus
ASSUME SizesAssumption ==
  /\ MinAlign \in Nat \ {0} /\ Align \in Nat \ {0}
  /\ DirectDivisor \in Nat \ {0} /\ AddrEnd \in Nat /\ MaxLive \in Nat
  /\ SlabSize \in Nat /\ SlabSize >= DirectDivisor
  /\ NpuTotal \in Nat /\ NpuTotal > MinAlign
  /\ Sizes \subseteq Nat
ASSUME AlignAssumption == Align % MinAlign = 0
ASSUME ResetAssumption == ResetWithOthers \in BOOLEAN

VARIABLES
  slabs,    \* g_slabs
  free,     \* g_free, keyed by (slab, base)
  live,     \* g_live, keyed by (device, base)
  buffers,  \* the driver: buffers not released, by device and address
  held      \* history: the pointers the program has and may free

vars == <<slabs, free, live, buffers, held>>

NoBuffer  == <<>>
Addresses == 0 .. AddrEnd + NpuTotal
Buffers   == (Devices \X Addresses) \cup {NoBuffer}

Slabs       == [buffer : Buffers, base : Addresses, size : Nat, device : Devices, npu : BOOLEAN]
Extents     == [slab : Nat \ {0}, base : Addresses, size : Nat \ {0}]
Allocations == [device : Devices, base : Addresses, size : Nat, offset : Int, buffer : Buffers,
                direct : BOOLEAN, slab : Nat]

TypeOK ==
  /\ slabs \in Seq(Slabs)
  /\ free \subseteq Extents
  /\ live \subseteq Allocations
  /\ \A a \in live : a.base % Align = 0 /\ a.base > 0
  /\ buffers \subseteq Devices \X Addresses
  /\ held \in [Devices -> [Addresses -> Nat]]

Init ==
  /\ slabs = <<>>
  /\ free = {}
  /\ live = {}
  /\ buffers = {}
  /\ held = [d \in Devices |-> [a \in Addresses |-> 0]]

-----------------------------------------------------------------------------
(* The free list. *)

AlignUp(v) == ((v + Align - 1) \div Align) * Align

\* Mutant of InsertFree: it joins the neighbour above only.
InsertFreeUpOnly(f, base, size, slab) ==
  LET above == {x \in f : x.slab = slab /\ x.base >= base}
      next  == {x \in above : x.base = base + size /\ \A y \in above : x.base <= y.base}
  IN  (f \ next) \cup {[slab |-> slab, base |-> base,
                        size |-> size + (IF next = {} THEN 0 ELSE (CHOOSE x \in next : TRUE).size)]}

\* insert_free(): the extent, joined with the neighbours in its slab that it touches.
InsertFree(f, base, size, slab) ==
  LET above == {x \in f : x.slab = slab /\ x.base >= base}
      below == {x \in f : x.slab = slab /\ x.base < base}
      next  == {x \in above : x.base = base + size /\ \A y \in above : x.base <= y.base}
      prev  == {x \in below : x.base + x.size = base /\ \A y \in below : y.base <= x.base}
      up    == IF next = {} THEN base + size
               ELSE LET x == CHOOSE x \in next : TRUE IN x.base + x.size
      down  == IF prev = {} THEN base ELSE (CHOOSE x \in prev : TRUE).base
      rest  == {x \in f \ (next \cup prev) : x.slab # slab \/ x.base # down}
  IN  rest \cup {[slab |-> slab, base |-> down, size |-> up - down]}

\* g_slabs[i]; an index past the end reads memory that was a slab of some device.
SlabAt(sl, i, junk) ==
  IF i \in DOMAIN sl THEN sl[i]
  ELSE [buffer |-> NoBuffer, base |-> 0, size |-> 0, device |-> junk, npu |-> FALSE]

\* What such a read may find; a single value while every index is good.
Junk == IF \A x \in free : x.slab \in DOMAIN slabs THEN {CHOOSE d \in Devices : TRUE} ELSE Devices

Fits(sl, f, d, need, junk) ==
  {x \in f : SlabAt(sl, x.slab, junk).device = d /\ x.base % Align = 0 /\ x.size >= need}

\* The smallest, and the first of those in the order of the map.
BestFit(c) ==
  CHOOSE x \in c : \A y \in c :
    \/ x.size < y.size
    \/ x.size = y.size /\ (x.slab < y.slab \/ (x.slab = y.slab /\ x.base <= y.base))

\* Mutant of Carve: the rest of the extent is lost.
CarveAll(f, x, need) == f \ {x}

Carve(f, x, need) ==
  IF x.size > need THEN InsertFree(f \ {x}, x.base + need, x.size - need, x.slab) ELSE f \ {x}

-----------------------------------------------------------------------------
(* Allocation. *)

\* Mutant of Register: the map is keyed by address alone.
RegisterByAddress(a) == {b \in live : b.base # a.base} \cup {a}

\* g_live[{device, base}] = a.
Register(a) == {b \in live : b.device # a.device \/ b.base # a.base} \cup {a}

HandOut(d, base) == held' = [held EXCEPT ![d][base] = @ + 1]

\* take_best_fit() out of free list f, and the record of what it took.
Take(d, need, sl, f, junk) ==
  LET x == BestFit(Fits(sl, f, d, need, junk))
      s == SlabAt(sl, x.slab, junk)
  IN  /\ free' = Carve(f, x, need)
      /\ live' = Register([device |-> d, base |-> x.base, size |-> need, offset |-> x.base - s.base,
                           buffer |-> s.buffer, direct |-> FALSE, slab |-> x.slab])
      /\ HandOut(d, x.base)

Slice(d, need, junk) ==
  /\ Fits(slabs, free, d, need, junk) # {}
  /\ Take(d, need, slabs, free, junk)
  /\ UNCHANGED <<slabs, buffers>>

BufferSize(b) ==
  LET s == {i \in DOMAIN slabs : slabs[i].buffer = b}
  IN  IF s # {} THEN slabs[CHOOSE i \in s : TRUE].size
      ELSE (CHOOSE a \in live : a.direct /\ a.buffer = b).size

\* The driver (external): a new buffer lies apart from the others of its device,
\* at the lowest address, so that slabs are neighbours whenever they can be.
Room(d, size) ==
  {b \in Addresses \ {0} : /\ b % Align = 0 /\ b + size <= AddrEnd
                           /\ \A o \in {o \in buffers : o[1] = d} :
                                b + size <= o[2] \/ o[2] + BufferSize(o) <= b}
NewBase(d, size) == CHOOSE b \in Room(d, size) : \A c \in Room(d, size) : b <= c

\* add_slab(), and the request is carved from it. A request is never larger than
\* a slab here: from SlabSize \div DirectDivisor up it has a buffer of its own.
SliceOfNewSlab(d, need, junk) ==
  /\ Fits(slabs, free, d, need, junk) = {}
  /\ Room(d, SlabSize) # {}
  /\ LET base == NewBase(d, SlabSize)
         sl   == Append(slabs, [buffer |-> <<d, base>>, base |-> base, size |-> SlabSize,
                                device |-> d, npu |-> FALSE])
     IN  /\ slabs' = sl
         /\ buffers' = buffers \cup {<<d, base>>}
         /\ Take(d, need, sl, InsertFree(free, base, SlabSize, Len(sl)), junk)

\* The direct tier, and every physical allocation of a GPU.
Direct(d, need) ==
  /\ Room(d, need) # {}
  /\ LET base == NewBase(d, need)
     IN  /\ buffers' = buffers \cup {<<d, base>>}
         /\ live' = Register([device |-> d, base |-> base, size |-> need, offset |-> 0,
                              buffer |-> <<d, base>>, direct |-> TRUE, slab |-> 0])
         /\ HandOut(d, base)
  /\ UNCHANGED <<slabs, free>>

\* Mutant of Window: its first unit is given out, whose address is a null pointer.
WindowFromZero(d) == [buffer |-> NoBuffer, base |-> 0, size |-> NpuTotal, device |-> d, npu |-> TRUE]

\* ensure_npu_window(): the window less its first unit, as a slab without a buffer.
Window(d) ==
  [buffer |-> NoBuffer, base |-> MinAlign, size |-> NpuTotal - MinAlign, device |-> d, npu |-> TRUE]

HasWindow(d) == \E i \in DOMAIN slabs : slabs[i].npu /\ slabs[i].device = d

\* allocate_npu(): a request too large for it still leaves the window there.
NpuSlice(d, need, junk) ==
  LET sl == IF HasWindow(d) THEN slabs ELSE Append(slabs, Window(d))
      f  == IF HasWindow(d) THEN free
            ELSE InsertFree(free, Window(d).base, Window(d).size, Len(sl))
  IN  /\ slabs' = sl
      /\ IF Fits(sl, f, d, need, junk) # {}
         THEN Take(d, need, sl, f, junk)
         ELSE free' = f /\ UNCHANGED <<live, held>>
      /\ UNCHANGED buffers

\* allocate_device().
AllocateDevice(d, bytes, junk) ==
  LET need == AlignUp(bytes)
  IN  \/ d \in Npus /\ NpuSlice(d, need, junk)
      \/ d \in Gpus /\ need >= SlabSize \div DirectDivisor /\ Direct(d, need)
      \/ /\ d \in Gpus /\ need < SlabSize \div DirectDivisor
         /\ Slice(d, need, junk) \/ SliceOfNewSlab(d, need, junk)

\* The calls, on the current device d. grxMalloc and grxMallocPhysical answer a
\* request of no bytes with a null pointer; grxMallocManaged does not look.
Malloc(d, bytes, junk) ==
  /\ Cardinality(live) < MaxLive
  /\ bytes > 0
  /\ AllocateDevice(d, bytes, junk)

MallocManaged(d, bytes, junk) ==
  /\ Cardinality(live) < MaxLive
  /\ d \in Managed
  /\ AllocateDevice(d, bytes, junk)

MallocPhysical(d, bytes, junk) ==
  /\ Cardinality(live) < MaxLive
  /\ bytes > 0
  /\ \/ d \in Npus /\ NpuSlice(d, AlignUp(bytes), junk)
     \/ d \in Gpus /\ Direct(d, AlignUp(bytes))

-----------------------------------------------------------------------------
(* Giving memory back. *)

\* Mutant of Free: a buffer of its own goes to the free list's care.
FreeKeepsBuffer(d, base) ==
  /\ held[d][base] > 0
  /\ \E a \in live :
       /\ a.device = d /\ a.base = base
       /\ live' = live \ {a}
       /\ free' = IF a.direct THEN free ELSE InsertFree(free, a.base, a.size, a.slab)
  /\ held' = [held EXCEPT ![d][base] = @ - 1]
  /\ UNCHANGED <<slabs, buffers>>

\* grxFree() of a pointer the program has; any other is an error and no change.
Free(d, base) ==
  /\ held[d][base] > 0
  /\ \E a \in live :
       /\ a.device = d /\ a.base = base
       /\ live' = live \ {a}
       /\ IF a.direct
          THEN buffers' = buffers \ {a.buffer} /\ UNCHANGED free
          ELSE free' = InsertFree(free, a.base, a.size, a.slab) /\ UNCHANGED buffers
  /\ held' = [held EXCEPT ![d][base] = @ - 1]
  /\ UNCHANGED slabs

\* The elements of a sequence at the places of a set, in their order.
Pick(s, places) ==
  [k \in 1 .. Cardinality(places) |->
     s[CHOOSE i \in places : Cardinality({j \in places : j <= i}) = k]]

\* release_all_allocations(). An NPU's window goes back to the free list whole, and
\* then every slab without a buffer goes: the device's own, and any window.
Reset(d, junk) ==
  LET kept    == {x \in free : SlabAt(slabs, x.slab, junk).device # d}
      windows == {i \in DOMAIN slabs : slabs[i].npu /\ slabs[i].device = d}
      stays   == {i \in DOMAIN slabs : slabs[i].device # d /\ slabs[i].buffer # NoBuffer}
  IN  /\ ResetWithOthers \/ (d \in Gpus /\ \A i \in DOMAIN slabs : slabs[i].device = d)
      /\ live' = {a \in live : a.device # d}
      /\ free' = IF windows = {} THEN kept
                 ELSE InsertFree(kept, Window(d).base, Window(d).size, CHOOSE i \in windows : TRUE)
      /\ buffers' = buffers \ ({slabs[i].buffer : i \in {i \in DOMAIN slabs : slabs[i].device = d}}
                                 \cup {a.buffer : a \in {a \in live : a.device = d /\ a.direct}})
      /\ slabs' = Pick(slabs, stays)
      /\ held' = [held EXCEPT ![d] = [a \in Addresses |-> 0]]

-----------------------------------------------------------------------------
Next ==
  \E d \in Devices, junk \in Junk :
    \/ \E n \in Sizes : Malloc(d, n, junk) \/ MallocManaged(d, n, junk) \/ MallocPhysical(d, n, junk)
    \/ \E a \in Addresses : Free(d, a)
    \/ Reset(d, junk)

Spec == Init /\ [][Next]_vars

-----------------------------------------------------------------------------
(* What must hold. *)

In(x, g) == x.base <= g /\ g < x.base + x.size

\* Every grain of a slab is in exactly one free extent or one allocation, and they
\* have nothing outside it: carving, splitting and joining neither lose memory nor
\* give it out twice, whatever the sequence of calls.
Tiled ==
  /\ \A x \in free : x.slab \in DOMAIN slabs
  /\ \A i \in DOMAIN slabs :
       LET parts == {<<x.base, x.size>> : x \in {y \in free : y.slab = i}}
           taken == {<<a.base, a.size>> : a \in {b \in live : ~b.direct /\ b.slab = i}}
           Cover(g) == {p \in parts \cup taken : p[1] <= g /\ g < p[1] + p[2]}
       IN  /\ parts \cap taken = {}
           /\ \A g \in Addresses : Cardinality(Cover(g)) = IF In(slabs[i], g) THEN 1 ELSE 0

\* "The free list stays short because extents coalesce on release": no two extents
\* of a slab touch.
Coalesced ==
  \A x, y \in free : x.slab = y.slab => x.base + x.size # y.base

\* "No two allocations ever share a cache line": on one device they lie apart, in
\* whole units.
SharesNoLine ==
  \A a, b \in live : a.device = b.device /\ a # b =>
    a.base + AlignUp(a.size) <= b.base \/ b.base + AlignUp(b.size) <= a.base

\* "Every live allocation is registered by address range": a pointer the program was
\* given and has not freed is in the map, whatever else came or went, and on whichever
\* device the same address is in use too.
Registered ==
  \A d \in Devices, g \in Addresses :
    held[d][g] > 0 => \E a \in live : a.device = d /\ a.base = g

\* Mutant of FindLocked: the end counts as inside.
FindLockedPastEnd(d, g) ==
  LET below == {a \in live : a.device = d /\ a.base <= g}
  IN  {a \in below : (\A b \in below : b.base <= a.base) /\ g <= a.base + a.size}

\* find_locked(): the allocation with the greatest base up to g, if g is inside it.
FindLocked(d, g) ==
  LET below == {a \in live : a.device = d /\ a.base <= g}
  IN  {a \in below : (\A b \in below : b.base <= a.base) /\ g < a.base + a.size}

\* Looking only at the predecessor in the map finds whatever holds the address, and
\* the mapping it gives lies in a buffer the driver has.
FindsOwner ==
  \A d \in Devices, g \in Addresses :
    LET found == FindLocked(d, g)
    IN  /\ found = {a \in live : a.device = d /\ In(a, g)}
        /\ \A a \in found : d \in Gpus =>
             a.buffer \in buffers /\ a.buffer[2] + a.offset = a.base

\* Every driver buffer is a slab's or one direct allocation's, and theirs are alive:
\* none is leaked, none is used after its release.
BuffersOwned ==
  LET ofSlabs  == {slabs[i].buffer : i \in DOMAIN slabs} \ {NoBuffer}
      ofDirect == {a.buffer : a \in {b \in live : b.direct}}
  IN  ofSlabs \cap ofDirect = {} /\ buffers = ofSlabs \cup ofDirect

-----------------------------------------------------------------------------
(* The inductive invariant. *)

\* What the allocator's safety takes: no request of no bytes (grxMallocManaged lets one
\* through) and no reset while another device has slabs.
SafeUse == 0 \notin Sizes /\ ~ResetWithOthers

Separate(x, y) == x.base + x.size <= y.base \/ y.base + y.size <= x.base
Within(x, y)   == y.base <= x.base /\ x.base + x.size <= y.base + y.size

\* A slab is a GPU's, in a buffer of its own, or the one window of an NPU.
SlabsInv ==
  /\ \A i \in DOMAIN slabs :
       /\ slabs[i].base > 0 /\ slabs[i].size > 0 /\ slabs[i].base + slabs[i].size \in Addresses
       /\ \/ slabs[i].device \in Npus /\ slabs[i] = Window(slabs[i].device)
          \/ /\ slabs[i].device \in Gpus /\ ~slabs[i].npu
             /\ slabs[i].buffer = <<slabs[i].device, slabs[i].base>>
  /\ \A i, j \in DOMAIN slabs :
       i # j /\ slabs[i].device = slabs[j].device => Separate(slabs[i], slabs[j])

\* Free extents lie in their slabs, apart.
FreeInv ==
  /\ \A x \in free : x.slab \in DOMAIN slabs /\ Within(x, slabs[x.slab])
  /\ \A x, y \in free : x # y /\ x.slab = y.slab => Separate(x, y)

\* So do the allocations of the slab tier; a direct one has its buffer to itself.
LiveInv ==
  /\ \A a \in live :
       /\ a.size > 0
       /\ a.direct => a.device \in Gpus /\ a.buffer = <<a.device, a.base>> /\ a.offset = 0
       /\ ~a.direct => /\ a.slab \in DOMAIN slabs /\ Within(a, slabs[a.slab])
                       /\ a.device = slabs[a.slab].device /\ a.buffer = slabs[a.slab].buffer
                       /\ a.offset = a.base - slabs[a.slab].base
                       /\ \A x \in free : x.slab = a.slab => Separate(a, x)
  /\ \A a, b \in live : a # b /\ a.device = b.device => Separate(a, b)
  /\ \A a \in live, i \in DOMAIN slabs :
       a.direct /\ a.device = slabs[i].device => Separate(a, slabs[i])

\* No grain of a slab is lost.
CoverInv ==
  \A i \in DOMAIN slabs, g \in Addresses : In(slabs[i], g) =>
    \/ \E x \in free : x.slab = i /\ In(x, g)
    \/ \E a \in live : ~a.direct /\ a.slab = i /\ In(a, g)

\* The program has each pointer once, and the map has just those.
HeldInv ==
  \A d \in Devices, g \in Addresses :
    held[d][g] = IF \E a \in live : a.device = d /\ a.base = g THEN 1 ELSE 0

IInv ==
  /\ TypeOK /\ SlabsInv /\ FreeInv /\ Coalesced /\ LiveInv /\ CoverInv /\ HeldInv
  /\ BuffersOwned

=============================================================================

# A TLA+ verification of grxcp

grxcp is a CUDA-like platform for the GRX family: a host runtime
(`src/runtime/`) over the vortex2 driver, back ends for two accelerators (the
C930 NPU and the PTA, a photonic GEMM tile), libraries on top (grxBLAS, grxDNN)
and tools. This directory models the parts of it whose correctness depends on
the order in which several actors act, or on long sequences of calls, checks
them with TLC and proves the core with TLAPS. Paths below are relative to the
repository; `PROJECT.json` maps every definition to its lines.

## 1. Inventory

| Component | State | Operations | Works with |
|---|---|---|---|
| PTA module (`pta_chiplet_module.c`) | PTQ_ registers, the command in the tile, why it halted | register writes, `service()`, time, reset | host memory (ring, operands, results), the twin |
| PTA twin (`pta_chiplet_twin.c`) | tile state, its queue, calibration pending, PTA_GEMM_CT, seed, analog registers | submit, run, register window, reset | the module or the link |
| PTA driver (`pta_chiplet.cpp`) | attached, dead, next/ended, staging buffer, last index, error | attach, detach, GEMM, teardown (queue); GEMM, wait (link); detect | the module's registers and host memory |
| Device memory (`memory.cpp`) | slabs, free list, live map, pinned host memory | malloc x3, free, host malloc/free, copies, reset | driver buffers, streams, sanitizer |
| Streams, events (`stream.cpp`, `event.cpp`) | last event of each stream; target and completion of each event | create, destroy, record, wait, sync, query | driver queues and events, every call that enqueues |
| Modules (`module.cpp`) | registrations, loaded images, symbols | register, load, get function, unload, symbol copies | devices, driver modules |
| Launch (`launch.cpp`) | pushed configurations | launch x4, occupancy | modules, streams, sanitizer, profiler |
| Sanitizer (`sanitize.cpp`, `grx_sanitize_rt.cpp`) | extent map and its dirty flag, report ring | note, forget, arm, drain; device-side check | memory, launch, sync |
| Devices (`context.cpp`) | device table, current device | initialise, acquire, probe NPU/PTA | everything |
| NPU back end (`npu_c930.cpp`) | registers | GEMM, poll | grxBLAS |
| grxBLAS, grxDNN | handles, which back end | dispatch | runtime, NPU, PTA |
| Board transport simulation (`docs/designs/pta_board_transport.py`) | the link's events, the module's registers and its command, the host's ring and script | publish, ring, drain, interrupts, seed, teardown, reset; the module's callbacks | the design the PTA queue implements |
| Design studies (the other scripts of `docs/designs/`) | none | print tables | the design documents |
| Profiler, errors, tensor maps, textures, tools | little or none | formatting, validation, build-time scripts | |

Hard behaviours, and what makes each component correct:

- **PTA queue.** Two independent machines share memory and a few registers,
  with waits that run out, memory calls that fail, function-level resets and a
  module that may never answer. Correct: a GEMM that returns 0 has *its own*
  result, one that returns -1 has written nothing, a slot ends once, nothing is
  written after the queue says it has stopped or outside the driver's memory,
  no doorbell is lost, every call returns.
- **PTA link.** The same call by function call: the twin has pointers into the
  caller's memory and stack until the command ends. Correct: the same promise.
- **Board transport.** The same queue where the board has it, on a link that
  reorders lines of memory: results, records, interrupts and register answers
  overtake each other, and a teardown or a reset leaves work half done. Correct: the
  design's twelve rules, C1 to C12.
- **Streams.** CUDA's legacy ordering is rebuilt from completion events; events
  are monotonic counters; references to completion events are shared. Correct:
  the order, true answers, exact reference counts, no wait that cannot end.
- **Device memory.** Long sequences of splits and joins over several devices
  with overlapping address spaces. Correct: a slab is always tiled exactly,
  every address finds its owner, driver buffers are neither leaked nor used
  after release.
- **Modules, sanitizer** (planned): check-then-act across locks, one dirty flag
  for several devices. **Launch** (planned): 32-bit products and limits.

`PROJECT.json` lists the hazards one by one, each at its line, with the
property that would catch it or the reason none does yet.

## 2. Modules

| Module | What it is |
|---|---|
| `PtaModule` | the PTA module and the tile's scheduling; the device half, without a host |
| `GemmService` | abstract: what `pta_chiplet.h` promises of `pta_chiplet_gemm` |
| `PtaDriver` | the driver's queue transport, composed with `PtaModule`; inductive invariant and properties |
| `PtaModuleProofs` | lemmas about the module whoever its host is, shared by the next two |
| `PtaDriverProofs` | the theorems about `PtaDriver` |
| `PtaRing` | `PtaModule` under a host with several commands in flight |
| `PtaRingProofs` | the theorems about `PtaRing` |
| `PtaLink` | the driver's link transport with several holders, and the twin's whole queue |
| `BoardTransport` | the design's own simulation of host, link and module |
| `BoardTransportInv` | the inductive invariant of `BoardTransport` |
| `BoardModuleProofs` | the module's side of it: what it has on the link, counted, and the stages of its work |
| `BoardLinkProofs` | the link: the order of what the host writes and asks, the indices, the seed, the interrupt |
| `BoardTransportProofs` | statuses, results and indices; the theorems about `BoardTransport` |
| `Streams` | streams and events over external driver queues |
| `StreamsProofs` | the theorems about `Streams`, for one thread |
| `DeviceMemory` | the allocator over external driver buffers |
| `DeviceMemoryProofs` | the theorems about `DeviceMemory`, under `SafeUse` |
| `MCPtaDriver`, `MCBoardTransport`, `MCStreams`, `MCDeviceMemory` | the instances TLC checks |

### PtaModule

One variable per register or field of the module (`enable`, `base`, `tail`,
`head`, `halted`, `prev`, `cur` = `inflight_t`), `tile` for what the module can
tell of the twin, and the host memory it reads and writes: line 0 of each slot
(`slot`), whose operands a buffer holds (`opnd`), whose results (`out`). A
command is a number, a kind, AFTER_SUCCESS and a buffer; a result is the number
of the command and the index it ran under, so "the wrong result", "torn" and
"stale" are visible without arithmetic. The kinds are the outcomes the code
tells apart: fit, refused by the tile, not issued, turned away at hand-over.

`service()` runs as a loop that the C code finishes before it returns: `svc` is
set by every entry point that ends in it, and while it holds nothing else steps.
Within it the actions are the turns of the loop: `FinishOrphan`, `FinishDone`,
`FinishFailed`, `TakeFault`, `TakeAndEnd`, `TakeAndSubmit`, `ServiceEnd`.
Indices are taken modulo `IndexMod` (2^32 in the code); all arithmetic on them is
modular.

Every host-memory call may fail (at most `MaxFaults` times), or not, at whatever
address: no IOMMU confines the module (`pta_board_transport.md:115-119`). Where
the slot at PTQ_HEAD is follows from PTQ_BASE and PTQ_SIZE, as in `slot_addr`.
After a reset both are zero and every index is at address 0 until the queue is
programmed again; the line there is `low`, read by `LineAt` and written by
`WriteLine` like any other. The one assumption about the host is that what it
keeps at address 0 is not a descriptor of version 1, so that the module ends it
as NOT_ISSUED there, and moves PTQ_HEAD.

### PtaDriver

`pc` is where the driver's single thread is. Each action is the code up to the
next point at which the module's time may pass, that is up to the next register
or shared-memory access: `Check`, `Stage`, `Publish`, `Doorbell`, `PollSlot`,
`PollStatus`, the five `Td...` actions of the teardown, `Reread`, `End`. Around
it: the user (GEMM with any kind of request and either of two sizes, teardown, detach,
attach), the platform (a function-level reset at any time), another user of
page 0 (calibrations, and a new seed when the transport allows one), and a
module that may cease to hear PTQ_CTRL (`SeizeUp`), which is what `queue_dead`
is for. An attach is one action: the queue it starts is empty, so the module has
nothing to do in the middle of it, and a reset there is caught by the read-back of
ENABLED and PTQ_BASE, which leaves what a reset and a failed attach leave. The
read-back also fails on a module that is off and does not hear (`AttachUnheard`). An attach to one that is on and does not hear is left out: the
header (`pta_chiplet.h:243-244`) has only a reset bring such a module back.

`GemmService` has one variable per thing the caller sees. `PtaDriver`
implements it under `busy <- InCall`, `Untouched <- NoResult`.

### PtaRing

The same module under the host of `test_pta_chiplet_queue.cc`: it fills the
ring, rings once for several commands, asks AFTER_SUCCESS, rings nonsense and
tears down. A buffer is used again as soon as its command has ended. It starts
at an index just below the wrap. `log` and `handed` are history.

### PtaLink

A holder's call is `Gemm`, `Poll` until idle, `Submit`, `Poll` again, `End`;
every poll is one read of PTA_STATUS. The tile is `state`, `cur`, the queue `q`
and the pending calibration; `StartNext` is `start_next`, which ends the
commands it refuses on its way to one that runs. `C` and `status` are indexed by
holder and written by the tile through the command, whether or not the call is
still there: that is what the pointers do.

### BoardTransport

Translated from section 6 of `pta_board_transport.py` (`Sim`, `Module`, `Host`).
`m` has the module's fields under their names, `g` what its callbacks capture of
the command they are on, `h` the host's fields, `cmd` and `ended` its tables,
and `slot` and `res` host memory. What the simulation sends in exactly `L` ticks
keeps its order: posted writes, GOs and read data to the module are one sequence
(`io`), answers and interrupts to the host another (`up`). Lines take up to
`JITTER` more and are a set (`wire`), any of which may be next, so every order
the random draws can give is explored, and more. Each action is one callback
(`Arrive`, `Shot`, `Land`, `AtHost`) or the host up to its next `yield`.
Simplifications: the three ring registers cross as one message, the lines of a
GEMM's operands as one read; T_WAIT and T_QUIESCE, which are longer than
anything the module still has to do, run out only when nothing is moving
(`Quiet`); a result is the pair of seed and index it was computed under. The
fixed script of the simulation becomes a script from `Scripts`, with a seed
change whenever the ring is drained and a teardown at any time; the simulation's
Boolean `slack` of rule C4 is therefore a count of teardowns (`tears`). The
faults the simulation injects on purpose are the mutants.

`publish` waits for room in a loop that counts nothing (`:618-621`). A command of
a script therefore says what the script does when it comes to it with the ring
full: drain first, or go on to publish (`room`). In the second case the host is
`Publishing`: it may end the slot it waits for or look again (`WaitRoom`), and
nothing else. Behind a module that has wedged it stays there, although the design
says that "The driver bounds every wait" (`pta_board_transport.md:305`) and so
does the docstring of `Host` (`:561`). `EveryCommandEnds` names this as its
one exception, `NoRoomComing`. The simulation's own script wedges the module
with three of eight slots in use, and so does not meet it.

### Streams

A call that enqueues is four steps, one per critical section: begin
(`resolve_stream`), `Collect` (`collect_wait_events`), `Enqueue`,
`SetLast` (`set_stream_last_event`), with `Store` between the last two for a
record. `DeviceSynchronize` collects the queues and then finishes them one by one. Kernels, copies and fills go through the same steps and are `Work`. The driver is
external: a queue per stream, run in order, each command when its wait list is
done and, for a wait, when the event's counter has reached the target; a signal
never lowers the counter. A command and its completion event share a number.
`after` and `rec` in a command are history: what it must follow, and the record
it is a wait for. Events exist from the start and are destroyed at most once.

### DeviceMemory

`slabs` is a sequence because the code refers to slabs by index; `free` and
`live` are maps with the code's keys, as sets of records, and an insertion
replaces the record with the same key as the C++ maps do. Each call holds
`g_mem_mutex` throughout and is one action. An index past the end of `slabs`
(possible only after a reset with other devices in use) reads a slab of any
device. `held` is history: the pointers the program has. Addresses count in
grains, `Align` of which are an alignment unit, so rounding is visible; `MinAlign`
is `kMinAlign`, which the NPU's window keeps back at its base.

## 3. Runs

| Run | Shows |
|---|---|
| `driver` | the call keeps its promise, slots end once, nothing written after ENABLED reads 0, nor outside the driver's memory unless a reset has sent the queue to address 0; no doorbell lost; no slot left pending until the module has ended a command at address 0; and that `IInv` holds, before it is proved inductive |
| `driver_live` | the promise and the slots with a module that may stop hearing PTQ_CTRL or never end anything, and every GEMM call returns |
| `ring` | records behind PTQ_HEAD, DONE means results, statuses are final, commands run in order, AFTER_SUCCESS, and every published command ends; `IInv` as above |
| `transport` | the design's rules C1 to C12, on a link that reorders lines, with teardowns, seed changes and a module that wedges and is reset; every command ends, but behind a wedged module with a full ring; `IInv` as above |
| `streams` | legacy order, waits, answers, references, synchronisation, and every call returns, from one thread; `IInv` as above |
| `memory` | slabs tiled and coalesced, pointers registered, lookups right, buffers owned; `IInv` as above |
| `detach` (violation) | `pta_chiplet_detach_queue` frees memory a module that did not stop still writes |
| `reset` (violation) | after a function-level reset the driver enables the queue without programming it: the module ends a command at address 0, PTQ_HEAD moves, and the next teardown leaves the driver's slot pending |
| `link` (violation) | a GEMM over the link that runs out of polls returns -1, and the tile writes C afterwards |
| `streams_rerecord` (violation) | a wait is let through by a later record of its event on another stream |
| `memory_reset` (violation) | resetting one device drops another's NPU window, whose memory is then given out twice |
| `memory_zero` (violation) | `grxMallocManaged` of no bytes aliases the next allocation |

The six violations are disagreements between the code and its own documents or
comments; `PROJECT.json` quotes the lines.

**Bounds.** *PTA driver:* two calls, since what can go wrong between calls is
what one abandoned call leaves to the next; a ring of two slots and four indices
in `driver`, of one slot and two indices, so that a reused slot and the wrap
both happen, in `driver_live`; two buffers in `driver`, so that a staging
buffer can move and can come back at the old address; two polls, so that a wait
is passed, repeated and run out; one fault and one reset at any point.
`NoneLeftPending` is checked with fewer calls than indices (`reset` shows what its
exception, `EndedElsewhere`, hides): when `dev->next` has
wrapped to exactly 0, the PTQ_HEAD of 0 after a reset looks like one of the
driver's own and the pending slot stays pending (a hazard in the list; the
caller is told LOST all the same). *Ring:* three commands in two slots reuse a
slot; indices start at 3 of 4 and wrap. *Transport:* six scripts of four
commands on a ring of two slots: every kind of command, polled and by interrupt,
each behind a success and behind a failure, two that publish into a full ring,
three with a module that wedges, one of them behind a full ring; one seed change
and two teardowns at any time. *Link:* two holders, two calls each,
a queue of one, a calibration and a reset; two polls. *Streams:* three commands, of which a
record, a wait and a re-record are the least that show every rule, on two
blocking streams, one non-blocking and the null stream, and one destroyed
handle. *Memory:* two adjacent slabs of four units each, three request sizes
(one unit, two, and a direct one), an NPU window whose size is no multiple of
the unit, four allocations at a time. The direct tier starts at a whole slab
there (`DirectDivisor` 1 where the code has 4), so that one slab can hold
requests of different sizes. The `memory` run resets a GPU only while no other
device has a slab; what happens otherwise is `memory_reset`, which uses a GPU
without memory so that the trace is one the code takes without reading past the
end of `g_slabs`. Sizes of zero are in `memory_zero` only.

`ring`, `link` and `streams` turn TLC's deadlock check off: in the first two the
bounds end all inputs, and in the last a deadlock is a thread stuck in a call,
which `CallsReturn` excludes. All others check it; `transport` ends in `Done`,
the host's `finish`, or turns in `WaitRoom`; stuck anywhere else it would be
reported.

**Fairness.** `driver_live` assumes only that the driver's thread runs and that
`service()` returns; nothing about the tile's time, memory or answers, because
every wait in the driver is counted. The driver's fairness is strong: the module
may enter `service()` again and again, which delays a register access and never
blocks it for good. `ring` adds what its claim is about: time passes in the
tile, and the host rings for what it put and recovers a halted queue.
`transport` assumes that what was sent arrives, line by line, that the module's
callbacks run and that the host's script goes on, as the simulation's event
queue guarantees; not that the host publishes, changes the seed or tears down.
From the script it drains in the end, unless it is in the loop of `publish`.
`streams` assumes that the host's threads run and that every driver queue has a
worker, which is what an infinite timeout in `vx_queue_finish` rests on.

## 4. Proofs

A run checks each inductive invariant (`IInv`) on a small instance; the theorems
hold for every value of the constants that satisfies the named assumptions of
the modules. There is one lemma per action, and a step of Next is their
disjunction; action properties are read off the invariant and the action.

### PtaDriver

For every ring size and index range, every number of buffers, calls, polls,
faults and resets, with a module that may or may not seize up:

| Theorem | Statement |
|---|---|
| `TypeCorrect` | `Spec => []TypeOK` |
| `Invariance` | `Spec => [](TypeOK /\ IInv)` |
| `Refinement` | `Spec => KeepsPromise`: the driver implements `GemmService` |
| `Stops` | `Spec => StopsWriting` |
| `SlotsEndOnce` | `Spec => EndsOnce` |
| `NoDoorbellLost` | `Spec => []NothingStranded` |
| `OwnsWhatIsWritten` | `~MaySeizeUp => (Spec => WritesOwnedMemory)` |
| `SlotsAllEnd` | `MaxCalls < IndexMod => (Spec => []NoneLeftPending)` |

The assumptions: at least two indices, a ring no larger than the index range,
bounds that are naturals, at least one poll. `OwnsWhatIsWritten` needs a module
that hears PTQ_CTRL: without it the property is false, which is the `detach`
run. It says that nothing of the ring or of a staging buffer is written that the
driver does not hold, and that the line at address 0 is written only once there
has been a reset. `SlotsAllEnd` needs fewer calls than indices: with as many, TLC
finds the pending slot that the hazard at `pta_chiplet.cpp:307` describes. It
holds for all faults, halts, waits that run out and resets up to the point where
the module ends a command at address 0 (`EndedElsewhere`); beyond it the code
does leave a slot pending, which is the `reset` run.

The argument. "C is this call's result" is not inductive: one must know that
nothing else can write the staging buffer, now or later. `IInv` says at each
point of the driver who may do what to which slot. `TileHolds` ties the module's
command to the tile: it is pending exactly while the tile has it, and `TileInv`
adds that it runs under the index noted at hand-over. `RingInv`: what the module
may still write is the single pending slot at PTQ_HEAD. `QuietInv`: before the
driver rings, an enabled queue is empty and any command left in the tile is an
orphan, whose results are dropped. `PublishedInv`: after it rings, the only slot
in play is its own, and a DONE there means its results are in place. `PcInv` is
the driver's own bookkeeping. The refinement then looks only at `End` and the
early returns; `EndsOnce` and `StopsWriting` follow from lemmas that say which
actions write what (`WhoWrites`, `WhatItWrites`). `NothingStranded` and
`WritesOwnedMemory` need a further inductive fact each (`Waiting`, `Heard`).
`NoneLeftPending` needs two: `CountInv` (`dev->next` counts the calls published,
so it does not come round) and `EndedInv` (PTQ_HEAD is at most `dev->next`, and
equal to it only when the call's slot has ended; hence a reset's PTQ_HEAD of 0
is short of `dev->next`, and the teardown ends the slot). `EndedInv` is claimed
only while not `EndedElsewhere`: a record at address 0 moves PTQ_HEAD and ends no
slot.

### PtaRing

For every ring and index range, first index, number of commands, faults, resets,
doorbells and calibrations:

| Theorem | Statement |
|---|---|
| `RingInvariance` | `Spec => []IInv` |
| `EndedBehindHead` | `Spec => []HeadSaysEnded` |
| `ResultsBeforeDone` | `Spec => []DoneMeansResults` |
| `EndsOnlyOnce` | `Spec => StatusIsFinal` |
| `HandedInOrder` | `Spec => RunsInOrder` |
| `FollowsSuccess` | `Spec => AfterSuccess` |

The assumptions: as many buffers as slots, and a ring that is smaller than the
index range and divides it (`RingDividesAssumption`; in the code both are powers
of two). Without the second, the slot of an index would jump at the wrap.

The argument. A slot is found from an index modulo the ring, and indices wrap;
what is ordered is the number of the command. `SlotsInv` says which command each
slot has, by its distance from the host's next index, and that those from
PTQ_HEAD on are the pending ones; `CurInv`, that the module's command is the one
at PTQ_HEAD unless a disable made it an orphan; `LogInv`, `HandedInv` and
`PrevInv`, how the history relates to the slots and to PTQ_HEAD. That the host always finds a
free buffer is the pigeonhole principle, from `FiniteSetTheorems`.

### Streams

Under `ASSUME OneThread` (the API's contract), for any number of streams, events
and commands:

| Theorem | Statement |
|---|---|
| `StreamsInvariance` | `Spec => []IInv` |
| `LegacyOrderHolds` | `Spec => []LegacyOrder` |
| `WaitsForRecord` | `Spec => []WaitsUnlessOvertaken` |
| `AnswersTrue` | `Spec => []AnswersAreTrue` |
| `ExactReferences` | `Spec => []RefsExact` |
| `SyncsWait` | `Spec => SyncsMeanDone` |

The argument. `LegacyOrder` speaks of commands that have run; what makes it so
is in the wait lists. `WaitsInv`: each command that must come before another has
run, or the other's wait list has a command of its stream that is not earlier.
`QueueInv`: a stream's commands run in order. `LastInv`: while a stream has
something left to run, its last event is not earlier, so waiting for it is
waiting for all. `CallInv` carries both through a call that is between two
critical sections, where with one thread nobody else enqueues; with two threads
this conjunct fails, as section 5 says. `RecordInv` relates the counter of an
event, its target and its records, done and queued. `RefsInv` counts: the
references of a completion event are the cardinality of the set of its holders,
and one more while a call has it in hand.

### DeviceMemory

Under `ASSUME SafeUse` (no request of no bytes; only a GPU is reset, and only
while no other device has a slab), for any devices, slab, request and window
sizes and alignment:

| Theorem | Statement |
|---|---|
| `MemoryInvariance` | `Spec => []IInv` |
| `MemoryTiled` | `Spec => []Tiled` |
| `FreeListCoalesced` | `Spec => []Coalesced` |
| `PointersRegistered` | `Spec => []Registered` |
| `AddressFindsOwner` | `Spec => []FindsOwner` |
| `BuffersHaveOwners` | `Spec => []BuffersOwned` |
| `LinesNotShared` | `Spec => []SharesNoLine` |

`SafeUse` is what the code needs and does not enforce: `memory_reset` and
`memory_zero` drop one half each and are violated.

The argument. `CoverInv` says that each grain of a slab is in a free extent or
an allocation of that slab, `FreeInv` and `LiveInv` that these lie apart. A
lemma about `InsertFree` says what it does to the free pieces of a slab,
whichever of the two neighbours it joins (`InsertShape`, `InsertKeeps`: they
cover the old ones and the new range, and none touch), and `CarveFront` the same
of a split; the actions are compositions of the two. `SlabsInv` keeps the slabs
of one device apart and says whose buffer each has, and `HeldInv` relates the
map to the pointers the program has. `LinesNotShared` needs one more inductive
fact, `WholeUnits`: an allocation's size is a whole number of units, which is
what rounding up in `allocate_device` is for.

### BoardTransport

For any ring size, scripts, and numbers of seed changes and teardowns; the one
assumption is `TransportAssumption`, which says what these constants are:

| Theorem | Statement | Rules of the design |
|---|---|---|
| `BoardInvariance` | `Spec => []IInv` | |
| `BoardResults` | `Spec => []ResultsMatchStatus` | C1, C2 |
| `BoardEnds` | `Spec => []EndsAsDue` | C3, C7, C10 |
| `BoardIndices` | `Spec => []IndexOrder` | C4 |
| `BoardNeverAhead` | `Spec => []NeverAhead` | C5, C6 |
| `BoardEndedUntouched` | `Spec => []NothingLandsOnEnded` | C9 |
| `BoardSeedWhenDrained` | `Spec => []ConfigWhenDrained` | C11 |
| `BoardTimeouts` | `Spec => OnlyWedgedTimesOut` | C12 |

The argument. The rules speak of slots, results and registers; what makes them
true is what may still be on the link. `IInv` has sixteen parts beside the types.

- *The link.* `OrderInv`: what may follow what among the host's writes, and that
  doorbells grow. `AskedInv`: the host has one question out at most, and its
  answer is still true when it is read. `StartInv`: behind a queue started again,
  registers come before the enable and doorbells after it. `QuietInv`: a wait
  that ran out finds nothing moving, and a module that is not stopped by then is
  wedged; so a reset finds nothing of the old generation on the link.
- *The module.* `JobInv`: what it sent is of its generation, and of the command it
  is on or, while it stops, of one it dropped. `ErrandInv`: each line of results,
  record or read is out once at most, on the wire or on its way back, and
  `inflight` counts them. `StageInv`: it is in one of seven stages of its work.
- *The ring.* `ReadInv`: a read finds the command of PTQ_HEAD's index. `IndexInv`:
  the indices of both sides are in order. `CmdInv`: which command each slot has
  and how it is due to end.
- *What memory says.* `StatusInv`: a status in a slot, or on its way to one, is
  true, and what the module is still to write is for a pending command.
  `ResultInv`: results not yet started on are clean, and those of the running
  GEMM are clean or its own, line by line. `EndedInv`: the same of what the host
  has recorded as ended.
- *The seed, the interrupt, the count.* `SeedInv`: while a seed is on its way the
  module has nothing to do. `MsiInv`: one interrupt for each time it is asked for,
  and none for an index it has not reached. `CountInv`: the module's count of
  GEMMs is what the next index may be, one teardown being good for one index.

There is a lemma for each part and each kind of step. The arrivals (`Arrive`)
are the bulk: `ArriveSteps` splits them into some twenty kinds, by the message
and by the stage of the module, and every part of the invariant is shown on
each. `BoardTimeouts` is then read off the actions that count a time-out or send
the reset: they are enabled only when nothing moves, and by `StageInv`, `IndexInv`
and `MsiInv` a module that is not wedged and has not ended what the host waits
for has something on its way.

**Only model-checked:** liveness (`CallReturns`, `EveryCommandEnds` of `ring` and
of `transport`, `CallsReturn`), which is out of the prover's reach. `PtaLink` has
only the run that shows its property violated, so there is nothing to prove of
it. Every other property of a passing run is stated by a theorem.

## 5. Not modelled

- The PTA's arithmetic (noise, saturation, calibration) and activation stage;
  MSI-X vectors, PTQ_IRQ_AT and PTQ_FAULT_AT of the C model, which the driver
  never reads (`transport` has the interrupts of the design); detection, which
  only reads registers.
- The Python under `docs/designs/` but for the transport. These are about fifty
  scripts, most of the repository's Python, that print the tables of the design
  documents: literals of measurements and of the literature, floating-point
  budgets, fits, Monte Carlo runs. They have no state, no concurrency and nothing
  calls them; a model of a table of reals would restate it, and TLC has no reals.
  The program proper is C and C++, and the one Python script that is a machine,
  the transport, is modelled. Four more hold a discrete algorithm (see the plan).
- Streams on several devices, event timing, priorities, and the device-wide
  syncs that grx-prof and grx-sanitize put around a launch. The API's contract
  is one host thread (`include/grx/grx_runtime.h`), and so has the run;
  `Threads` with two elements shows `LegacyOrder` violated, since a lock around
  each step does not make the call one step.
- Pinned host memory, the copy calls' direction checks, and the allocator under
  grx-sanitize.
- Modules, sanitizer, launch geometry, NPU back end, grxBLAS, grxDNN: see the
  plan. Profiler, error codes, tensor maps, textures, tools and design scripts
  keep no state worth a model.

## 6. Plan

In order of importance; the first six are done.

1. `PtaModule`, `GemmService`, `PtaDriver`, `PtaDriverProofs`: the queue transport.
2. `PtaRing`: the module under a busy host.
3. `Streams`.
4. `DeviceMemory`.
5. `BoardTransport`: the design the queue implements, on a link that reorders.
6. `PtaLink`: the link path of `pta_chiplet_gemm`.
7. `SanitizerMap`: the extent map keyed by address alone, its one dirty flag for
   several devices, and the report ring.
8. `ModuleRegistry`: registration, lazy loading, symbols, unload.
9. `LaunchGeometry`: argument packing, 32-bit limits and occupancy as operators
   against reference definitions; with it the discrete studies
   (`pta_bank_policy.py` against the optimal replacement, `pta_gpu_sched.py`,
   `pta_feed_model.py`, `pta_tw_sweep.py`).
10. `NpuDriver`, then the dispatch of grxBLAS over both back ends.

Abstract specifications worth stating next: a device memory that is a set of
disjoint ranges, implemented by `DeviceMemory`; a partial order of commands,
implemented by `Streams`. Theorems next: those two refinements, and
`BoardTransport` as an implementation of the same kind of promise `GemmService`
states of the driver, for many commands in flight.

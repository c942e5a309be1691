------------------------------ MODULE PtaModule ------------------------------
(***************************************************************************)
(* The first board's PTA module (pta_chiplet_module.c): a queue of GEMM    *)
(* descriptors in host memory, in front of the tile (pta_chiplet_twin.c).  *)
(* The module's registers, the command it has in the tile, the tile's own  *)
(* scheduling state, and the host memory the module reads and writes.      *)
(*                                                                         *)
(* This module has no Init and no Next: it is the device half, and a       *)
(* specification that EXTENDS it supplies the host (PtaDriver: the driver; *)
(* PtaRing: a host that keeps several commands in flight).                 *)
(*                                                                         *)
(* Every entry point that ends in service() sets svc, and while svc holds  *)
(* only the service loop may step: the C code runs the loop to its end     *)
(* before it returns to its caller.                                        *)
(***************************************************************************)
EXTENDS Integers

CONSTANTS
  IndexMod,   \* how many free-running indices there are: 2^32 in the code
  RingSize,   \* slots in the ring: 2^PTQ_SIZE
  Addrs,      \* addresses of operand/result buffers in host memory
  NoAddr,     \* no buffer
  MaxFaults,  \* bound: host-memory calls that fail
  MaxResets   \* bound: function-level resets

ASSUME IndexModAssumption == IndexMod \in Nat /\ IndexMod > 1
ASSUME RingSizeAssumption == RingSize \in 1 .. IndexMod
ASSUME NoAddrAssumption   == NoAddr \notin Addrs
ASSUME BoundAssumption    == MaxFaults \in Nat /\ MaxResets \in Nat

VARIABLES
  enable,   \* PTQ_CTRL.ENABLE, and with it PTQ_STATUS.ENABLED
  base,     \* PTQ_BASE and PTQ_SIZE: "ring" as the host programmed them, or "zero"
  tail,     \* PTQ_TAIL
  head,     \* PTQ_HEAD
  halted,   \* "no", or why the queue halted
  prev,     \* how the last command since ENABLE ended
  cur,      \* the command in the tile (inflight_t)
  tile,     \* the twin's scheduling state
  svc,      \* the module is inside service()
  slot,     \* host memory: line 0 of each slot of the ring
  low,      \* the line at address 0, which is nobody's ring
  opnd,     \* host memory: whose operands a buffer holds
  out,      \* host memory: whose results a buffer holds
  faults,   \* host-memory calls that have failed
  resets    \* function-level resets so far

regVars  == <<enable, base, tail, head, halted, prev>>
memVars  == <<slot, low, opnd, out>>
modVars  == <<enable, base, tail, head, halted, prev, cur, tile, svc, slot,
              low, opnd, out, faults, resets>>

-----------------------------------------------------------------------------
(* Values. *)

Indices == 0 .. IndexMod - 1
NoIndex == -1                       \* PTA_MODULE_NO_INDEX
NoId    == 0                        \* nobody's operands or results

\* What the descriptor asks, as far as anyone's decision depends on it:
\* "malformed" is everything take() ends NOT ISSUED before the tile sees it,
\* "wide" what pta_twin_submit turns away or the module has no memory for, and
\* "unfit" what the tile refuses.
Kinds == {"fit", "unfit", "malformed", "wide"}

Statuses == {"PENDING", "DONE", "REFUSED", "LOST", "NOT_ISSUED", "NOT_RUN"}
Results  == [id : Nat, index : Indices \cup {NoIndex}]
NoResult == [id |-> NoId, index |-> NoIndex]
Torn     == [id |-> NoId, index |-> 0]   \* some lines of a result, not all

\* A descriptor: whose command it is, what it asks, AFTER_SUCCESS, its buffers.
\* A slot of zeros is one too, of a version the module does not know.
Commands  == [id : Nat, kind : Kinds, after : BOOLEAN, buf : Addrs \cup {NoAddr}]
NoCommand == [id |-> NoId, kind |-> "malformed", after |-> FALSE, buf |-> NoAddr]
ZeroSlot  == [cmd |-> NoCommand, status |-> "PENDING", index |-> 0]
Slots     == [cmd : Commands, status : Statuses, index : Indices \cup {NoIndex}]

\* inflight_t. "ops" is the operands as read, "index" PTA_GEMM_CT at hand-over,
\* and "ran" the index the tile derived the GEMM's seed from.
Inflight == [live : BOOLEAN, orphan : BOOLEAN, idx : Indices, cmd : Commands,
             ops : Nat, index : Indices, ran : Indices \cup {NoIndex},
             status : {"PENDING", "DONE", "REFUSED", "LOST"}]

NoInflight == [live |-> FALSE, orphan |-> FALSE, idx |-> 0, cmd |-> NoCommand,
               ops |-> NoId, index |-> 0, ran |-> NoIndex, status |-> "PENDING"]

TileStates == [state : {"IDLE", "GEMM", "CAL"}, calPending : BOOLEAN,
               queued : BOOLEAN, gemmCt : Indices]
IdleTile   == [state |-> "IDLE", calPending |-> FALSE, queued |-> FALSE, gemmCt |-> 0]

-----------------------------------------------------------------------------
(* Free-running 32-bit indices. *)

\* Mutant of Inc: an index that is not taken modulo 2^32.
IncNoWrap(i) == i + 1

\* i + 1, a - b and idx & (2^n - 1) of uint32_t operands.
Inc(i)     == IF i = IndexMod - 1 THEN 0 ELSE i + 1
Dist(a, b) == IF a >= b THEN a - b ELSE a - b + IndexMod
SlotOf(i)  == i % RingSize

\* Mutant of SlotsBetween: one short.
SlotsShort(a, b) == {SlotOf(i) : i \in {k \in Indices : Dist(k, a) + 1 < Dist(b, a)}}

\* Slots of the indices a .. b-1, mod 2^32.
SlotsBetween(a, b) == {SlotOf(i) : i \in {k \in Indices : Dist(k, a) < Dist(b, a)}}

-----------------------------------------------------------------------------
(* Host memory. A call may fail, or not, at whatever address: nothing      *)
(* confines the module. Where the slot at PTQ_HEAD is read and written     *)
(* follows from PTQ_BASE and PTQ_SIZE; both zero, every index is at        *)
(* address 0. What the host keeps there is not a descriptor of version 1,  *)
(* which is what a slot of zeros stands for.                               *)

CanFail  == faults < MaxFaults
MemCalls == {TRUE} \cup (IF CanFail THEN {FALSE} ELSE {})

CountFault == faults' = faults + 1

\* The line slot_addr() gives for an index.
LineAt(i) == IF base = "ring" THEN slot[SlotOf(i)] ELSE low

\* write_line() to it.
WriteLine(i, line) ==
  \/ base = "ring" /\ slot' = [slot EXCEPT ![SlotOf(i)] = line] /\ low' = low
  \/ base = "zero" /\ low' = line /\ slot' = slot

\* halt(): PTQ_FAULT_AT is not kept, nothing reads it back into a decision.
Halt(why) == halted' = why

\* Mutant of Record: PTQ_HEAD moves although the record could not be written.
RecordHeadAnyway(idx, cmd, st, ix) ==
  \E ok \in MemCalls :
    /\ head' = Inc(idx)
    /\ prev' = st
    /\ \/ /\ ok
          /\ WriteLine(idx, [cmd |-> cmd, status |-> st, index |-> ix])
          /\ UNCHANGED <<halted, faults>>
       \/ ~ok /\ Halt("MEMORY") /\ CountFault /\ UNCHANGED <<slot, low>>

\* record(): the slot's line rewritten whole, then PTQ_HEAD, then how it ended.
Record(idx, cmd, st, ix) ==
  \E ok \in MemCalls :
    \/ /\ ok
       /\ WriteLine(idx, [cmd |-> cmd, status |-> st, index |-> ix])
       /\ head' = Inc(idx)
       /\ prev' = st
       /\ UNCHANGED <<halted, faults>>
    \/ /\ ~ok
       /\ Halt("MEMORY")
       /\ CountFault
       /\ UNCHANGED <<slot, low, head, prev>>

-----------------------------------------------------------------------------
(* The tile, as the module drives it: at most the module's one command.    *)

\* gemm_begin(): refuse the command, or take the tile and the next index.
GemmBegin(f) ==
  \/ /\ f.cmd.kind = "unfit"
     /\ cur'  = [f EXCEPT !.status = "REFUSED"]
     /\ tile' = [tile EXCEPT !.state = "IDLE", !.queued = FALSE]
  \/ /\ f.cmd.kind # "unfit"
     /\ cur'  = [f EXCEPT !.ran = tile.gemmCt]
     /\ tile' = [tile EXCEPT !.state = "GEMM", !.queued = FALSE, !.gemmCt = Inc(@)]

\* pta_twin_submit() of a command it takes: into a free tile, or behind a
\* calibration.
Submit(f) ==
  \/ /\ tile.state = "IDLE" /\ ~tile.calPending
     /\ GemmBegin(f)
  \/ /\ tile.state # "IDLE" \/ tile.calPending
     /\ cur'  = f
     /\ tile' = [tile EXCEPT !.queued = TRUE]

-----------------------------------------------------------------------------
(* service(): end what the tile has ended, then take slots until one is in *)
(* the tile or none is left.                                               *)

FinishReady == svc /\ cur.live /\ cur.status # "PENDING"

\* finish() of a command a teardown dropped: nothing of it is written.
FinishOrphan ==
  /\ FinishReady
  /\ cur.orphan
  /\ cur' = NoInflight
  /\ UNCHANGED <<regVars, memVars, tile, svc, faults, resets>>

\* Mutant of FinishDone: PTA_MODULE_ABLATE_RECORD_FIRST, the record before the results.
FinishRecordFirst ==
  /\ FinishReady
  /\ ~cur.orphan
  /\ cur.status = "DONE"
  /\ cur' = NoInflight
  /\ Record(cur.idx, cur.cmd, "DONE", cur.index)
  /\ out' \in {[out EXCEPT ![cur.cmd.buf] = [id |-> cur.ops, index |-> cur.ran]],
              IF CanFail THEN [out EXCEPT ![cur.cmd.buf] = Torn] ELSE out}
  /\ UNCHANGED <<enable, base, tail, opnd, tile, svc, resets>>

\* finish() of a command that ran: the results, and only then the record. A
\* fault among the lines of the results leaves those before it written.
FinishDone ==
  /\ FinishReady
  /\ ~cur.orphan
  /\ cur.status = "DONE"
  /\ cur' = NoInflight
  /\ \E ok \in MemCalls :
       \/ /\ ok
          /\ out' = [out EXCEPT ![cur.cmd.buf] = [id |-> cur.ops, index |-> cur.ran]]
          /\ Record(cur.idx, cur.cmd, "DONE", cur.index)
       \/ /\ ~ok
          /\ out' \in {out, [out EXCEPT ![cur.cmd.buf] = Torn]}
          /\ Halt("MEMORY")
          /\ CountFault
          /\ UNCHANGED <<slot, low, head, prev>>
  /\ UNCHANGED <<enable, base, tail, opnd, tile, svc, resets>>

\* finish() of a command the tile refused, or a reset of the tile discarded.
FinishFailed ==
  /\ FinishReady
  /\ ~cur.orphan
  /\ cur.status # "DONE"
  /\ cur' = NoInflight
  /\ Record(cur.idx, cur.cmd, cur.status, NoIndex)
  /\ UNCHANGED <<enable, base, tail, opnd, out, tile, svc, resets>>

TakeReady == svc /\ ~cur.live /\ enable /\ halted = "no" /\ head # tail

\* take(): the slot cannot be read, or its operands cannot.
TakeFault ==
  /\ TakeReady
  /\ CanFail
  /\ Halt("MEMORY")
  /\ CountFault
  /\ UNCHANGED <<enable, base, tail, head, prev, cur, tile, svc, memVars, resets>>

\* Mutant of MustNotRun: PTA_MODULE_ABLATE_AFTER_SUCCESS.
RunsRegardless(cmd) == FALSE

\* The command asked to follow a success, and the one before it was none.
MustNotRun(cmd) == cmd.after /\ prev \notin {"PENDING", "DONE"}

\* take(): ended before the tile has it. A "wide" command is turned away only
\* when it is handed over, after AFTER_SUCCESS has been looked at.
TakeAndEnd ==
  /\ TakeReady
  /\ LET cmd == LineAt(head).cmd
     IN  \/ /\ cmd.kind = "malformed"
            /\ Record(head, cmd, "NOT_ISSUED", NoIndex)
         \/ /\ cmd.kind # "malformed"
            /\ MustNotRun(cmd)
            /\ Record(head, cmd, "NOT_RUN", NoIndex)
         \/ /\ cmd.kind = "wide"
            /\ ~MustNotRun(cmd)
            /\ Record(head, cmd, "NOT_ISSUED", NoIndex)
  /\ UNCHANGED <<enable, base, tail, opnd, out, cur, tile, svc, resets>>

\* take(): the operands read, PTA_GEMM_CT noted, the command handed over.
TakeAndSubmit ==
  /\ TakeReady
  /\ LET cmd == LineAt(head).cmd
     IN  /\ cmd.kind \in {"fit", "unfit"}
         /\ ~MustNotRun(cmd)
         /\ Submit([live |-> TRUE, orphan |-> FALSE, idx |-> head, cmd |-> cmd,
                    ops |-> opnd[cmd.buf], index |-> tile.gemmCt,
                    ran |-> NoIndex, status |-> "PENDING"])
  /\ UNCHANGED <<regVars, memVars, svc, faults, resets>>

\* Nothing more to do now: service() returns.
ServiceEnd ==
  /\ svc
  /\ cur.live => cur.status = "PENDING"
  /\ cur.live \/ ~enable \/ halted # "no" \/ head = tail
  /\ svc' = FALSE
  /\ UNCHANGED <<regVars, cur, tile, memVars, faults, resets>>

Service == FinishOrphan \/ FinishDone \/ FinishFailed \/ TakeFault
             \/ TakeAndEnd \/ TakeAndSubmit \/ ServiceEnd

-----------------------------------------------------------------------------
(* Register writes (pta_module_write32). They change nothing of host memory. *)

\* PTQ_CTRL with ENABLE set: an edge empties the ring and serves it.
EnableQueue ==
  /\ IF enable
     THEN UNCHANGED <<enable, head, prev, halted, svc>>
     ELSE enable' = TRUE /\ head' = tail /\ prev' = "PENDING" /\ halted' = "no" /\ svc' = TRUE
  /\ UNCHANGED <<base, tail, cur, tile, memVars, faults, resets>>

\* Mutant of DisableQueue: the command in the tile is not dropped.
DisableKeepsCommand ==
  /\ enable' = FALSE
  /\ UNCHANGED <<base, tail, head, halted, prev, cur, tile, svc, memVars, faults, resets>>

\* PTQ_CTRL with ENABLE clear: an edge drops the command in the tile.
DisableQueue ==
  /\ enable' = FALSE
  /\ cur'    = IF enable THEN [cur EXCEPT !.orphan = cur.live] ELSE cur
  /\ UNCHANGED <<base, tail, head, halted, prev, tile, svc, memVars, faults, resets>>

\* A PTQ_TAIL that goes back, or more than the ring past PTQ_HEAD. A PTQ_SIZE of
\* zero is a ring of one slot.
RingSlots      == IF base = "zero" THEN 1 ELSE RingSize
BadDoorbell(v) == Dist(v, head) > RingSlots \/ Dist(v, tail) > IndexMod \div 2

\* Mutant of WriteTail: the doorbell is noted, and the ring not served.
TailUnserved(v) ==
  /\ \/ ~enable /\ tail' = v /\ UNCHANGED halted
     \/ enable /\ BadDoorbell(v) /\ Halt("DOORBELL") /\ UNCHANGED tail
     \/ enable /\ ~BadDoorbell(v) /\ tail' = v /\ UNCHANGED halted
  /\ UNCHANGED <<enable, base, head, prev, cur, tile, svc, memVars, faults, resets>>

\* Mutant of WriteTail: PTA_MODULE_ABLATE_DOORBELL, any doorbell is taken.
TailTaken(v) ==
  /\ tail' = v
  /\ svc' = enable
  /\ UNCHANGED <<enable, base, head, halted, prev, cur, tile, memVars, faults, resets>>

\* PTQ_TAIL: where the ring starts while disabled, the doorbell while enabled.
WriteTail(v) ==
  /\ \/ ~enable /\ tail' = v /\ UNCHANGED <<halted, svc>>
     \/ enable /\ BadDoorbell(v) /\ Halt("DOORBELL") /\ UNCHANGED <<tail, svc>>
     \/ enable /\ ~BadDoorbell(v) /\ tail' = v /\ svc' = TRUE /\ UNCHANGED halted
  /\ UNCHANGED <<enable, base, head, prev, cur, tile, memVars, faults, resets>>

\* PTA_CTRL with EN and CAL_NOW: a calibration is wanted, and starts if the
\* tile is free (start_next takes a pending calibration before the queue).
CalNow ==
  /\ ~svc
  /\ tile' = IF tile.state = "IDLE" THEN [tile EXCEPT !.state = "CAL", !.calPending = FALSE]
                                    ELSE [tile EXCEPT !.calPending = TRUE]
  /\ UNCHANGED <<regVars, cur, svc, memVars, faults, resets>>

\* PTA_SEED: the count of GEMMs under it starts again.
WriteSeed ==
  /\ tile' = [tile EXCEPT !.gemmCt = 0]
  /\ UNCHANGED <<regVars, cur, svc, memVars, faults, resets>>

-----------------------------------------------------------------------------
(* Time (pta_module_run) and reset. A run long enough for several events of *)
(* the tile is several runs here; service() changes nothing in between.     *)

\* gemm_end() and start_next(): the results are in the module's own buffer.
RunGemmEnd ==
  /\ ~svc
  /\ tile.state = "GEMM"
  /\ cur'  = [cur EXCEPT !.status = "DONE"]
  /\ tile' = [tile EXCEPT !.state = IF tile.calPending THEN "CAL" ELSE "IDLE",
                          !.calPending = FALSE]
  /\ svc'  = TRUE
  /\ UNCHANGED <<regVars, memVars, faults, resets>>

\* cal_end() and start_next(): a calibration asked for meanwhile, then the queue.
RunCalEnd ==
  /\ ~svc
  /\ tile.state = "CAL"
  /\ \/ /\ tile.calPending
        /\ tile' = [tile EXCEPT !.calPending = FALSE]
        /\ cur'  = cur
     \/ /\ ~tile.calPending /\ tile.queued
        /\ GemmBegin(cur)
     \/ /\ ~tile.calPending /\ ~tile.queued
        /\ tile' = [tile EXCEPT !.state = "IDLE"]
        /\ cur'  = cur
  /\ svc'  = TRUE
  /\ UNCHANGED <<regVars, memVars, faults, resets>>

\* A run in which the tile ends nothing: the service alone.
RunService ==
  /\ ~svc
  /\ cur.live /\ cur.status # "PENDING"
  /\ svc' = TRUE
  /\ UNCHANGED <<regVars, cur, tile, memVars, faults, resets>>

Run == RunGemmEnd \/ RunCalEnd \/ RunService

\* pta_module_reset(): the tile's reset, the command dropped, registers zero.
Reset ==
  /\ ~svc
  /\ resets < MaxResets
  /\ resets' = resets + 1
  /\ enable' = FALSE /\ base' = "zero" /\ tail' = 0 /\ head' = 0
  /\ halted' = "no"  /\ prev' = "PENDING"
  /\ cur'    = NoInflight
  /\ tile'   = IdleTile
  /\ UNCHANGED <<svc, memVars, faults>>

\* pta_twin_reset() by whoever else holds the tile (pta_module_tile): what the
\* tile had ends lost, and the module learns of it when it next serves.
TileReset ==
  /\ ~svc
  /\ resets < MaxResets
  /\ resets' = resets + 1
  /\ cur'  = IF tile.state = "GEMM" \/ tile.queued THEN [cur EXCEPT !.status = "LOST"] ELSE cur
  /\ tile' = IdleTile
  /\ UNCHANGED <<regVars, svc, memVars, faults>>

-----------------------------------------------------------------------------
ModuleTypeOK ==
  /\ enable \in BOOLEAN
  /\ base \in {"ring", "zero"}
  /\ tail \in Indices /\ head \in Indices
  /\ halted \in {"no", "DOORBELL", "MEMORY"}
  /\ prev \in Statuses
  /\ cur \in Inflight
  /\ tile \in TileStates
  /\ svc \in BOOLEAN
  /\ slot \in [0 .. RingSize - 1 -> Slots] /\ low \in Slots
  /\ opnd \in [Addrs -> Nat]
  /\ out \in [Addrs -> Results]
  /\ faults \in Nat /\ resets \in Nat

\* The tile has the module's command exactly while that command is pending, and
\* runs it under the index the module noted when it handed it over.
TileHolds ==
  /\ tile.state = "GEMM" => /\ cur.live /\ cur.status = "PENDING"
                            /\ cur.ran = cur.index /\ ~tile.queued
  /\ tile.queued => /\ cur.live /\ cur.status = "PENDING" /\ tile.state = "CAL"
                    /\ cur.index = tile.gemmCt
  /\ tile.calPending => tile.state # "IDLE"
  /\ cur.live /\ cur.status = "PENDING" => tile.queued \/ tile.state = "GEMM"
  /\ cur.live /\ cur.status = "DONE" => cur.ran = cur.index

=============================================================================

--------------------------- MODULE PtaDriverProofs ---------------------------
(***************************************************************************)
(* The driver against the module, for every value of the constants: the    *)
(* types, the inductive invariant IInv, the refinement of GemmService, and *)
(* what the module may write and when.                                     *)
(*                                                                         *)
(* One lemma per action shows that the action keeps TypeOK and IInv. Its   *)
(* steps are the parts of the invariant in the order in which the action   *)
(* can disturb them: types, tile, ring, quiet, published, pc. Liveness     *)
(* (CallReturns) stays with TLC.                                           *)
(***************************************************************************)
EXTENDS PtaDriver, PtaModuleProofs

USE IndexModAssumption, RingSizeAssumption, NoAddrAssumption, BoundAssumption,
    PollsAssumption, CallsAssumption

\* The driver's doorbell on an empty ring makes sense to the module, also when
\* the index wraps and when a reset has left a ring of one slot.
LEMMA GoodDoorbell ==
  ASSUME TypeOK, head = next, tail = next
  PROVE  ~BadDoorbell(Inc(next))
  BY DEF TypeOK, ModuleTypeOK, DriverTypeOK, BadDoorbell, Dist, Inc, Indices, RingSlots

\* The values that name the absence of something are of the types they are used in.
LEMMA ConstTypes ==
  /\ 0 \in Indices /\ NoJob \in Jobs
  /\ NoResult \in Results /\ Torn \in Results
  /\ NoCommand \in Commands /\ ZeroSlot \in Slots
  /\ NoInflight \in Inflight /\ IdleTile \in TileStates
<1>1. NoJob \in Jobs
  BY ModuleConstTypes DEF NoJob, Jobs, Wants, Sizes, Statuses
<1> QED BY <1>1, ModuleConstTypes

\* A queue just attached satisfies the invariant.
LEMMA InitInv == Init => TypeOK /\ IInv
<1> SUFFICES ASSUME Init PROVE TypeOK /\ IInv
  OBVIOUS
<1>0. enable \in BOOLEAN /\ svc \in BOOLEAN /\ queue \in BOOLEAN /\ dead \in BOOLEAN /\ deaf \in BOOLEAN
  BY Zenon DEF Init
<1>1. ModuleTypeOK
  BY <1>0, ConstTypes DEF Init, ModuleTypeOK, Indices, NoId, Statuses
<1>2. DriverTypeOK
  BY <1>0, ConstTypes DEF Init, DriverTypeOK, Indices, NoIndex, Sizes, PcValues, Errors
<1>3. IInv
  BY SlotOfType DEF Init, IInv, TileInv, TileHolds, RingInv, QuietInv, PublishedInv, PcInv, Published, Abandoned, NoInflight, IdleTile, ZeroSlot, NoCommand, NoJob, Tearing, InCall, Indices, NoResult, NoIndex
<1> QED BY <1>1, <1>2, <1>3 DEF TypeOK

\* A step that leaves the module and host memory alone keeps the parts of the
\* invariant that are about them.
LEMMA ModuleSame ==
  ASSUME ModuleTypeOK, TileInv, RingInv, UNCHANGED modVars
  PROVE  ModuleTypeOK' /\ TileInv' /\ RingInv'
  BY DEF ModuleTypeOK, TileInv, TileHolds, RingInv, modVars

\* A step of the module changes nothing about where the driver is.
LEMMA DriverSame ==
  ASSUME DriverTypeOK, UNCHANGED drvVars
  PROVE  /\ DriverTypeOK'
         /\ Published' <=> Published
         /\ Abandoned' <=> Abandoned
         /\ InCall' <=> InCall
         /\ MyCommand' = MyCommand
  BY DEF DriverTypeOK, drvVars, queueVars, stageVars, retVars, Published, Abandoned, InCall, MyCommand

\* Nor the driver's own part of the invariant, unless it moves a register or a
\* buffer that part is about.
LEMMA PcSame ==
  ASSUME PcInv, DriverTypeOK, UNCHANGED <<drvVars, slot, opnd, enable, base, tail>>
  PROVE  PcInv'
  BY DriverSame DEF PcInv, drvVars, queueVars, stageVars, retVars, MySlot

\* finish() of a command a teardown dropped keeps the invariant.
LEMMA FinishOrphanStep == TypeOK /\ IInv /\ FinishOrphan /\ UNCHANGED drvVars => TypeOK' /\ IInv'
<1> SUFFICES ASSUME TypeOK, IInv, FinishOrphan, UNCHANGED drvVars PROVE TypeOK' /\ IInv'
  OBVIOUS
<1> USE DEF FinishOrphan, FinishReady, regVars, memVars
<1>1. ModuleTypeOK'
  BY ConstTypes DEF TypeOK, ModuleTypeOK
<1>2. TileInv'
  BY DEF IInv, TileInv, TileHolds, NoInflight
<1>3. RingInv'
  BY DEF IInv, RingInv, NoInflight
<1>4. QuietInv' /\ PublishedInv'
  BY DriverSame DEF TypeOK, IInv, QuietInv, PublishedInv, drvVars, queueVars, stageVars, retVars, MySlot, NoInflight
<1>5. PcInv'
  BY PcSame DEF TypeOK, IInv
<1> QED BY <1>1, <1>2, <1>3, <1>4, <1>5, DriverSame DEF TypeOK, IInv

\* finish() of a command that ran keeps the invariant: when the record goes out,
\* the results are those of the call in progress, under the index noted.
LEMMA FinishDoneStep == TypeOK /\ IInv /\ FinishDone /\ UNCHANGED drvVars => TypeOK' /\ IInv'
<1> SUFFICES ASSUME TypeOK, IInv, FinishDone, UNCHANGED drvVars PROVE TypeOK' /\ IInv'
  OBVIOUS
<1>0. /\ cur.live /\ ~cur.orphan /\ cur.status = "DONE" /\ cur' = NoInflight
      /\ cur.cmd \in Commands /\ cur.idx \in Indices /\ cur.index \in Indices
      /\ enable /\ base = "ring" /\ head # tail /\ cur.idx = head
      /\ cur.cmd = slot[SlotOf(head)].cmd /\ cur.ran = cur.index
      /\ slot[SlotOf(head)].status = "PENDING" /\ tail = Inc(head)
      /\ cur.cmd.buf \in Addrs
      /\ Published \/ Abandoned
      /\ SlotOf(head) \in 0 .. RingSize - 1
      /\ UNCHANGED <<enable, base, tail, opnd, tile, svc, resets>>
  BY SlotOfType DEF TypeOK, ModuleTypeOK, IInv, TileInv, TileHolds, RingInv, QuietInv, FinishDone, FinishReady, Inflight
<1>1. /\ faults' \in Nat /\ low' = low
      /\ \/ /\ slot' = [slot EXCEPT ![SlotOf(head)] =
                                 [cmd |-> cur.cmd, status |-> "DONE", index |-> cur.index]]
            /\ out' = [out EXCEPT ![cur.cmd.buf] = [id |-> cur.ops, index |-> cur.ran]]
            /\ head' = tail /\ prev' = "DONE" /\ halted' = halted
         \/ /\ out' = [out EXCEPT ![cur.cmd.buf] = [id |-> cur.ops, index |-> cur.ran]]
            /\ UNCHANGED <<slot, head, prev>> /\ halted' = "MEMORY"
         \/ /\ out' \in {out, [out EXCEPT ![cur.cmd.buf] = Torn]}
            /\ UNCHANGED <<slot, head, prev>> /\ halted' = "MEMORY"
  <2>1. faults \in Nat /\ (CountFault => faults' \in Nat)
    BY DEF TypeOK, ModuleTypeOK, CountFault
  <2>2. \/ /\ out' = [out EXCEPT ![cur.cmd.buf] = [id |-> cur.ops, index |-> cur.ran]]
           /\ Record(cur.idx, cur.cmd, "DONE", cur.index)
        \/ /\ out' \in {out, [out EXCEPT ![cur.cmd.buf] = Torn]}
           /\ halted' = "MEMORY"
           /\ CountFault
           /\ UNCHANGED <<slot, low, head, prev>>
    BY DEF FinishDone, Halt
  <2>. QED
    BY <1>0, <2>1, <2>2, RecordCases DEF TypeOK
<1>2. ModuleTypeOK'
  <2>1. [cmd |-> cur.cmd, status |-> "DONE", index |-> cur.index] \in Slots
    BY <1>0 DEF Slots, Statuses
  <2>2. [id |-> cur.ops, index |-> cur.ran] \in Results
    BY <1>0 DEF TypeOK, ModuleTypeOK, Inflight, Results
  <2>3. out' \in [Addrs -> Results]
    BY <1>1, <2>2, ConstTypes DEF TypeOK, ModuleTypeOK
  <2>4. slot' \in [0 .. RingSize - 1 -> Slots]
    BY <1>0, <1>1, <2>1 DEF TypeOK, ModuleTypeOK
  <2>. QED
    BY <1>0, <1>1, <2>3, <2>4, ConstTypes DEF TypeOK, ModuleTypeOK, Statuses
<1>3. TileInv'
  BY <1>0 DEF IInv, TileInv, TileHolds, NoInflight
<1>4. RingInv'
  <2>1. \A j \in DOMAIN slot' : slot'[j].cmd = slot[j].cmd
    BY <1>0, <1>1, SlotUpdate DEF TypeOK
  <2>2. DOMAIN slot' = DOMAIN slot
    BY <1>1
  <2>. QED
    BY <1>0, <1>1, <2>1, <2>2 DEF IInv, RingInv, NoInflight
<1>5. QuietInv'
  BY <1>0, DriverSame DEF TypeOK, IInv, QuietInv, NoInflight
<1>6. PublishedInv'
  BY <1>0, <1>1, DriverSame DEF TypeOK, ModuleTypeOK, IInv, RingInv, PublishedInv, drvVars, queueVars, stageVars, retVars, MySlot, MyCommand, NoInflight
<1>7. PcInv'
  BY <1>0, <1>1, DriverSame DEF TypeOK, IInv, PcInv, Abandoned, Published, drvVars, queueVars, stageVars, retVars
<1> QED BY <1>2, <1>3, <1>4, <1>5, <1>6, <1>7, DriverSame DEF TypeOK, IInv

\* A record of anything but DONE at PTQ_HEAD keeps the invariant.
LEMMA RecordStep ==
  ASSUME TypeOK, IInv, enable, head # tail, NEW st \in Statuses \ {"PENDING", "DONE"},
         Record(head, LineAt(head).cmd, st, NoIndex),
         cur' \in Inflight, ~cur'.live, TileInv',
         UNCHANGED <<enable, base, tail, opnd, out, tile, svc, resets>>, UNCHANGED drvVars
  PROVE  TypeOK' /\ IInv'
<1>0. /\ SlotOf(head) \in 0 .. RingSize - 1 /\ head \in Indices
      /\ DOMAIN slot = 0 .. RingSize - 1
      /\ slot[SlotOf(head)].cmd \in Commands
      /\ base = "ring" => Published \/ Abandoned
      /\ base = "ring" => tail = Inc(head)
      /\ low.cmd = NoCommand /\ Inc(head) \in Indices
  BY SlotOfType, IncType DEF TypeOK, ModuleTypeOK, IInv, RingInv, QuietInv, Slots
<1>1. /\ faults' \in Nat
      /\ \/ /\ base = "ring" /\ low' = low
            /\ slot' = [slot EXCEPT ![SlotOf(head)] =
                          [cmd |-> slot[SlotOf(head)].cmd, status |-> st, index |-> NoIndex]]
            /\ head' = tail /\ prev' = st /\ halted' = halted
         \/ /\ base = "zero" /\ slot' = slot
            /\ low' = [cmd |-> NoCommand, status |-> st, index |-> NoIndex]
            /\ head' = Inc(head) /\ prev' = st /\ halted' = halted
         \/ UNCHANGED <<slot, low, head, prev>> /\ halted' = "MEMORY"
  BY <1>0, RecordCases DEF TypeOK, LineAt
<1>2. ModuleTypeOK'
  <2>1. [cmd |-> slot[SlotOf(head)].cmd, status |-> st, index |-> NoIndex] \in Slots
    BY <1>0 DEF Slots
  <2>2. slot' \in [0 .. RingSize - 1 -> Slots]
    BY <1>0, <1>1, <2>1 DEF TypeOK, ModuleTypeOK
  <2>3. low' \in Slots
    <3>1. [cmd |-> NoCommand, status |-> st, index |-> NoIndex] \in Slots
      BY ConstTypes DEF Slots
    <3> QED BY <1>1, <3>1 DEF TypeOK, ModuleTypeOK
  <2>. QED
    BY <1>0, <1>1, <2>2, <2>3 DEF TypeOK, ModuleTypeOK
<1>3. \A j \in DOMAIN slot : slot'[j].cmd = slot[j].cmd
  BY <1>0, <1>1, SlotUpdate DEF TypeOK
<1>4. RingInv'
  BY <1>0, <1>1, <1>3 DEF IInv, RingInv
<1>5. QuietInv'
  BY <1>0, <1>1, DriverSame DEF TypeOK, IInv, QuietInv, drvVars, queueVars
<1>6. PublishedInv'
  <2> SUFFICES ASSUME Published PROVE PublishedInv'
    BY DriverSame DEF TypeOK, PublishedInv
  <2>1. UNCHANGED <<pc, call, job, next, stage>> /\ MyCommand' = MyCommand
    BY DriverSame DEF TypeOK, drvVars, queueVars, stageVars
  <2>2. base = "ring" => /\ head = job.idx /\ tail = next /\ pc \notin {"reread", "end"}
    BY DEF IInv, PublishedInv
  <2>3. MySlot'.cmd = MySlot.cmd
    BY <1>0, <1>3, <2>1, SlotOfType DEF TypeOK, DriverTypeOK, Jobs, MySlot
  <2>4. \/ MySlot' = MySlot
        \/ base = "ring" /\ MySlot'.status = st
    BY <1>0, <1>1, <2>1, <2>2 DEF MySlot
  <2>. QED
    BY <1>1, <2>1, <2>2, <2>3, <2>4 DEF IInv, PublishedInv
<1>7. PcInv'
  BY <1>0, <1>1, DriverSame
     DEF TypeOK, IInv, PcInv, Abandoned, Published, drvVars, queueVars, stageVars, retVars, MySlot
<1> QED BY <1>2, <1>4, <1>5, <1>6, <1>7, DriverSame DEF TypeOK, IInv

\* finish() of a command the tile refused keeps the invariant.
LEMMA FinishFailedStep == TypeOK /\ IInv /\ FinishFailed /\ UNCHANGED drvVars => TypeOK' /\ IInv'
<1> SUFFICES ASSUME TypeOK, IInv, FinishFailed, UNCHANGED drvVars PROVE TypeOK' /\ IInv'
  OBVIOUS
<1>1. /\ enable /\ head # tail /\ cur.status \in Statuses \ {"PENDING", "DONE"}
      /\ Record(head, LineAt(head).cmd, cur.status, NoIndex)
      /\ UNCHANGED <<enable, base, tail, opnd, out, tile, svc, resets>>
  BY DEF FinishFailed, FinishReady, TypeOK, ModuleTypeOK, Inflight, IInv, RingInv, Statuses, LineAt
<1>2. cur' \in Inflight /\ ~cur'.live
  BY ConstTypes DEF FinishFailed, NoInflight
<1>3. TileInv'
  BY DEF FinishFailed, FinishReady, IInv, TileInv, TileHolds, NoInflight
<1> QED BY <1>1, <1>2, <1>3, RecordStep

\* take() halting on memory that fails keeps the invariant.
LEMMA TakeFaultStep == TypeOK /\ IInv /\ TakeFault /\ UNCHANGED drvVars => TypeOK' /\ IInv'
<1> SUFFICES ASSUME TypeOK, IInv, TakeFault, UNCHANGED drvVars PROVE TypeOK' /\ IInv'
  OBVIOUS
<1>1. ModuleTypeOK'
  BY DEF TypeOK, ModuleTypeOK, TakeFault, Halt, CountFault, memVars
<1>2. TileInv' /\ RingInv'
  BY DEF IInv, TileInv, TileHolds, RingInv, TakeFault, memVars
<1>3. QuietInv' /\ PublishedInv'
  BY DriverSame DEF TypeOK, IInv, QuietInv, PublishedInv, TakeFault, memVars, drvVars, queueVars, stageVars, retVars, MySlot
<1>4. PcInv'
  BY PcSame DEF TypeOK, IInv, TakeFault, memVars
<1> QED BY <1>1, <1>2, <1>3, <1>4, DriverSame DEF TypeOK, IInv

\* take() ending a slot before the tile sees it keeps the invariant.
LEMMA TakeAndEndStep == TypeOK /\ IInv /\ TakeAndEnd /\ UNCHANGED drvVars => TypeOK' /\ IInv'
<1> SUFFICES ASSUME TypeOK, IInv, TakeAndEnd, UNCHANGED drvVars PROVE TypeOK' /\ IInv'
  OBVIOUS
<1>1. /\ enable /\ head # tail
      /\ UNCHANGED <<enable, base, tail, opnd, out, cur, tile, svc, resets>>
      /\ cur' \in Inflight /\ ~cur'.live
  BY DEF TakeAndEnd, TakeReady, TypeOK, ModuleTypeOK
<1>2. PICK st \in {"NOT_ISSUED", "NOT_RUN"} : Record(head, LineAt(head).cmd, st, NoIndex)
  BY DEF TakeAndEnd
<1>3. TileInv'
  BY <1>1 DEF IInv, TileInv, TileHolds
<1> QED BY <1>1, <1>2, <1>3, RecordStep DEF Statuses

\* take() handing a command to the tile keeps the invariant: the operands read
\* are those of the call in progress.
LEMMA TakeAndSubmitStep == TypeOK /\ IInv /\ TakeAndSubmit /\ UNCHANGED drvVars => TypeOK' /\ IInv'
<1> SUFFICES ASSUME TypeOK, IInv, TakeAndSubmit, UNCHANGED drvVars PROVE TypeOK' /\ IInv'
  OBVIOUS
<1> DEFINE cmd == slot[SlotOf(head)].cmd
           f == [live |-> TRUE, orphan |-> FALSE, idx |-> head, cmd |-> cmd,
                 ops |-> opnd[cmd.buf], index |-> tile.gemmCt,
                 ran |-> NoIndex, status |-> "PENDING"]
<1>1. base = "ring"
  <2>1. low.cmd.kind = "malformed"
    BY DEF IInv, RingInv, NoCommand
  <2>2. LineAt(head).cmd.kind # "malformed"
    BY DEF TakeAndSubmit
  <2>. QED
    BY <2>1, <2>2 DEF LineAt, TypeOK, ModuleTypeOK
<1>2. /\ svc /\ ~cur.live /\ enable /\ head # tail
      /\ head \in Indices /\ cmd \in Commands /\ cmd.buf \in Addrs
      /\ tail = Inc(head) /\ slot[SlotOf(head)].status = "PENDING"
      /\ Published \/ Abandoned
      /\ UNCHANGED <<regVars, memVars, svc, faults, resets>>
      /\ Submit(f)
  BY <1>1, SlotOfType DEF TypeOK, ModuleTypeOK, IInv, RingInv, QuietInv, TakeAndSubmit, TakeReady, Slots, LineAt
<1>3. f \in Inflight
  BY <1>2 DEF TypeOK, ModuleTypeOK, Inflight, TileStates
<1>4. /\ cur' \in Inflight /\ tile' \in TileStates
      /\ cur'.live /\ ~cur'.orphan /\ cur'.idx = head /\ cur'.cmd = cmd /\ cur'.ops = opnd[cmd.buf]
      /\ TileInv'
  <2>1. CASE tile.state = "IDLE" /\ ~tile.calPending /\ GemmBegin(f)
    BY <2>1, <1>2, <1>3, GemmBeginStep DEF TypeOK, ModuleTypeOK, IInv, TileInv, TileHolds, TileStates
  <2>2. CASE (tile.state # "IDLE" \/ tile.calPending) /\ cur' = f /\ tile' = [tile EXCEPT !.queued = TRUE]
    BY <2>2, <1>2, <1>3 DEF TypeOK, ModuleTypeOK, IInv, TileInv, TileHolds, TileStates
  <2>. QED
    BY <1>2, <2>1, <2>2 DEF Submit
<1>5. ModuleTypeOK'
  BY <1>2, <1>4 DEF TypeOK, ModuleTypeOK, regVars, memVars
<1>6. RingInv'
  BY <1>1, <1>2, <1>4 DEF IInv, RingInv, regVars, memVars
<1>7. QuietInv' /\ PublishedInv'
  BY <1>1, <1>2, <1>4, DriverSame
     DEF TypeOK, IInv, QuietInv, PublishedInv, PcInv, MySlot, MyCommand, regVars, memVars, drvVars,
         queueVars, stageVars, retVars
<1>8. PcInv'
  BY <1>2, PcSame DEF TypeOK, IInv, regVars, memVars
<1> QED BY <1>4, <1>5, <1>6, <1>7, <1>8, DriverSame DEF TypeOK, IInv

\* A step of the tile that leaves registers and host memory alone and keeps
\* TileInv keeps the invariant.
LEMMA TileStep ==
  ASSUME TypeOK, IInv, UNCHANGED drvVars, UNCHANGED <<regVars, memVars, faults, resets>>,
         cur' \in Inflight, tile' \in TileStates, svc' \in BOOLEAN, TileInv',
         cur'.live = cur.live /\ cur'.orphan = cur.orphan /\ cur'.idx = cur.idx,
         cur'.cmd = cur.cmd /\ cur'.ops = cur.ops
  PROVE  TypeOK' /\ IInv'
<1>1. ModuleTypeOK'
  BY DEF TypeOK, ModuleTypeOK, regVars, memVars
<1>2. RingInv'
  BY DEF IInv, RingInv, regVars, memVars
<1>3. QuietInv' /\ PublishedInv'
  BY DriverSame DEF TypeOK, IInv, QuietInv, PublishedInv, MySlot, regVars, memVars, drvVars,
                    queueVars, stageVars, retVars
<1>4. PcInv'
  BY PcSame DEF TypeOK, IInv, regVars, memVars
<1> QED BY <1>1, <1>2, <1>3, <1>4, DriverSame DEF TypeOK, IInv

\* service() returning keeps the invariant.
LEMMA ServiceEndStep == TypeOK /\ IInv /\ ServiceEnd /\ UNCHANGED drvVars => TypeOK' /\ IInv'
<1> SUFFICES ASSUME TypeOK, IInv, ServiceEnd, UNCHANGED drvVars PROVE TypeOK' /\ IInv'
  OBVIOUS
<1>1. svc' \in BOOLEAN
  BY Zenon DEF ServiceEnd
<1>2. TileInv'
  BY DEF ServiceEnd, IInv, TileInv, TileHolds
<1> QED BY <1>1, <1>2, TileStep DEF ServiceEnd, TypeOK, ModuleTypeOK

\* pta_module_run keeps the invariant: a GEMM or a calibration ends in the tile.
LEMMA RunStep == TypeOK /\ IInv /\ Run /\ UNCHANGED drvVars => TypeOK' /\ IInv'
<1> SUFFICES ASSUME TypeOK, IInv, Run, UNCHANGED drvVars PROVE TypeOK' /\ IInv'
  OBVIOUS
<1>1. svc' \in BOOLEAN /\ svc'
  BY Zenon DEF Run, RunGemmEnd, RunCalEnd, RunService
<1>2. CASE RunGemmEnd
  <2>1. cur' \in Inflight /\ tile' \in TileStates
    BY <1>2 DEF RunGemmEnd, TypeOK, ModuleTypeOK, Inflight, TileStates
  <2>2. TileInv'
    BY <1>1, <1>2 DEF RunGemmEnd, IInv, TileInv, TileHolds, TypeOK, ModuleTypeOK, Inflight, TileStates
  <2> QED BY <1>1, <1>2, <2>1, <2>2, TileStep DEF RunGemmEnd, TypeOK, ModuleTypeOK, Inflight
<1>3. CASE RunCalEnd
  <2>1. CASE tile' = [tile EXCEPT !.calPending = FALSE] /\ cur' = cur
    BY <1>1, <1>3, <2>1, TileStep DEF RunCalEnd, IInv, TileInv, TileHolds, TypeOK, ModuleTypeOK, TileStates
  <2>2. CASE ~tile.calPending /\ tile.queued /\ GemmBegin(cur)
    <3>1. TileInv'
      BY <1>1, <1>3, <2>2, GemmBeginStep DEF RunCalEnd, IInv, TileInv, TileHolds, TypeOK, ModuleTypeOK
    <3> QED
      BY <1>1, <1>3, <2>2, <3>1, GemmBeginStep, TileStep DEF RunCalEnd, TypeOK, ModuleTypeOK
  <2>3. CASE ~tile.calPending /\ ~tile.queued /\ tile' = [tile EXCEPT !.state = "IDLE"] /\ cur' = cur
    BY <1>1, <1>3, <2>3, TileStep DEF RunCalEnd, IInv, TileInv, TileHolds, TypeOK, ModuleTypeOK, TileStates
  <2> QED BY <1>3, <2>1, <2>2, <2>3 DEF RunCalEnd
<1>4. CASE RunService
  BY <1>1, <1>4, TileStep DEF RunService, IInv, TileInv, TileHolds, TypeOK, ModuleTypeOK
<1> QED BY <1>2, <1>3, <1>4 DEF Run

\* CAL_NOW at any time, and PTA_SEED with the queue drained, keep the invariant.
LEMMA CalibrateStep == TypeOK /\ IInv /\ (Calibrate \/ Reseed) => TypeOK' /\ IInv'
<1> SUFFICES ASSUME TypeOK, IInv, Calibrate \/ Reseed PROVE TypeOK' /\ IInv'
  OBVIOUS
<1>1. CASE Calibrate
  <2>1. tile' \in TileStates
    BY <1>1 DEF Calibrate, CalNow, TypeOK, ModuleTypeOK, TileStates
  <2>2. TileInv'
    BY <1>1 DEF Calibrate, CalNow, IInv, TileInv, TileHolds, TypeOK, ModuleTypeOK, TileStates
  <2> QED BY <1>1, <2>1, <2>2, TileStep DEF Calibrate, CalNow, TypeOK, ModuleTypeOK
<1>2. CASE Reseed
  <2>1. tile' \in TileStates
    BY <1>2, ConstTypes DEF Reseed, WriteSeed, TypeOK, ModuleTypeOK, TileStates
  <2>2. TileInv'
    BY <1>2 DEF Reseed, At, WriteSeed, IInv, TileInv, TileHolds, TypeOK, ModuleTypeOK, TileStates
  <2> QED BY <1>2, <2>1, <2>2, TileStep DEF Reseed, WriteSeed, TypeOK, ModuleTypeOK
<1> QED BY <1>1, <1>2

\* A function-level reset, and a module that stops hearing PTQ_CTRL, keep the
\* invariant wherever the driver is.
LEMMA ResetStep == TypeOK /\ IInv /\ (ResetModule \/ SeizeUp) => TypeOK' /\ IInv'
<1> SUFFICES ASSUME TypeOK, IInv, ResetModule \/ SeizeUp PROVE TypeOK' /\ IInv'
  OBVIOUS
<1>0. UNCHANGED <<pc, call, job, queueVars, stageVars, retVars>> /\ deaf' \in BOOLEAN
  BY Zenon DEF ResetModule, SeizeUp
<1>1. DriverTypeOK' /\ (Published' <=> Published) /\ (InCall' <=> InCall) /\ MyCommand' = MyCommand
  BY <1>0 DEF TypeOK, DriverTypeOK, Published, InCall, MyCommand, queueVars, stageVars, retVars
<1>2. CASE ResetModule
  <2>1. enable' \in BOOLEAN /\ ~enable'
    BY <1>2, Zenon DEF ResetModule, Reset
  <2>2. ModuleTypeOK'
    BY <1>2, <2>1, ConstTypes DEF ResetModule, Reset, TypeOK, ModuleTypeOK, memVars, Statuses
  <2>3. TileInv' /\ RingInv'
    BY <1>2, <2>1 DEF ResetModule, Reset, IInv, TileInv, TileHolds, RingInv, NoInflight, IdleTile, memVars
  <2>4. QuietInv' /\ PublishedInv'
    BY <1>0, <1>1, <1>2, <2>1
       DEF ResetModule, Reset, IInv, QuietInv, PublishedInv, MySlot, NoInflight, memVars, queueVars, stageVars
  <2>5. PcInv'
    BY <1>0, <1>1, <1>2, <2>1
       DEF ResetModule, Reset, IInv, PcInv, MySlot, memVars, queueVars, stageVars, retVars
  <2> QED BY <1>1, <2>2, <2>3, <2>4, <2>5 DEF TypeOK, IInv
<1>3. CASE SeizeUp
  <2>1. ModuleTypeOK' /\ TileInv' /\ RingInv'
    BY <1>3, ModuleSame DEF SeizeUp, TypeOK, IInv
  <2>2. QuietInv' /\ PublishedInv'
    BY <1>0, <1>1, <1>3
       DEF SeizeUp, IInv, QuietInv, PublishedInv, Abandoned, MySlot, modVars, queueVars, stageVars
  <2>3. PcInv'
    BY <1>0, <1>1, <1>3
       DEF SeizeUp, IInv, PcInv, MySlot, modVars, queueVars, stageVars, retVars
  <2> QED BY <1>1, <2>1, <2>2, <2>3 DEF TypeOK, IInv
<1> QED BY <1>2, <1>3

\* A call of pta_chiplet_gemm keeps the invariant.
LEMMA GemmStep == ASSUME TypeOK, IInv, NEW k \in Wants, NEW n \in Sizes, Gemm(k, n)
                  PROVE  TypeOK' /\ IInv'
<1>1. ModuleTypeOK' /\ TileInv' /\ RingInv'
  BY ModuleSame DEF Gemm, TypeOK, IInv
<1>2. job' \in Jobs
  BY ConstTypes DEF Gemm, Jobs
<1>3. DriverTypeOK'
  BY <1>2, ConstTypes DEF Gemm, TypeOK, DriverTypeOK, PcValues, queueVars, stageVars
<1>4. QuietInv' /\ PublishedInv'
  BY DEF Gemm, At, IInv, QuietInv, PublishedInv, Published, Abandoned, Tearing, modVars, queueVars
<1>5. PcInv'
  BY DEF Gemm, At, IInv, PcInv, Published, InCall, Tearing, NoJob, modVars, queueVars, stageVars
<1> QED BY <1>1, <1>3, <1>4, <1>5 DEF TypeOK, IInv

\* queue_gemm's checks keep the invariant.
LEMMA CheckStep == TypeOK /\ IInv /\ Check => TypeOK' /\ IInv'
<1> SUFFICES ASSUME TypeOK, IInv, Check PROVE TypeOK' /\ IInv'
  OBVIOUS
<1>1. ModuleTypeOK' /\ TileInv' /\ RingInv'
  BY ModuleSame DEF Check, TypeOK, IInv
<1>2. DriverTypeOK'
  BY ConstTypes DEF Check, At, Return, Rejection, TypeOK, DriverTypeOK, queueVars, stageVars, PcValues, Errors
<1>3. QuietInv' /\ PublishedInv'
  BY DEF Check, At, Return, IInv, QuietInv, PublishedInv, Published, Abandoned, Tearing, modVars, queueVars
<1>4. PcInv'
  BY DEF Check, At, Return, Rejection, IInv, PcInv, Published, InCall, NoJob, Tearing, modVars, queueVars,
         stageVars, Wants, Kinds, Jobs, TypeOK, DriverTypeOK
<1> QED BY <1>1, <1>2, <1>3, <1>4 DEF TypeOK, IInv

\* Staging, with the buffer grown or not, keeps the invariant: no command the
\* module may still write for has the buffer, unless it has been given up on.
LEMMA StageStep == TypeOK /\ IInv /\ Stage => TypeOK' /\ IInv'
<1> SUFFICES ASSUME TypeOK, IInv, Stage PROVE TypeOK' /\ IInv'
  OBVIOUS
<1>0. bytes >= job.need => stage \in Addrs
  BY DEF TypeOK, DriverTypeOK, Jobs, Sizes, IInv, PcInv
<1>1. ModuleTypeOK'
  BY <1>0 DEF Stage, TypeOK, ModuleTypeOK, DriverTypeOK, regVars
<1>2. DriverTypeOK'
  BY <1>0, ConstTypes DEF Stage, Return, TypeOK, DriverTypeOK, Jobs, queueVars, stageVars, PcValues, Errors
<1>3. TileInv' /\ RingInv'
  BY DEF Stage, IInv, TileInv, TileHolds, RingInv, regVars
<1>4. QuietInv' /\ PublishedInv'
  BY DEF Stage, At, Return, IInv, QuietInv, PublishedInv, Published, Abandoned, Tearing, regVars, queueVars
<1>5. PcInv'
  BY <1>0 DEF Stage, At, Return, IInv, PcInv, Published, InCall, NoJob, Tearing, regVars, queueVars, stageVars,
         TypeOK, ModuleTypeOK
<1> QED BY <1>1, <1>2, <1>3, <1>4, <1>5 DEF TypeOK, IInv

\* Writing the descriptor keeps the invariant: the slot is not the module's.
LEMMA PublishStep == TypeOK /\ IInv /\ Publish => TypeOK' /\ IInv'
<1> SUFFICES ASSUME TypeOK, IInv, Publish PROVE TypeOK' /\ IInv'
  OBVIOUS
<1> DEFINE new == [cmd |-> [id |-> call, kind |-> job.kind, after |-> FALSE, buf |-> stage],
                   status |-> "PENDING", index |-> 0]
<1>0. /\ ~svc /\ pc = "publish" /\ pc' = "doorbell" /\ job' = [job EXCEPT !.idx = next]
      /\ slot' = [slot EXCEPT ![SlotOf(next)] = new]
      /\ UNCHANGED <<regVars, cur, tile, svc, low, opnd, out, faults, resets, call,
                     queueVars, stageVars, retVars, deaf>>
  BY DEF Publish, At
<1>1. /\ SlotOf(next) \in 0 .. RingSize - 1 /\ next \in Indices
      /\ stage \in Addrs /\ job.kind \in Kinds /\ opnd[stage] = call
      /\ ~job.inGemm /\ queue /\ ~dead /\ job \in Jobs
  BY <1>0, SlotOfType DEF TypeOK, DriverTypeOK, IInv, PcInv
<1>2. new \in Slots
  BY <1>1, ConstTypes DEF TypeOK, DriverTypeOK, Slots, Commands, Statuses
<1>3. ModuleTypeOK'
  BY <1>0, <1>1, <1>2 DEF TypeOK, ModuleTypeOK, regVars
<1>4. /\ job' \in Jobs /\ job'.idx = next /\ job'.kind = job.kind /\ ~job'.inGemm
  BY <1>0, <1>1 DEF Jobs
<1>5. DriverTypeOK'
  BY <1>0, <1>4 DEF TypeOK, DriverTypeOK, PcValues, queueVars, stageVars, retVars
<1>6. TileInv'
  BY <1>0 DEF IInv, TileInv, TileHolds
<1>7. ~Published /\ ~Published' /\ ~Abandoned /\ ~Abandoned'
  BY <1>0, <1>1, <1>4 DEF Published, Abandoned, Tearing, queueVars
<1>8. QuietInv' /\ PublishedInv'
  BY <1>0, <1>7 DEF IInv, QuietInv, PublishedInv, regVars, queueVars
<1>9. RingInv'
  <2>1. /\ slot'[SlotOf(next)] = new /\ DOMAIN slot' = DOMAIN slot
        /\ \A j \in DOMAIN slot : j # SlotOf(next) => slot'[j] = slot[j]
    BY <1>0, <1>1, SlotUpdate DEF TypeOK
  <2>2. (cur.live => cur.orphan) /\ (enable /\ base = "ring" => head = tail)
    BY <1>7 DEF IInv, QuietInv
  <2>3. new.cmd.buf \in Addrs
    BY <1>1
  <2>4. \A j \in DOMAIN slot' : slot'[j].cmd.kind # "malformed" => slot'[j].cmd.buf \in Addrs
    BY <2>1, <2>3 DEF IInv, RingInv
  <2>. QED
    BY <1>0, <2>2, <2>4 DEF IInv, RingInv, regVars
<1>10. PcInv'
  <2>1. MySlot'.cmd = MyCommand' /\ MySlot'.status = "PENDING"
    BY <1>0, <1>1, <1>4, SlotUpdate DEF TypeOK, MySlot, MyCommand, stageVars
  <2>. QED
    BY <1>0, <1>1, <1>4, <1>7, <2>1 DEF IInv, PcInv, InCall, Tearing, regVars, queueVars, stageVars, retVars
<1> QED BY <1>3, <1>5, <1>6, <1>8, <1>9, <1>10 DEF TypeOK, IInv

\* The doorbell keeps the invariant: from here the slot is the module's.
LEMMA DoorbellStep == TypeOK /\ IInv /\ Doorbell => TypeOK' /\ IInv'
<1> SUFFICES ASSUME TypeOK, IInv, Doorbell PROVE TypeOK' /\ IInv'
  OBVIOUS
<1>0. /\ ~svc /\ pc = "doorbell" /\ pc' = "poll" /\ next' = Inc(next)
      /\ UNCHANGED <<call, job, queue, dead, ended, stageVars, retVars, deaf>>
      /\ UNCHANGED <<enable, base, head, prev, cur, tile, memVars, faults, resets>>
      /\ WriteTail(Inc(next))
  BY DEF Doorbell, At, WriteTail
<1>1. /\ next \in Indices /\ Inc(next) \in Indices /\ Inc(next) # next
      /\ ~job.inGemm /\ queue /\ ~dead /\ next = job.idx
      /\ MySlot.cmd = MyCommand /\ MySlot.status = "PENDING"
      /\ ~Published /\ ~Abandoned /\ Published'
  BY <1>0, IncType DEF TypeOK, DriverTypeOK, IInv, PcInv, Published, Abandoned, Tearing
<1>2. (cur.live => cur.orphan) /\ (enable /\ base = "ring" => head = next /\ tail = next)
  BY <1>1 DEF IInv, QuietInv
<1>3. svc' \in BOOLEAN
  BY Zenon DEF Doorbell, WriteTail, TypeOK, ModuleTypeOK
<1>4. /\ enable /\ base = "ring" => tail' = next'
      /\ tail' \in Indices /\ halted' \in {"no", "DOORBELL", "MEMORY"}
  BY <1>0, <1>1, <1>2, GoodDoorbell DEF TypeOK, ModuleTypeOK, WriteTail, Halt
<1>5. ModuleTypeOK'
  BY <1>0, <1>3, <1>4 DEF TypeOK, ModuleTypeOK, memVars
<1>6. DriverTypeOK'
  BY <1>0, <1>1 DEF TypeOK, DriverTypeOK, PcValues, stageVars, retVars
<1>7. TileInv'
  BY <1>0 DEF IInv, TileInv, TileHolds
<1>8. RingInv'
  BY <1>0, <1>1, <1>2, <1>4 DEF IInv, RingInv, MySlot, memVars
<1>9. QuietInv' /\ PublishedInv'
  BY <1>0, <1>1, <1>2, <1>4 DEF IInv, QuietInv, PublishedInv, MySlot, MyCommand, memVars, stageVars
<1>10. PcInv'
  BY <1>0, <1>1 DEF IInv, PcInv, InCall, Tearing, memVars, stageVars, retVars
<1> QED BY <1>5, <1>6, <1>7, <1>8, <1>9, <1>10 DEF TypeOK, IInv

\* Polling keeps the invariant.
LEMMA PollStep == TypeOK /\ IInv /\ (PollSlot \/ PollStatus \/ Reread) => TypeOK' /\ IInv'
<1> SUFFICES ASSUME TypeOK, IInv, PollSlot \/ PollStatus \/ Reread PROVE TypeOK' /\ IInv'
  OBVIOUS
<1>0. /\ UNCHANGED <<modVars, call, queueVars, stageVars, retVars, deaf>>
      /\ pc \in {"poll", "status", "reread"} /\ Published
  BY DEF PollSlot, PollStatus, Reread, At, Published
<1>1. ModuleTypeOK' /\ TileInv' /\ RingInv'
  BY <1>0, ModuleSame DEF TypeOK, IInv
<1>2. MySlot.status \in Statuses
  BY SlotOfType DEF TypeOK, ModuleTypeOK, DriverTypeOK, Jobs, MySlot, Slots
<1>3. /\ job' \in Jobs /\ job'.kind = job.kind /\ job'.idx = job.idx
      /\ pc' \in {"poll", "status", "stop", "end"}
      /\ pc' = "stop" => job'.inGemm
      /\ pc' = "end" => job'.st = MySlot.status /\ (pc = "poll" => MySlot.status # "PENDING")
      /\ pc' = "end" => pc \in {"poll", "reread"}
  <2>0. job \in Jobs
    BY DEF TypeOK, DriverTypeOK
  <2>1. CASE PollSlot
    BY <1>2, <2>0, <2>1 DEF PollSlot, At, Jobs
  <2>2. CASE PollStatus
    <3>1. CASE pc' = "poll" /\ job' = [job EXCEPT !.polls = @ + 1]
      BY <2>0, <3>1 DEF Jobs
    <3>2. CASE pc' = "stop" /\ job' = [job EXCEPT !.polls = 0, !.inGemm = TRUE]
      BY <2>0, <3>2 DEF Jobs
    <3>. QED
      BY <2>2, <3>1, <3>2 DEF PollStatus
  <2>3. CASE Reread
    BY <1>2, <2>0, <2>3 DEF Reread, At, Jobs
  <2>. QED
    BY <2>1, <2>2, <2>3
<1>4. DriverTypeOK'
  BY <1>0, <1>3 DEF TypeOK, DriverTypeOK, PcValues, Tearing, queueVars, stageVars, retVars
<1>5. Published' /\ MySlot' = MySlot /\ MyCommand' = MyCommand
  BY <1>0, <1>3 DEF Published, Tearing, MySlot, MyCommand, modVars, stageVars
<1>6. QuietInv' /\ PublishedInv'
  BY <1>0, <1>3, <1>5 DEF IInv, QuietInv, PublishedInv, RingInv, MySlot, modVars, queueVars, stageVars
<1>7. PcInv'
  BY <1>0, <1>3, <1>5 DEF IInv, PcInv, InCall, Tearing, modVars, queueVars, stageVars, retVars
<1> QED BY <1>1, <1>4, <1>6, <1>7 DEF TypeOK, IInv

\* The end of queue_gemm keeps the invariant: the ring is empty again.
LEMMA EndStep == TypeOK /\ IInv /\ End => TypeOK' /\ IInv'
<1> SUFFICES ASSUME TypeOK, IInv, End PROVE TypeOK' /\ IInv'
  OBVIOUS
<1>0. /\ UNCHANGED <<modVars, call, queue, dead, next, stageVars, deaf>>
      /\ pc = "end" /\ Published /\ pc' = "idle" /\ job' = NoJob /\ ended' = next
      /\ error' \in Errors \cup {"OK"}
  BY DEF End, At, Published, Return, ErrorOf, Errors
<1>1. ModuleTypeOK' /\ TileInv' /\ RingInv'
  BY <1>0, ModuleSame DEF TypeOK, IInv
<1>2. C' \in Results /\ lastIndex' \in Indices \cup {NoIndex}
  <2>1. stage \in Addrs /\ MySlot \in Slots
    BY <1>0, SlotOfType DEF TypeOK, ModuleTypeOK, DriverTypeOK, Jobs, IInv, PcInv, MySlot
  <2>. QED
    BY <2>1 DEF End, TypeOK, ModuleTypeOK, DriverTypeOK, Slots
<1>3. DriverTypeOK'
  BY <1>0, <1>2, ConstTypes DEF TypeOK, DriverTypeOK, PcValues, stageVars
<1>4. ~Published' /\ (enable /\ base = "ring" => head = tail /\ tail = next) /\ (cur.live => cur.orphan)
  BY <1>0 DEF IInv, PublishedInv, RingInv, Published, Tearing
<1>5. QuietInv' /\ PublishedInv'
  BY <1>0, <1>4 DEF QuietInv, PublishedInv, modVars
<1>6. PcInv'
  BY <1>0, <1>4 DEF IInv, PcInv, InCall, NoJob, modVars, stageVars
<1> QED BY <1>1, <1>3, <1>5, <1>6 DEF TypeOK, IInv

\* The entry to a teardown of the user's own, and an attach that finds no memory,
\* keep the invariant.
LEMMA TeardownStep == TypeOK /\ IInv /\ (Teardown \/ AttachFails) => TypeOK' /\ IInv'
<1> SUFFICES ASSUME TypeOK, IInv, Teardown \/ AttachFails PROVE TypeOK' /\ IInv'
  OBVIOUS
<1>0. /\ UNCHANGED <<modVars, call, job, queueVars, stageVars, C, lastIndex, deaf>>
      /\ pc = "idle" /\ pc' \in {"idle", "stop"} /\ (pc' = "stop" => queue /\ ~dead)
      /\ error' \in {error, "NO_LINK"}
  BY DEF Teardown, AttachFails, At, retVars
<1>1. ModuleTypeOK' /\ TileInv' /\ RingInv'
  BY <1>0, ModuleSame DEF TypeOK, IInv
<1>2. DriverTypeOK'
  BY <1>0 DEF TypeOK, DriverTypeOK, PcValues, Tearing, Errors, queueVars, stageVars
<1>3. ~job.inGemm /\ ~Published /\ ~Published' /\ (Abandoned' <=> Abandoned)
  BY <1>0 DEF IInv, PcInv, Published, Abandoned, Tearing, queueVars
<1>4. QuietInv' /\ PublishedInv'
  BY <1>0, <1>3 DEF IInv, QuietInv, PublishedInv, modVars, queueVars
<1>5. PcInv'
  BY <1>0, <1>3 DEF IInv, PcInv, InCall, Tearing, modVars, queueVars, stageVars
<1> QED BY <1>1, <1>2, <1>4, <1>5 DEF TypeOK, IInv

\* PTQ_CTRL with ENABLE clear leaves the module off and without a command that it
\* may still write for.
LEMMA DisableQueueStep ==
  ASSUME TypeOK, IInv, DisableQueue
  PROVE  /\ ModuleTypeOK' /\ TileInv' /\ RingInv'
         /\ ~enable' /\ (cur'.live => cur'.orphan)
<1>1. enable' \in BOOLEAN /\ ~enable'
  BY Zenon DEF DisableQueue
<1>2. /\ cur' \in Inflight
      /\ cur'.live = cur.live /\ cur'.cmd = cur.cmd /\ cur'.index = cur.index
      /\ cur'.ran = cur.ran /\ cur'.status = cur.status
  BY DEF DisableQueue, TypeOK, ModuleTypeOK, Inflight
<1>3. cur'.live => cur'.orphan
  BY DEF DisableQueue, TypeOK, ModuleTypeOK, Inflight, IInv, RingInv
<1>4. ModuleTypeOK'
  BY <1>1, <1>2 DEF DisableQueue, TypeOK, ModuleTypeOK, memVars
<1>5. TileInv'
  BY <1>2 DEF DisableQueue, IInv, TileInv, TileHolds
<1>6. RingInv'
  BY <1>1, <1>2, <1>3 DEF DisableQueue, IInv, RingInv, memVars
<1> QED BY <1>1, <1>3, <1>4, <1>5, <1>6

\* A teardown's write of PTQ_CTRL, heard or not, keeps the invariant.
LEMMA TdStopStep == TypeOK /\ IInv /\ TdStop => TypeOK' /\ IInv'
<1> SUFFICES ASSUME TypeOK, IInv, TdStop PROVE TypeOK' /\ IInv'
  OBVIOUS
<1>0. /\ pc = "stop" /\ pc' = "quiesce"
      /\ UNCHANGED <<call, job, queueVars, stageVars, retVars, deaf>>
      /\ UNCHANGED <<base, tail, slot, low, opnd, out, head>>
      /\ \/ deaf /\ UNCHANGED modVars
         \/ DisableQueue
  BY DEF TdStop, At, Ctrl, DisableQueue, modVars, memVars
<1>1. ModuleTypeOK' /\ TileInv' /\ RingInv'
  BY <1>0, ModuleSame, DisableQueueStep DEF TypeOK, IInv
<1>2. (deaf /\ UNCHANGED modVars) \/ (~enable' /\ (cur'.live => cur'.orphan))
  BY <1>0, DisableQueueStep
<1>3. DriverTypeOK'
  BY <1>0 DEF TypeOK, DriverTypeOK, PcValues, Tearing, queueVars, stageVars, retVars
<1>4. (Published' <=> Published) /\ (Abandoned' <=> Abandoned) /\ MySlot' = MySlot /\ MyCommand' = MyCommand
  BY <1>0 DEF Published, Abandoned, Tearing, queueVars, stageVars, MySlot, MyCommand
<1>5. QuietInv' /\ PublishedInv'
  BY <1>0, <1>2, <1>4 DEF IInv, QuietInv, PublishedInv, modVars, queueVars, stageVars
<1>6. PcInv'
  BY <1>0, <1>2, <1>4 DEF IInv, PcInv, InCall, Tearing, modVars, queueVars, stageVars, retVars
<1> QED BY <1>1, <1>3, <1>5, <1>6 DEF TypeOK, IInv

\* A teardown's wait, and its giving up, keep the invariant.
LEMMA TdQuiesceStep == TypeOK /\ IInv /\ TdQuiesce => TypeOK' /\ IInv'
<1> SUFFICES ASSUME TypeOK, IInv, TdQuiesce PROVE TypeOK' /\ IInv'
  OBVIOUS
<1>0. /\ pc = "quiesce" /\ job \in Jobs
      /\ UNCHANGED <<modVars, call, queue, next, stageVars, C, lastIndex, deaf>>
  BY DEF TdQuiesce, At, TypeOK, DriverTypeOK
<1>1. ModuleTypeOK' /\ TileInv' /\ RingInv'
  BY <1>0, ModuleSame DEF TypeOK, IInv
<1>2. dead' \in BOOLEAN
  BY Zenon DEF TdQuiesce, TypeOK, DriverTypeOK
<1>3. /\ \/ pc' = "lost" /\ ~enable /\ job' = job /\ dead' = dead
         \/ pc' = "quiesce" /\ job' = [job EXCEPT !.polls = @ + 1] /\ dead' = dead
         \/ pc' = "idle" /\ job' = NoJob /\ dead' /\ deaf
      /\ ended' \in Indices /\ error' \in Errors \cup {"OK"}
  BY <1>0 DEF TdQuiesce, Return, IInv, PcInv, TypeOK, DriverTypeOK, Errors
<1>4. job' \in Jobs /\ (pc' # "idle" => job'.kind = job.kind /\ job'.idx = job.idx /\ job'.inGemm = job.inGemm)
  BY <1>0, <1>3, ConstTypes DEF Jobs
<1>5. DriverTypeOK'
  BY <1>0, <1>2, <1>3, <1>4 DEF TypeOK, DriverTypeOK, PcValues, Tearing, stageVars
<1>6. CASE pc' = "idle"
  <2>1. ~Published' /\ Abandoned'
    BY <1>0, <1>3, <1>6 DEF Published, Abandoned, Tearing
  <2>2. PcInv'
    BY <1>0, <1>3, <1>6, <2>1 DEF IInv, PcInv, InCall, NoJob, modVars, stageVars
  <2> QED BY <1>1, <1>5, <2>1, <2>2 DEF TypeOK, IInv, QuietInv, PublishedInv
<1>7. CASE pc' # "idle"
  <2>1. (Published' <=> Published) /\ (Abandoned' <=> Abandoned) /\ MySlot' = MySlot /\ MyCommand' = MyCommand
    <3>1. pc' \in {"lost", "quiesce"} /\ dead' = dead
      BY <1>3, <1>7
    <3>2. Published' <=> Published
      BY <1>0, <1>4, <3>1 DEF Published, Tearing
    <3>3. Abandoned' <=> Abandoned
      BY <1>0, <3>1 DEF Abandoned
    <3>4. MySlot' = MySlot /\ MyCommand' = MyCommand
      BY <1>0, <1>4, <1>7 DEF stageVars, MySlot, MyCommand, modVars
    <3>. QED
      BY <3>2, <3>3, <3>4
  <2>2. QuietInv' /\ PublishedInv'
    BY <1>0, <1>3, <1>4, <1>7, <2>1 DEF IInv, QuietInv, PublishedInv, modVars, stageVars
  <2>3. PcInv'
    BY <1>0, <1>3, <1>4, <1>7, <2>1 DEF IInv, PcInv, InCall, Tearing, modVars, stageVars
  <2> QED BY <1>1, <1>5, <2>2, <2>3 DEF TypeOK, IInv
<1> QED BY <1>6, <1>7

\* A teardown ending the slots the module did not end keeps the invariant.
LEMMA TdEndSlotsStep == TypeOK /\ IInv /\ TdEndSlots => TypeOK' /\ IInv'
<1> SUFFICES ASSUME TypeOK, IInv, TdEndSlots PROVE TypeOK' /\ IInv'
  OBVIOUS
<1>0. /\ pc = "lost" /\ pc' = "tail" /\ ~enable
      /\ UNCHANGED <<regVars, cur, tile, svc, low, opnd, out, faults, resets, call, job,
                     queueVars, stageVars, retVars, deaf>>
  BY DEF TdEndSlots, At, IInv, PcInv
<1>1. /\ DOMAIN slot' = 0 .. RingSize - 1 /\ DOMAIN slot = 0 .. RingSize - 1
      /\ \A j \in 0 .. RingSize - 1 :
           slot'[j] = slot[j] \/ slot'[j] = [slot[j] EXCEPT !.status = "LOST"]
  BY DEF TdEndSlots, TypeOK, ModuleTypeOK
<1>2. \A j \in 0 .. RingSize - 1 : /\ slot'[j] \in Slots /\ slot'[j].cmd = slot[j].cmd
                                   /\ slot'[j] = slot[j] \/ slot'[j].status = "LOST"
  <2> SUFFICES ASSUME NEW j \in 0 .. RingSize - 1
               PROVE  /\ slot'[j] \in Slots /\ slot'[j].cmd = slot[j].cmd
                      /\ slot'[j] = slot[j] \/ slot'[j].status = "LOST"
    OBVIOUS
  <2>1. slot[j] \in Slots
    BY DEF TypeOK, ModuleTypeOK
  <2>2. CASE slot'[j] = slot[j]
    BY <2>1, <2>2
  <2>3. CASE slot'[j] = [slot[j] EXCEPT !.status = "LOST"]
    BY <2>1, <2>3 DEF Slots, Statuses
  <2> QED BY <1>1, <2>2, <2>3
<1>3. ModuleTypeOK'
  <2>1. slot' \in [0 .. RingSize - 1 -> Slots]
    BY <1>2 DEF TdEndSlots
  <2> QED BY <1>0, <2>1 DEF TypeOK, ModuleTypeOK, regVars
<1>4. DriverTypeOK'
  BY <1>0 DEF TypeOK, DriverTypeOK, PcValues, Tearing, queueVars, stageVars, retVars
<1>5. TileInv' /\ RingInv'
  BY <1>0, <1>1, <1>2 DEF IInv, TileInv, TileHolds, RingInv, regVars
<1>6. (Published' <=> Published) /\ (Abandoned' <=> Abandoned) /\ MyCommand' = MyCommand
  BY <1>0 DEF Published, Abandoned, Tearing, queueVars, stageVars, MyCommand
<1>7. MySlot'.cmd = MySlot.cmd /\ (MySlot' = MySlot \/ MySlot'.status = "LOST")
  BY <1>0, <1>2, SlotOfType DEF TypeOK, DriverTypeOK, Jobs, MySlot
<1>8. QuietInv' /\ PublishedInv'
  BY <1>0, <1>6, <1>7 DEF IInv, QuietInv, PublishedInv, regVars, queueVars, stageVars
<1>9. PcInv'
  BY <1>0, <1>6 DEF IInv, PcInv, InCall, Tearing, regVars, queueVars, stageVars, retVars
<1> QED BY <1>3, <1>4, <1>5, <1>8, <1>9 DEF TypeOK, IInv

\* A teardown's write of PTQ_TAIL keeps the invariant.
LEMMA TdTailStep == TypeOK /\ IInv /\ TdTail => TypeOK' /\ IInv'
<1> SUFFICES ASSUME TypeOK, IInv, TdTail PROVE TypeOK' /\ IInv'
  OBVIOUS
<1>0. /\ pc = "tail" /\ pc' = "restart" /\ ~enable /\ tail' = next
      /\ UNCHANGED <<call, job, queueVars, stageVars, retVars, deaf>>
      /\ UNCHANGED <<enable, base, head, prev, halted, svc, cur, tile, memVars, faults, resets>>
  BY DEF TdTail, At, IInv, PcInv, WriteTail
<1>1. ModuleTypeOK'
  BY <1>0 DEF TypeOK, ModuleTypeOK, DriverTypeOK, memVars
<1>2. DriverTypeOK'
  BY <1>0 DEF TypeOK, DriverTypeOK, PcValues, Tearing, queueVars, stageVars, retVars
<1>3. TileInv' /\ RingInv'
  BY <1>0 DEF IInv, TileInv, TileHolds, RingInv, memVars
<1>4. (Published' <=> Published) /\ (Abandoned' <=> Abandoned) /\ MyCommand' = MyCommand /\ MySlot' = MySlot
  BY <1>0 DEF Published, Abandoned, Tearing, queueVars, stageVars, MyCommand, MySlot, memVars
<1>5. QuietInv' /\ PublishedInv'
  BY <1>0, <1>4 DEF IInv, QuietInv, PublishedInv, memVars, queueVars, stageVars
<1>6. PcInv'
  BY <1>0, <1>4 DEF IInv, PcInv, InCall, Tearing, memVars, queueVars, stageVars, retVars
<1> QED BY <1>1, <1>2, <1>3, <1>5, <1>6 DEF TypeOK, IInv

\* A teardown's enabling the queue again, empty, keeps the invariant.
LEMMA TdRestartStep == TypeOK /\ IInv /\ TdRestart => TypeOK' /\ IInv'
<1> SUFFICES ASSUME TypeOK, IInv, TdRestart PROVE TypeOK' /\ IInv'
  OBVIOUS
<1>0. /\ pc = "restart" /\ ~enable /\ (base = "ring" => tail = next) /\ job \in Jobs
      /\ UNCHANGED <<call, queueVars, stageVars, retVars, deaf>>
      /\ UNCHANGED <<base, tail, cur, tile, memVars, faults, resets>>
      /\ \/ pc' = "reread" /\ job' = job /\ job.inGemm
         \/ pc' = "idle" /\ job' = NoJob /\ ~job.inGemm
  BY DEF TdRestart, At, IInv, PcInv, TypeOK, DriverTypeOK, Ctrl, EnableQueue, modVars, memVars
<1>1. enable' \in BOOLEAN /\ svc' \in BOOLEAN /\ (svc => svc')
  BY <1>0, Zenon DEF TdRestart, At, Ctrl, EnableQueue, TypeOK, ModuleTypeOK, modVars
<1>2. enable' => head' = tail
  BY <1>0 DEF TdRestart, Ctrl, EnableQueue, modVars
<1>3. ModuleTypeOK'
  BY <1>0, <1>1 DEF TdRestart, Ctrl, EnableQueue, modVars, memVars, TypeOK, ModuleTypeOK, Statuses
<1>4. DriverTypeOK'
  BY <1>0, ConstTypes DEF TypeOK, DriverTypeOK, PcValues, queueVars, stageVars, retVars
<1>5. ~svc /\ cur.live => cur.status = "PENDING"
  BY DEF IInv, TileInv, TileHolds
<1>6. TileInv'
  BY <1>0, <1>1 DEF IInv, TileInv, TileHolds
<1>7. cur.live => cur.orphan
  BY <1>0 DEF IInv, RingInv
<1>8. RingInv'
  BY <1>0, <1>2, <1>7 DEF IInv, RingInv, memVars
<1>9. (Published' <=> Published) /\ (Abandoned' <=> Abandoned)
  BY <1>0 DEF Published, Abandoned, Tearing, queueVars
<1>10. pc' = "reread" => MyCommand' = MyCommand /\ MySlot' = MySlot
  BY <1>0 DEF MyCommand, MySlot, memVars, stageVars
<1>11. QuietInv' /\ PublishedInv'
  BY <1>0, <1>2, <1>7, <1>9, <1>10
     DEF IInv, QuietInv, Published, PublishedInv, Tearing, memVars, queueVars, stageVars
<1>12. PcInv'
  BY <1>0, <1>9, <1>10 DEF IInv, PcInv, InCall, Published, Tearing, NoJob, memVars, queueVars, stageVars, retVars
<1> QED BY <1>3, <1>4, <1>6, <1>8, <1>11, <1>12 DEF TypeOK, IInv

\* pta_chiplet_detach_queue keeps the invariant, with a module that may not hear it.
LEMMA DetachStep == TypeOK /\ IInv /\ Detach => TypeOK' /\ IInv'
<1> SUFFICES ASSUME TypeOK, IInv, Detach PROVE TypeOK' /\ IInv'
  OBVIOUS
<1>0. /\ pc = "idle" /\ stage' = NoAddr /\ bytes' = 0
      /\ UNCHANGED <<pc, call, job, dead, next, ended, retVars, deaf>>
      /\ \/ deaf /\ UNCHANGED modVars
         \/ DisableQueue
  BY DEF Detach, At, Ctrl
<1>1. queue' \in BOOLEAN /\ ~queue'
  BY Zenon DEF Detach
<1>2. ModuleTypeOK' /\ TileInv' /\ RingInv'
  BY <1>0, ModuleSame, DisableQueueStep DEF TypeOK, IInv
<1>3. deaf' \/ (~enable' /\ (cur'.live => cur'.orphan))
  BY <1>0, DisableQueueStep
<1>4. DriverTypeOK'
  BY <1>0, <1>1 DEF TypeOK, DriverTypeOK, retVars
<1>5. ~Published' /\ ~InCall'
  BY <1>0 DEF Published, InCall, Tearing
<1>6. QuietInv' /\ PublishedInv'
  BY <1>1, <1>3, <1>5 DEF QuietInv, PublishedInv, Abandoned
<1>7. PcInv'
  BY <1>0, <1>5 DEF IInv, PcInv
<1> QED BY <1>2, <1>4, <1>6, <1>7 DEF TypeOK, IInv

\* pta_chiplet_attach_queue keeps the invariant.
LEMMA AttachStep == TypeOK /\ IInv /\ Attach => TypeOK' /\ IInv'
<1> SUFFICES ASSUME TypeOK, IInv, Attach PROVE TypeOK' /\ IInv'
  OBVIOUS
<1>0. /\ pc = "idle" /\ ~queue /\ ~deaf
      /\ slot' = [j \in 0 .. RingSize - 1 |-> ZeroSlot]
      /\ cur' = IF enable THEN [cur EXCEPT !.orphan = cur.live] ELSE cur
      /\ base' = "ring" /\ tail' = 0 /\ head' = 0 /\ prev' = "PENDING" /\ halted' = "no"
      /\ next' = 0 /\ ended' = 0 /\ stage' = NoAddr /\ bytes' = 0
      /\ lastIndex' = NoIndex /\ error' = "OK"
      /\ UNCHANGED <<tile, low, opnd, out, faults, resets, pc, call, job, C, deaf>>
  BY DEF Attach, At
<1>1. /\ enable' \in BOOLEAN /\ svc' \in BOOLEAN /\ queue' \in BOOLEAN /\ dead' \in BOOLEAN
      /\ svc' /\ queue' /\ ~dead'
  BY Zenon DEF Attach
<1>2. ~Published /\ ~Abandoned /\ ~Published' /\ ~InCall'
  BY <1>0 DEF Published, Abandoned, InCall, Tearing
<1>3. /\ cur' \in Inflight
      /\ cur'.live = cur.live /\ cur'.cmd = cur.cmd /\ cur'.index = cur.index
      /\ cur'.ran = cur.ran /\ cur'.status = cur.status
  BY <1>0 DEF TypeOK, ModuleTypeOK, Inflight
<1>4. cur'.live => cur'.orphan
  BY <1>0, <1>2 DEF IInv, QuietInv, TypeOK, ModuleTypeOK, Inflight
<1>5. ModuleTypeOK'
  BY <1>0, <1>1, <1>3, ConstTypes DEF TypeOK, ModuleTypeOK, Statuses
<1>6. DriverTypeOK'
  BY <1>0, <1>1, ConstTypes DEF TypeOK, DriverTypeOK
<1>7. TileInv'
  BY <1>0, <1>1, <1>3 DEF IInv, TileInv, TileHolds
<1>8. RingInv'
  BY <1>0, <1>3, <1>4 DEF IInv, RingInv, ZeroSlot, NoCommand
<1>9. QuietInv' /\ PublishedInv'
  BY <1>0, <1>2, <1>4 DEF QuietInv, PublishedInv
<1>10. PcInv'
  BY <1>0, <1>1, <1>2 DEF IInv, PcInv
<1> QED BY <1>5, <1>6, <1>7, <1>8, <1>9, <1>10 DEF TypeOK, IInv

\* And so does an attach that the module does not hear.
LEMMA AttachUnheardStep == TypeOK /\ IInv /\ AttachUnheard => TypeOK' /\ IInv'
<1> SUFFICES ASSUME TypeOK, IInv, AttachUnheard PROVE TypeOK' /\ IInv'
  OBVIOUS
<1>0. /\ pc = "idle" /\ ~queue /\ deaf /\ ~enable /\ base' = "ring" /\ tail' = 0 /\ error' = "NO_LINK"
      /\ UNCHANGED <<enable, head, halted, prev, cur, tile, svc, memVars, faults, resets,
                     pc, call, job, queueVars, stageVars, C, lastIndex, deaf>>
  BY DEF AttachUnheard, At
<1>1. ModuleTypeOK'
  BY <1>0, ConstTypes DEF TypeOK, ModuleTypeOK, memVars
<1>2. DriverTypeOK'
  BY <1>0 DEF TypeOK, DriverTypeOK, Errors, queueVars, stageVars
<1>3. TileInv' /\ RingInv'
  BY <1>0 DEF IInv, TileInv, TileHolds, RingInv, memVars
<1>4. Abandoned' /\ ~Published' /\ ~InCall'
  BY <1>0 DEF Abandoned, Published, InCall, Tearing, queueVars
<1>5. QuietInv' /\ PublishedInv'
  BY <1>4 DEF QuietInv, PublishedInv
<1>6. PcInv'
  BY <1>0, <1>4 DEF IInv, PcInv, stageVars
<1> QED BY <1>1, <1>2, <1>3, <1>5, <1>6 DEF TypeOK, IInv

\* And so does nothing at all.
LEMMA StutterStep == TypeOK /\ IInv /\ UNCHANGED vars => TypeOK' /\ IInv'
<1> SUFFICES ASSUME TypeOK, IInv, UNCHANGED vars PROVE TypeOK' /\ IInv'
  OBVIOUS
<1>1. UNCHANGED modVars /\ UNCHANGED drvVars
  BY DEF vars
<1>2. ModuleTypeOK' /\ TileInv' /\ RingInv'
  BY <1>1, ModuleSame DEF TypeOK, IInv
<1>3. QuietInv' /\ PublishedInv'
  BY <1>1, DriverSame DEF TypeOK, IInv, QuietInv, PublishedInv, MySlot, modVars, drvVars, queueVars, stageVars
<1>4. PcInv'
  BY <1>1, PcSame DEF TypeOK, IInv, modVars
<1> QED BY <1>1, <1>2, <1>3, <1>4, DriverSame DEF TypeOK, IInv

\* Every step of the driver, of its user, of the module and of the world around
\* them keeps the invariant.
THEOREM InductiveStep == TypeOK /\ IInv /\ [Next]_vars => TypeOK' /\ IInv'
<1> SUFFICES ASSUME TypeOK, IInv, [Next]_vars PROVE TypeOK' /\ IInv'
  OBVIOUS
<1>1. CASE Driver
  BY <1>1, CheckStep, StageStep, PublishStep, DoorbellStep, PollStep, EndStep, TdStopStep,
     TdQuiesceStep, TdEndSlotsStep, TdTailStep, TdRestartStep DEF Driver
<1>2. CASE User
  BY <1>2, GemmStep, TeardownStep, DetachStep, AttachStep, AttachUnheardStep DEF User
<1>3. CASE Module
  BY <1>3, FinishOrphanStep, FinishDoneStep, FinishFailedStep, TakeFaultStep, TakeAndEndStep,
     TakeAndSubmitStep, ServiceEndStep, RunStep DEF Module, Service
<1>4. CASE ResetModule \/ SeizeUp \/ Calibrate \/ Reseed
  BY <1>4, ResetStep, CalibrateStep
<1>5. CASE UNCHANGED vars
  BY <1>5, StutterStep
<1> QED BY <1>1, <1>2, <1>3, <1>4, <1>5 DEF Next

\* The invariant holds throughout: at each point of pta_chiplet_gemm and of a
\* teardown, who may do what to which slot.
THEOREM Invariance == Spec => [](TypeOK /\ IInv)
<1>1. Init => TypeOK /\ IInv
  BY InitInv
<1>2. TypeOK /\ IInv /\ [Next]_vars => (TypeOK /\ IInv)'
  BY InductiveStep
<1> QED BY <1>1, <1>2, PTL DEF Spec

\* Every register, slot, buffer and driver field keeps its type.
THEOREM TypeCorrect == Spec => []TypeOK
  BY Invariance, PTL

\* What the module does alone the caller of pta_chiplet_gemm does not see.
LEMMA ModuleKeepsPromise ==
  ASSUME UNCHANGED drvVars
  PROVE  UNCHANGED Promise!serviceVars
  BY DEF drvVars, retVars, Promise!serviceVars, InCall

\* Every step is, to the caller, a step of GemmService or nothing.
LEMMA PromiseStep == TypeOK /\ IInv /\ [Next]_vars => [Promise!Next]_(Promise!serviceVars)
<1> SUFFICES ASSUME TypeOK, IInv, [Next]_vars
             PROVE  Promise!Next \/ UNCHANGED Promise!serviceVars
  OBVIOUS
<1> USE DEF Promise!Next, Promise!serviceVars
<1>1. ASSUME NEW k \in Wants, NEW n \in Sizes, Gemm(k, n) PROVE Promise!Call
  BY <1>1 DEF Gemm, At, InCall, Tearing, Promise!Call, NoIndex
<1>2. ASSUME Check \/ Stage PROVE Promise!Fail \/ UNCHANGED Promise!serviceVars
  BY <1>2 DEF Check, Stage, At, Return, Rejection, InCall, Tearing, Promise!Fail, Errors
<1>3. ASSUME Publish \/ Doorbell \/ PollSlot \/ PollStatus \/ Reread
      PROVE  UNCHANGED Promise!serviceVars
  <2>1. UNCHANGED <<call, C, error, lastIndex>>
    BY <1>3 DEF Publish, Doorbell, PollSlot, PollStatus, Reread, retVars
  <2>2. InCall /\ InCall'
    BY <1>3 DEF Publish, Doorbell, PollSlot, PollStatus, Reread, At, InCall, Tearing, TypeOK, DriverTypeOK, Jobs
  <2> QED BY <2>1, <2>2
<1>4. ASSUME End PROVE Promise!Succeed \/ Promise!Fail
  <2>1. InCall /\ ~InCall' /\ Published /\ UNCHANGED call
    BY <1>4 DEF End, At, Return, InCall, Published, Tearing
  <2>2. CASE job.st = "DONE"
    <3>1. MySlot.index \in Indices /\ out[stage] = [id |-> call, index |-> MySlot.index]
      BY <1>4, <2>1, <2>2 DEF End, At, IInv, PublishedInv
    <3>2. C' = out[stage] /\ lastIndex' = MySlot.index /\ error' = "OK"
      BY <1>4, <2>2 DEF End, Return
    <3> QED BY <2>1, <3>1, <3>2 DEF Promise!Succeed, Indices
  <2>3. CASE job.st # "DONE"
    BY <1>4, <2>1, <2>3 DEF End, Return, ErrorOf, Errors, Promise!Fail
  <2> QED BY <2>2, <2>3
<1>5. ASSUME TdStop \/ TdEndSlots \/ TdTail \/ TdRestart \/ Teardown
      PROVE  UNCHANGED Promise!serviceVars
  <2>1. UNCHANGED <<call, C, error, lastIndex>>
    BY <1>5 DEF TdStop, TdEndSlots, TdTail, TdRestart, Teardown, retVars
  <2>2. InCall' <=> InCall
    BY <1>5 DEF TdStop, TdEndSlots, TdTail, TdRestart, Teardown, At, InCall, Tearing, IInv, PcInv
  <2> QED BY <2>1, <2>2 DEF InCall
<1>6. ASSUME TdQuiesce PROVE Promise!Fail \/ UNCHANGED Promise!serviceVars
  <2>1. CASE pc' = "idle"
    BY <1>6, <2>1 DEF TdQuiesce, At, Return, InCall, Tearing, Promise!Fail, Errors
  <2>2. CASE pc' # "idle"
    <3>1. pc' \in Tearing /\ pc \in Tearing /\ job'.inGemm = job.inGemm /\ UNCHANGED <<call, C, error, lastIndex>>
      BY <1>6, <2>2 DEF TdQuiesce, At, Return, Tearing, TypeOK, DriverTypeOK, Jobs
    <3> QED BY <3>1, <2>2 DEF InCall, Tearing
  <2> QED BY <2>1, <2>2
<1>7. ASSUME Detach \/ Attach \/ AttachUnheard \/ AttachFails
      PROVE  Promise!Other \/ UNCHANGED Promise!serviceVars
  BY <1>7 DEF Detach, Attach, AttachUnheard, AttachFails, At, InCall, Tearing, Promise!Other, retVars, Errors, NoIndex
<1>8. ASSUME Module \/ Calibrate \/ Reseed \/ UNCHANGED vars PROVE UNCHANGED Promise!serviceVars
  BY <1>8, ModuleKeepsPromise DEF Module, Calibrate, Reseed, vars
<1>9. ASSUME ResetModule \/ SeizeUp PROVE UNCHANGED Promise!serviceVars
  BY <1>9 DEF ResetModule, SeizeUp, retVars, InCall
<1> QED
  BY <1>1, <1>2, <1>3, <1>4, <1>5, <1>6, <1>7, <1>8, <1>9 DEF Next, Driver, User

\* pta_chiplet_gemm through the queue implements the header's contract: 0 with C
\* this call's own result under the index reported, or -1 with C untouched,
\* whatever faults, resets, halts and deafness of the module come between.
THEOREM Refinement == Spec => KeepsPromise
<1>1. Init => Promise!Init
  BY DEF Init, Promise!Init, InCall, NoIndex
<1>2. TypeOK /\ IInv /\ [Next]_vars => [Promise!Next]_(Promise!serviceVars)
  BY PromiseStep
<1> QED BY <1>1, <1>2, Invariance, PTL DEF Spec, Promise!Spec, KeepsPromise

\* The steps of the module that write host memory.
ModuleWrite == (FinishDone \/ FinishFailed \/ TakeAndEnd) /\ UNCHANGED drvVars

\* Host memory is changed by three steps of the module's service(), and by the
\* host publishing, ending slots and attaching.
LEMMA WhoWrites ==
  ASSUME TypeOK, IInv, [Next]_vars, slot' # slot \/ low' # low \/ out' # out
  PROVE  ModuleWrite \/ ((Publish \/ TdEndSlots \/ Attach) /\ out' = out /\ low' = low)
<1>1. CASE Driver
  BY <1>1 DEF Driver, Check, Stage, Doorbell, PollSlot, PollStatus, Reread, End, TdStop, TdQuiesce,
              TdTail, TdRestart, WriteTail, Ctrl, DisableQueue, EnableQueue, Publish, TdEndSlots,
              modVars, memVars
<1>2. CASE User
  BY <1>2 DEF User, Gemm, Teardown, Detach, AttachUnheard, AttachFails, Attach, Ctrl, DisableQueue, modVars, memVars
<1>3. CASE Module
  BY <1>3 DEF Module, Service, Run, RunGemmEnd, RunCalEnd, RunService, FinishOrphan, TakeFault,
              TakeAndSubmit, ServiceEnd, ModuleWrite, memVars
<1>4. CASE ResetModule \/ SeizeUp \/ Calibrate \/ Reseed \/ UNCHANGED vars
  BY <1>4 DEF ResetModule, Reset, SeizeUp, Calibrate, CalNow, Reseed, WriteSeed, vars, modVars, memVars
<1> QED BY <1>1, <1>2, <1>3, <1>4 DEF Next

\* What the module writes is the pending slot at PTQ_HEAD of an enabled ring the
\* host programmed, and the buffer that slot names; or, on a queue enabled at a base
\* of zero, the line at address 0.
LEMMA WhatItWrites ==
  ASSUME TypeOK, IInv, ModuleWrite
  PROVE  /\ enable /\ head # tail
         /\ low' # low => base = "zero"
         /\ slot' # slot \/ out' # out => base = "ring" /\ slot[SlotOf(head)].status = "PENDING"
         /\ SlotOf(head) \in DOMAIN slot
         /\ \A j \in DOMAIN slot : j # SlotOf(head) => slot'[j] = slot[j]
         /\ \A a \in Addrs : out'[a] # out[a] => a = slot[SlotOf(head)].cmd.buf
<1>1. enable /\ head # tail
  BY DEF ModuleWrite, FinishDone, FinishFailed, TakeAndEnd, FinishReady, TakeReady, IInv, RingInv
<1>2. SlotOf(head) \in 0 .. RingSize - 1 /\ DOMAIN slot = 0 .. RingSize - 1
  BY SlotOfType DEF TypeOK, ModuleTypeOK
<1>3. /\ out' # out => base = "ring"
      /\ \A a \in Addrs : out'[a] # out[a] => a = slot[SlotOf(head)].cmd.buf
  <2>1. CASE FinishDone
    <3>1. base = "ring" /\ cur.cmd = slot[SlotOf(head)].cmd
      BY <2>1 DEF FinishDone, FinishReady, IInv, RingInv
    <3>2. PICK v : out' = out \/ out' = [out EXCEPT ![cur.cmd.buf] = v]
      BY <2>1 DEF FinishDone
    <3> QED BY <3>1, <3>2 DEF TypeOK, ModuleTypeOK
  <2>2. CASE FinishFailed \/ TakeAndEnd
    BY <2>2 DEF FinishFailed, TakeAndEnd
  <2> QED BY <2>1, <2>2 DEF ModuleWrite
<1>4. /\ slot' # slot => base = "ring"
      /\ low' # low => base = "zero"
      /\ \A j \in DOMAIN slot : j # SlotOf(head) => slot'[j] = slot[j]
  <2>1. \/ slot' = slot /\ low' = low
        \/ \E cmd, st, ix : Record(head, cmd, st, ix)
    <3>1. CASE FinishDone \/ FinishFailed
      <4>1. cur.idx = head
        BY <3>1 DEF FinishDone, FinishFailed, FinishReady, IInv, RingInv
      <4>2. (slot' = slot /\ low' = low) \/ \E cmd, st, ix : Record(cur.idx, cmd, st, ix)
        BY <3>1 DEF FinishDone, FinishFailed
      <4> QED BY <4>1, <4>2
    <3>2. CASE TakeAndEnd
      BY <3>2 DEF TakeAndEnd
    <3> QED BY <3>1, <3>2 DEF ModuleWrite
  <2>2. ASSUME NEW cmd, NEW st, NEW ix, Record(head, cmd, st, ix)
        PROVE  /\ slot' # slot => base = "ring"
               /\ low' # low => base = "zero"
               /\ \A j \in DOMAIN slot : j # SlotOf(head) => slot'[j] = slot[j]
    <3>1. \/ slot' = slot /\ (low' = low \/ base = "zero")
          \/ /\ base = "ring" /\ low' = low
             /\ slot' = [slot EXCEPT ![SlotOf(head)] = [cmd |-> cmd, status |-> st, index |-> ix]]
      BY <2>2, RecordCases DEF TypeOK
    <3> QED BY <1>2, <3>1, SlotUpdate DEF TypeOK
  <2> QED BY <2>1, <2>2
<1> QED BY <1>1, <1>2, <1>3, <1>4 DEF IInv, RingInv

\* C9: once PTQ_STATUS.ENABLED reads 0 the module changes nothing in host memory,
\* though the tile may still be running the command a teardown dropped.
THEOREM Stops == Spec => StopsWriting
<1>1. ASSUME TypeOK, IInv, [Next]_vars, ~enable
      PROVE  out' = out /\ low' = low /\ (slot' # slot => pc' # pc \/ queue' # queue)
  <2>1. CASE slot' = slot /\ low' = low /\ out' = out
    BY <2>1
  <2>2. CASE slot' # slot \/ low' # low \/ out' # out
    <3>1. ~ModuleWrite
      BY <1>1, WhatItWrites
    <3>2. (Publish \/ TdEndSlots \/ Attach) /\ out' = out /\ low' = low
      BY <1>1, <2>2, <3>1, WhoWrites
    <3>3. ASSUME Attach PROVE queue' # queue
      <4>1. ~queue /\ queue' = TRUE
        BY <3>3 DEF Attach
      <4> QED BY <4>1, Zenon
    <3>4. Publish \/ TdEndSlots => pc' # pc
      BY DEF Publish, TdEndSlots, At
    <3> QED BY <3>2, <3>3, <3>4
  <2> QED BY <2>1, <2>2
<1>2. TypeOK /\ IInv /\ [Next]_vars =>
        [~enable => /\ out' = out /\ low' = low
                    /\ (slot' # slot => pc' # pc \/ queue' # queue)]_vars
  BY <1>1
<1> QED BY <1>2, Invariance, PTL DEF Spec, StopsWriting

\* A slot that has ended is changed only by the host writing the next descriptor
\* or a new ring: a teardown overwrites no record, and no record an end.
THEOREM SlotsEndOnce == Spec => EndsOnce
<1>1. ASSUME TypeOK, IInv, [Next]_vars, NEW j \in DOMAIN slot,
             slot[j].status # "PENDING", slot'[j] # slot[j]
      PROVE  slot'[j].status = "PENDING" /\ slot'[j].index = 0
  <2>1. ~ModuleWrite
    BY <1>1, WhatItWrites
  <2>2. Publish \/ TdEndSlots \/ Attach
    BY <1>1, <2>1, WhoWrites
  <2>3. ~TdEndSlots
    BY <1>1 DEF TdEndSlots, TypeOK, ModuleTypeOK
  <2>4. CASE Publish
    <3>1. SlotOf(next) \in 0 .. RingSize - 1
      BY SlotOfType, <1>1 DEF TypeOK, DriverTypeOK
    <3> QED BY <1>1, <2>4, <3>1, SlotUpdate DEF Publish, TypeOK
  <2>5. CASE Attach
    BY <1>1, <2>5 DEF Attach, ZeroSlot, TypeOK, ModuleTypeOK
  <2> QED BY <2>2, <2>3, <2>4, <2>5
<1>2. TypeOK /\ IInv /\ [Next]_vars =>
        [\A j \in DOMAIN slot :
           slot[j].status # "PENDING" /\ slot'[j] # slot[j]
             => slot'[j].status = "PENDING" /\ slot'[j].index = 0]_vars
  BY <1>1
<1> QED BY <1>2, Invariance, PTL DEF Spec, EndsOnce

\* Work left to take, and the module no longer at it, has a command ahead of it.
Waiting == ~svc /\ enable /\ halted = "no" /\ head # tail => cur.live

\* Waiting is kept by every step: service() returns with a slot left to take only
\* if a command is in the tile.
LEMMA WaitingStep == TypeOK /\ IInv /\ Waiting /\ [Next]_vars => Waiting'
<1> SUFFICES ASSUME TypeOK, IInv, Waiting, [Next]_vars PROVE Waiting'
  OBVIOUS
<1> USE DEF Waiting
<1>1. CASE UNCHANGED <<enable, halted, head, tail, svc, cur>>
  BY <1>1
<1>2. ASSUME NEW v, WriteTail(v) PROVE Waiting'
  BY <1>2 DEF WriteTail, Halt
<1>3. CASE DisableQueue
  BY <1>3, DisableQueueStep
<1>4. CASE EnableQueue
  BY <1>4 DEF EnableQueue
<1>5. CASE Driver
  <2>1. CASE Doorbell \/ TdTail
    BY <1>2, <2>1 DEF Doorbell, TdTail
  <2>2. CASE TdStop \/ TdRestart
    BY <1>1, <1>3, <1>4, <2>2 DEF TdStop, TdRestart, Ctrl, modVars
  <2> QED
    BY <1>1, <1>5, <2>1, <2>2
       DEF Driver, Check, Stage, Publish, PollSlot, PollStatus, Reread, End, TdQuiesce, TdEndSlots, modVars, regVars
<1>6. CASE User
  <2>1. CASE Attach \/ AttachUnheard
    BY <2>1 DEF Attach, AttachUnheard
  <2>2. CASE Detach
    BY <1>1, <1>3, <2>2 DEF Detach, Ctrl, modVars
  <2> QED
    BY <1>1, <1>6, <2>1, <2>2 DEF User, Gemm, Teardown, AttachFails, modVars
<1>7. CASE Module
  <2>1. CASE ServiceEnd
    BY <2>1 DEF ServiceEnd, regVars
  <2>2. CASE Run
    BY <2>2 DEF Run, RunGemmEnd, RunCalEnd, RunService
  <2>3. CASE FinishOrphan \/ FinishDone \/ FinishFailed \/ TakeFault \/ TakeAndEnd \/ TakeAndSubmit
    <3>1. svc /\ svc' = svc
      BY <2>3 DEF FinishOrphan, FinishDone, FinishFailed, TakeFault, TakeAndEnd, TakeAndSubmit,
                  FinishReady, TakeReady
    <3> QED BY <3>1
  <2> QED BY <1>7, <2>1, <2>2, <2>3 DEF Module, Service
<1>8. CASE ResetModule
  BY <1>8 DEF ResetModule, Reset
<1>9. CASE SeizeUp \/ Calibrate \/ Reseed \/ UNCHANGED vars
  BY <1>1, <1>9 DEF SeizeUp, Calibrate, CalNow, Reseed, WriteSeed, vars, modVars, regVars
<1> QED BY <1>5, <1>6, <1>7, <1>8, <1>9 DEF Next

\* No doorbell is lost: outside service(), work the module may take waits behind a
\* command the tile has, whose end makes the module serve the ring again.
THEOREM NoDoorbellLost == Spec => []NothingStranded
<1>1. Init => Waiting
  BY DEF Init, Waiting
<1>2. TypeOK /\ IInv /\ Waiting /\ [Next]_vars => Waiting'
  BY WaitingStep
<1>3. IInv /\ Waiting => NothingStranded
  BY DEF IInv, TileInv, TileHolds, Waiting, NothingStranded
<1> QED BY <1>1, <1>2, <1>3, Invariance, PTL DEF Spec

\* A module that hears PTQ_CTRL is on only while its driver holds the ring, and only
\* a reset leaves its base zero.
Heard == ~deaf /\ (enable => queue) /\ (base = "zero" => resets > 0)

\* With a module that hears PTQ_CTRL, Heard is kept by every step.
LEMMA HeardStep == ~MaySeizeUp /\ TypeOK /\ IInv /\ Heard /\ [Next]_vars => Heard'
<1> SUFFICES ASSUME ~MaySeizeUp, TypeOK, IInv, Heard, [Next]_vars PROVE Heard'
  OBVIOUS
<1> USE DEF Heard
<1>1. CASE Driver
  <2>1. UNCHANGED <<queue, deaf, base, resets>>
    BY <1>1 DEF Driver, Check, Stage, Publish, Doorbell, PollSlot, PollStatus, Reread, End, TdStop,
                TdQuiesce, TdEndSlots, TdTail, TdRestart, WriteTail, Ctrl, DisableQueue, EnableQueue,
                queueVars, regVars, modVars
  <2>2. CASE TdRestart
    BY <2>1, <2>2 DEF TdRestart, At, IInv, PcInv
  <2>3. CASE ~TdRestart
    <3>1. enable' => enable
      BY <1>1, <2>3 DEF Driver, Check, Stage, Publish, Doorbell, PollSlot, PollStatus, Reread, End, TdStop,
                TdQuiesce, TdEndSlots, TdTail, WriteTail, Ctrl, DisableQueue, regVars, modVars
    <3> QED BY <2>1, <3>1
  <2> QED BY <2>2, <2>3
<1>2. CASE User
  <2>1. CASE Attach \/ AttachUnheard
    BY <2>1 DEF Attach, AttachUnheard
  <2>2. CASE Detach
    BY <2>2 DEF Detach, Ctrl, DisableQueue
  <2>3. CASE Teardown \/ AttachFails \/ \E k \in Wants, n \in Sizes : Gemm(k, n)
    <3>1. UNCHANGED <<enable, queue, deaf, base, resets>>
      BY <2>3 DEF Gemm, Teardown, AttachFails, modVars, queueVars
    <3> QED BY <3>1
  <2> QED
    BY <1>2, <2>1, <2>2, <2>3 DEF User
<1>3. CASE Module
  <2>1. UNCHANGED <<enable, queue, deaf, base, resets>>
    BY <1>3 DEF Module, Service, Run, FinishOrphan, FinishDone, FinishFailed, TakeFault, TakeAndEnd,
                TakeAndSubmit, ServiceEnd, RunGemmEnd, RunCalEnd, RunService, regVars, drvVars, queueVars
  <2> QED BY <2>1
<1>4. CASE ResetModule
  BY <1>4 DEF ResetModule, Reset, TypeOK, ModuleTypeOK
<1>5. CASE SeizeUp \/ Calibrate \/ Reseed \/ UNCHANGED vars
  BY <1>5 DEF SeizeUp, Calibrate, CalNow, Reseed, WriteSeed, vars, modVars, regVars, drvVars, queueVars
<1> QED BY <1>1, <1>2, <1>3, <1>4, <1>5 DEF Next

\* A module that hears PTQ_CTRL writes only the ring while it is attached and the
\* staging buffer of the GEMM in progress, and, once a reset has left it a base of
\* zero, the line at address 0. (The assumption is needed: without it
\* pta_chiplet_detach_queue gives back memory that is still written.)
THEOREM OwnsWhatIsWritten == ~MaySeizeUp => (Spec => WritesOwnedMemory)
<1> SUFFICES ASSUME ~MaySeizeUp PROVE Spec => WritesOwnedMemory
  OBVIOUS
<1>1. Init => Heard
  BY DEF Init, Heard
<1>2. TypeOK /\ IInv /\ Heard /\ [Next]_vars => Heard'
  BY HeardStep
<1>3. ASSUME TypeOK, IInv, Heard, [Next]_vars
      PROVE  /\ slot' # slot => queue'
             /\ \A a \in Addrs : out'[a] # out[a] => a = stage
             /\ low' # low => resets > 0
  <2>1. CASE slot' = slot /\ low' = low /\ out' = out
    BY <2>1
  <2>2. CASE ModuleWrite
    <3>1. enable /\ head # tail /\ queue /\ queue' = queue
      BY <1>3, <2>2, WhatItWrites DEF Heard, ModuleWrite, drvVars, queueVars
    <3>2. base = "ring" => Published
      BY <1>3, <3>1 DEF IInv, QuietInv, Abandoned, Heard
    <3>3. base = "ring" => slot[SlotOf(head)].cmd.buf = stage
      BY <1>3, <3>1, <3>2 DEF IInv, PublishedInv, MySlot, MyCommand
    <3>4. low' # low => resets > 0
      BY <1>3, <2>2, WhatItWrites DEF Heard
    <3>5. \A a \in Addrs : out'[a] # out[a] => a = stage
      BY <1>3, <2>2, <3>3, WhatItWrites
    <3> QED BY <3>1, <3>4, <3>5
  <2>3. CASE (Publish \/ TdEndSlots \/ Attach) /\ out' = out /\ low' = low
    BY <1>3, <2>3 DEF Publish, TdEndSlots, Attach, At, IInv, PcInv, queueVars
  <2> QED BY <1>3, <2>1, <2>2, <2>3, WhoWrites
<1>4. TypeOK /\ IInv /\ Heard /\ [Next]_vars =>
        [/\ slot' # slot => queue'
         /\ \A a \in Addrs : out'[a] # out[a] => a = stage
         /\ low' # low => resets > 0]_vars
  BY <1>3
<1> QED BY <1>1, <1>2, <1>4, Invariance, PTL DEF Spec, WritesOwnedMemory

-----------------------------------------------------------------------------
(* C10: no slot is left pending, as long as no index comes round to 0.       *)

\* The indices count the calls that have been published, and ended is behind by the
\* one in progress.
CountInv ==
  /\ next <= call /\ call <= MaxCalls
  /\ InCall /\ ~Published => next < call
  /\ Published => next > 0
  /\ ended = IF Published THEN job.idx ELSE next

\* PTQ_HEAD reaches the driver's index only past a slot that has ended, a teardown ends
\* the slot of the call in progress, and no other slot is pending; until the module ends
\* a command at address 0, which lasts until the queue is attached again.
EndedInv ==
  queue /\ ~dead /\ ~EndedElsewhere =>
    /\ head <= next
    /\ pc = "restart" => tail <= next
    /\ Published /\ (head = next \/ pc \in {"tail", "restart", "reread", "end"})
         => MySlot.status # "PENDING"
    /\ \A j \in 0 .. RingSize - 1 : slot[j].cmd # NoCommand /\ slot[j].status = "PENDING" =>
         (pc = "doorbell" \/ Published) /\ j = SlotOf(job.idx)

LEMMA CountStep ==
  ASSUME MaxCalls < IndexMod, TypeOK, IInv, CountInv, [Next]_vars
  PROVE  CountInv'
<1>0. /\ next \in Indices /\ ended \in Indices /\ call \in Nat /\ job \in Jobs /\ pc \in PcValues
      /\ job.idx \in Indices
  BY DEF TypeOK, DriverTypeOK, Jobs
<1> USE DEF CountInv, Published, InCall, Tearing
<1>1. CASE UNCHANGED <<pc, call, job, next, ended>>
  BY <1>1
<1>2. CASE Driver
  <2>1. CASE Check
    BY <1>0, <2>1 DEF Check, Return, At, NoJob, queueVars
  <2>2. CASE Stage
    BY <1>0, <2>2 DEF Stage, Return, At, NoJob, queueVars
  <2>3. CASE Publish
    BY <1>0, <2>3 DEF Publish, At, queueVars
  <2>4. CASE Doorbell
    <3>1. /\ pc = "doorbell" /\ pc' = "poll" /\ next' = Inc(next) /\ call' = call /\ job' = job
          /\ ended' = ended /\ next = job.idx
      BY <2>4 DEF Doorbell, At, IInv, PcInv
    <3>2. next < call /\ ended = next
      BY <3>1
    <3>3. next' = next + 1
      BY <1>0, <3>1, <3>2 DEF Inc, Indices
    <3> QED BY <1>0, <3>1, <3>2, <3>3 DEF Indices
  <2>5. CASE PollSlot \/ PollStatus \/ Reread
    <3>1. /\ pc \in {"poll", "status", "reread"} /\ job'.idx = job.idx
          /\ \/ pc' \in {"poll", "status", "end"}
             \/ pc' = "stop" /\ job'.inGemm = TRUE
          /\ call' = call /\ next' = next /\ ended' = ended
      BY <1>0, <2>5 DEF PollSlot, PollStatus, Reread, At, Jobs, queueVars
    <3> QED BY <1>0, <3>1
  <2>6. CASE End
    BY <1>0, <2>6 DEF End, Return, At, NoJob, Indices
  <2>7. CASE TdStop \/ TdEndSlots \/ TdTail
    BY <1>0, <2>7 DEF TdStop, TdEndSlots, TdTail, At, queueVars
  <2>8. CASE TdQuiesce
    <3>1. CASE ~enable \/ job.polls + 1 < QuiescePolls
      <4>1. /\ pc \in Tearing /\ pc' \in Tearing /\ job'.idx = job.idx /\ job'.inGemm = job.inGemm
            /\ call' = call /\ next' = next /\ ended' = ended
        BY <1>0, <2>8, <3>1 DEF TdQuiesce, At, Jobs
      <4> QED BY <1>0, <4>1
    <3>2. CASE enable /\ ~(job.polls + 1 < QuiescePolls)
      <4>1. /\ pc = "quiesce" /\ pc' = "idle" /\ job' = NoJob /\ call' = call /\ next' = next
            /\ ended' = IF job.inGemm THEN next ELSE ended
        BY <1>0, <2>8, <3>2 DEF TdQuiesce, At, Return
      <4> QED BY <1>0, <4>1 DEF NoJob, Indices
    <3> QED BY <3>1, <3>2
  <2>9. CASE TdRestart
    BY <1>0, <2>9 DEF TdRestart, At, NoJob, queueVars
  <2> QED BY <1>2, <2>1, <2>2, <2>3, <2>4, <2>5, <2>6, <2>7, <2>8, <2>9 DEF Driver
<1>3. CASE User
  <2>1. ASSUME NEW k \in Wants, NEW n \in Sizes, Gemm(k, n) PROVE CountInv'
    BY <1>0, <2>1 DEF Gemm, At, queueVars, Indices
  <2>2. CASE Teardown
    BY <1>0, <2>2 DEF Teardown, At, queueVars, IInv, PcInv
  <2>3. CASE Attach
    BY <1>0, <2>3 DEF Attach, At
  <2>4. CASE Detach \/ AttachUnheard \/ AttachFails
    BY <1>1, <2>4 DEF Detach, AttachUnheard, AttachFails, queueVars
  <2> QED BY <1>3, <2>1, <2>2, <2>3, <2>4 DEF User
<1>4. CASE Module \/ ResetModule \/ SeizeUp \/ Calibrate \/ Reseed \/ UNCHANGED vars
  BY <1>1, <1>4 DEF Module, ResetModule, SeizeUp, Calibrate, Reseed, vars, drvVars, queueVars
<1> QED BY <1>2, <1>3, <1>4 DEF Next

\* A step that moves neither registers nor slots, nor the driver's place in the call.
LEMMA EndedSame ==
  ASSUME EndedInv, UNCHANGED <<pc, job, next, queue, dead, head, tail, base, low, slot>>
  PROVE  EndedInv'
  BY DEF EndedInv, EndedElsewhere, Published, Tearing, MySlot

\* A record of the module's ends the slot of the call in progress, at PTQ_HEAD.
LEMMA RecordEnds ==
  ASSUME TypeOK, IInv, EndedInv, ModuleWrite
  PROVE  EndedInv'
<1> SUFFICES ASSUME queue, ~dead PROVE EndedInv'
  BY DEF EndedInv, ModuleWrite, drvVars, queueVars
<1>0. /\ pc' = pc /\ job' = job /\ next' = next /\ queue' = queue /\ dead' = dead /\ tail' = tail
      /\ base' = base /\ UNCHANGED drvVars
  BY DEF ModuleWrite, FinishDone, FinishFailed, TakeAndEnd, drvVars, queueVars
<1>1. enable /\ head # tail
  BY DEF ModuleWrite, FinishDone, FinishFailed, TakeAndEnd, FinishReady, TakeReady, IInv, RingInv
<1>2. \/ slot' = slot /\ low' = low /\ head' = head
      \/ \E cmd, st, ix : st # "PENDING" /\ Record(head, cmd, st, ix)
  <2>1. CASE FinishDone \/ FinishFailed
    <3>1. cur.idx = head /\ cur.status # "PENDING"
      BY <2>1 DEF FinishDone, FinishFailed, FinishReady, IInv, RingInv
    <3> QED BY <2>1, <3>1 DEF FinishDone, FinishFailed
  <2>2. CASE TakeAndEnd
    BY <2>2 DEF TakeAndEnd
  <2> QED BY <2>1, <2>2 DEF ModuleWrite
<1>3. CASE slot' = slot /\ low' = low /\ head' = head
  BY <1>0, <1>3, EndedSame
<1>4. ASSUME NEW cmd, NEW st, NEW ix, st # "PENDING", Record(head, cmd, st, ix) PROVE EndedInv'
  <2>1. CASE slot' = slot /\ low' = low /\ head' = head
    BY <1>0, <2>1, EndedSame
  <2>3. CASE base = "zero" /\ low' = [cmd |-> cmd, status |-> st, index |-> ix]
    BY <1>0, <1>4, <2>3 DEF EndedInv, EndedElsewhere
  <2>2. CASE /\ base = "ring" /\ head' = Inc(head)
             /\ slot' = [slot EXCEPT ![SlotOf(head)] = [cmd |-> cmd, status |-> st, index |-> ix]]
    <3>1. Published /\ next = Inc(job.idx) /\ tail = next /\ head \in {next, job.idx}
      BY <1>1, <2>2 DEF IInv, QuietInv, Abandoned, PublishedInv
    <3>2. head = job.idx /\ head' = next
      BY <1>1, <2>2, <3>1
    <3>3. /\ SlotOf(job.idx) \in 0 .. RingSize - 1
          /\ slot'[SlotOf(job.idx)].status # "PENDING"
          /\ \A j \in 0 .. RingSize - 1 : j # SlotOf(job.idx) => slot'[j] = slot[j]
      <4>1. SlotOf(head) \in 0 .. RingSize - 1
        BY SlotOfType DEF TypeOK, ModuleTypeOK
      <4>2. /\ slot'[SlotOf(head)] = [cmd |-> cmd, status |-> st, index |-> ix]
            /\ \A j \in 0 .. RingSize - 1 : j # SlotOf(head) => slot'[j] = slot[j]
        BY <2>2, <4>1, SlotUpdate DEF TypeOK
      <4> QED BY <1>4, <3>2, <4>1, <4>2
    <3>4. MySlot'.status # "PENDING" /\ next' <= next' /\ head' <= next' /\ (Published' <=> Published)
      BY <1>0, <3>2, <3>3, DriverSame DEF MySlot, TypeOK, DriverTypeOK, Indices
    <3>5. /\ pc = "restart" => tail <= next
          /\ \A j \in 0 .. RingSize - 1 : slot[j].cmd # NoCommand /\ slot[j].status = "PENDING" =>
               j = SlotOf(job.idx)
      BY <1>0, <2>2 DEF EndedInv, EndedElsewhere
    <3> QED BY <1>0, <3>3, <3>4, <3>5 DEF EndedInv
  <2> QED BY <1>4, <2>1, <2>2, <2>3, RecordCases DEF TypeOK
<1> QED BY <1>2, <1>3, <1>4

\* A teardown ends the slot of the call in progress, unless PTQ_HEAD is past it.
LEMMA TeardownEnds ==
  ASSUME MaxCalls < IndexMod, TypeOK, IInv, CountInv, EndedInv, TdEndSlots
  PROVE  EndedInv'
<1> SUFFICES ASSUME ~EndedElsewhere' PROVE EndedInv'
  BY DEF EndedInv
<1>0. /\ pc = "lost" /\ pc' = "tail" /\ queue /\ ~dead /\ ~EndedElsewhere
      /\ UNCHANGED <<head, tail, job, next, queue, dead>>
  BY DEF EndedElsewhere, TdEndSlots, At, IInv, PcInv, regVars, queueVars
<1>1. /\ slot \in [0 .. RingSize - 1 -> Slots]
      /\ \A j \in 0 .. RingSize - 1 :
           slot'[j] = IF j \in SlotsBetween(StoppedAt, next) /\ slot[j].status = "PENDING"
                      THEN [slot[j] EXCEPT !.status = "LOST"] ELSE slot[j]
  BY DEF TdEndSlots, TypeOK, ModuleTypeOK
<1>2. ASSUME NEW j \in 0 .. RingSize - 1
      PROVE  /\ slot'[j].cmd = slot[j].cmd
             /\ slot'[j].status = "PENDING" =>
                  slot[j].status = "PENDING" /\ j \notin SlotsBetween(StoppedAt, next)
  <2>1. slot[j] \in Slots
    BY <1>1
  <2>2. [slot[j] EXCEPT !.status = "LOST"].status = "LOST"
        /\ [slot[j] EXCEPT !.status = "LOST"].cmd = slot[j].cmd
    BY <2>1 DEF Slots
  <2> QED BY <1>1, <2>2
<1>3. Published' <=> Published
  BY <1>0 DEF Published, Tearing
<1>4. ASSUME Published PROVE MySlot'.status # "PENDING"
  <2>0. head \in Indices /\ next \in Indices /\ job.idx \in Indices /\ ended = job.idx
    BY <1>4 DEF TypeOK, ModuleTypeOK, DriverTypeOK, Jobs, CountInv
  <2>1. next = Inc(job.idx) /\ next > 0
    BY <1>4 DEF IInv, PublishedInv, CountInv
  <2>2. next = job.idx + 1
    BY <2>0, <2>1 DEF Inc, Indices
  <2>3. Dist(next, job.idx) = 1 /\ Dist(job.idx, job.idx) = 0
    BY <2>0, <2>2 DEF Dist, Indices
  <2>4. SlotOf(job.idx) \in 0 .. RingSize - 1
    BY <2>0, SlotOfType
  <2>5. MySlot' = slot'[SlotOf(job.idx)] /\ MySlot = slot[SlotOf(job.idx)]
    BY <1>0 DEF MySlot
  <2>6. CASE head = next
    <3>1. MySlot.status # "PENDING"
      BY <1>0, <1>4, <2>6 DEF EndedInv
    <3> QED BY <1>2, <2>4, <2>5, <3>1
  <2>7. CASE head # next
    <3>1. StoppedAt = job.idx
      <4>1. CASE head = job.idx
        BY <2>0, <2>3, <4>1 DEF StoppedAt
      <4>2. CASE head # job.idx
        <5>1. Dist(head, job.idx) > 1
          BY <2>0, <2>2, <2>7, <4>2 DEF Dist, Indices
        <5> QED BY <2>0, <2>3, <5>1 DEF StoppedAt
      <4> QED BY <4>1, <4>2
    <3>2. SlotOf(job.idx) \in SlotsBetween(StoppedAt, next)
      BY <2>0, <2>3, <3>1 DEF SlotsBetween
    <3> QED BY <1>2, <2>4, <2>5, <3>2
  <2> QED BY <2>6, <2>7
<1>5. ASSUME NEW j \in 0 .. RingSize - 1, slot'[j].cmd # NoCommand, slot'[j].status = "PENDING"
      PROVE  Published' /\ j = SlotOf(job.idx)
  BY <1>0, <1>2, <1>3, <1>5 DEF EndedInv
<1>6. head' <= next'
  BY <1>0 DEF EndedInv
<1> QED BY <1>0, <1>3, <1>4, <1>5, <1>6 DEF EndedInv

\* EndedInv is kept by every step.
LEMMA EndedStep ==
  ASSUME MaxCalls < IndexMod, TypeOK, IInv, CountInv, CountInv', EndedInv, [Next]_vars
  PROVE  EndedInv'
<1>0. /\ next \in Indices /\ head \in Indices /\ tail \in Indices /\ job \in Jobs /\ pc \in PcValues
      /\ job.idx \in Indices /\ next \in Nat /\ slot \in [0 .. RingSize - 1 -> Slots]
  BY DEF TypeOK, DriverTypeOK, ModuleTypeOK, Jobs, Indices
<1>1. \A i \in Indices : SlotOf(i) \in 0 .. RingSize - 1
  BY SlotOfType
<1>2. ASSUME UNCHANGED <<base, low, head, slot, next, queue, dead>>, job'.idx = job.idx,
             Published' => Published \/ pc = "doorbell",
             pc = "doorbell" \/ Published => pc' = "doorbell" \/ Published',
             pc' = "restart" => tail' <= next,
             Published' /\ queue /\ ~dead /\ ~EndedElsewhere
               /\ (head = next \/ pc' \in {"tail", "restart", "reread", "end"})
               => MySlot.status # "PENDING"
      PROVE  EndedInv'
  BY <1>2 DEF EndedInv, EndedElsewhere, MySlot
<1>3. CASE Driver
  <2>1. CASE Check
    BY <1>0, <2>1 DEF Check, Return, At, NoJob, queueVars, modVars, EndedInv, EndedElsewhere, Published, Tearing, MySlot
  <2>2. CASE Stage
    BY <1>0, <2>2 DEF Stage, Return, At, NoJob, queueVars, regVars, EndedInv, EndedElsewhere, Published, Tearing, MySlot
  <2>3. CASE Publish
    <3>1. /\ pc = "publish" /\ pc' = "doorbell" /\ job'.idx = next
          /\ UNCHANGED <<base, low, head, tail, next, queue, dead>>
          /\ \A j \in 0 .. RingSize - 1 : j # SlotOf(next) => slot'[j] = slot[j]
      BY <1>0, <2>3 DEF Publish, At, Jobs, regVars, queueVars
    <3> QED BY <3>1 DEF EndedInv, EndedElsewhere, Published, Tearing
  <2>4. CASE Doorbell
    <3>1. /\ pc = "doorbell" /\ pc' = "poll" /\ next' = Inc(next)
          /\ UNCHANGED <<job, queue, dead, base, low, head, slot>> /\ next = job.idx
      BY <2>4 DEF Doorbell, WriteTail, At, memVars, IInv, PcInv
    <3>2. next' > 0 /\ Published'
      BY <3>1 DEF CountInv, Published
    <3>3. next' = next + 1
      BY <1>0, <3>1, <3>2 DEF Inc, Indices
    <3>4. queue /\ ~dead /\ ~EndedElsewhere => head <= next'  /\ head # next'
      BY <1>0, <3>3 DEF EndedInv, Indices
    <3> QED BY <3>1, <3>2, <3>4 DEF EndedInv, EndedElsewhere, Published, Tearing
  <2>5. CASE PollSlot \/ PollStatus
    <3>1. /\ UNCHANGED <<base, low, head, tail, slot, next, queue, dead>> /\ job'.idx = job.idx
          /\ pc \in {"poll", "status"}
          /\ \/ pc' \in {"poll", "status"}
             \/ pc' = "end" /\ MySlot.status # "PENDING"
             \/ pc' = "stop" /\ job'.inGemm = TRUE
      BY <1>0, <2>5 DEF PollSlot, PollStatus, At, Jobs, modVars, queueVars
    <3>2. Published /\ Published'
      BY <3>1 DEF Published, Tearing
    <3> QED BY <1>2, <3>1, <3>2 DEF EndedInv
  <2>6. CASE Reread
    <3>1. /\ UNCHANGED <<base, low, head, tail, slot, next, queue, dead>> /\ job'.idx = job.idx
          /\ pc = "reread" /\ pc' = "end" /\ queue /\ ~dead
      BY <1>0, <2>6 DEF Reread, At, Jobs, modVars, queueVars, IInv, PcInv
    <3>2. Published /\ Published'
      BY <3>1 DEF Published
    <3> QED BY <1>2, <3>1, <3>2 DEF EndedInv
  <2>7. CASE End
    <3>1. /\ UNCHANGED <<base, low, head, slot, next, queue, dead>> /\ pc = "end" /\ pc' = "idle"
      BY <2>7 DEF End, Return, At, modVars
    <3>2. Published /\ ~Published'
      BY <3>1 DEF Published, Tearing
    <3>3. queue /\ ~dead /\ ~EndedElsewhere =>
            \A j \in 0 .. RingSize - 1 : ~(slot[j].cmd # NoCommand /\ slot[j].status = "PENDING")
      BY <3>1, <3>2 DEF EndedInv, MySlot
    <3> QED BY <3>1, <3>2, <3>3 DEF EndedInv, EndedElsewhere
  <2>8. CASE TdStop
    <3>1. /\ UNCHANGED <<base, low, head, tail, slot, next, queue, dead, job>> /\ pc = "stop" /\ pc' = "quiesce"
      BY <2>8 DEF TdStop, At, Ctrl, DisableQueue, modVars, memVars, queueVars
    <3>2. Published <=> Published'
      BY <3>1 DEF Published, Tearing
    <3> QED BY <1>2, <3>1, <3>2 DEF EndedInv
  <2>9. CASE TdQuiesce
    <3>1. UNCHANGED <<base, low, head, tail, slot, next, queue>> /\ pc = "quiesce"
      BY <2>9 DEF TdQuiesce, At, modVars
    <3>2. CASE dead'
      BY <3>2 DEF EndedInv
    <3>3. CASE ~dead'
      <4>1. dead' = dead /\ job'.idx = job.idx /\ job'.inGemm = job.inGemm /\ pc' \in {"quiesce", "lost"}
        BY <1>0, <2>9, <3>3 DEF TdQuiesce, At, Jobs
      <4>2. Published <=> Published'
        BY <3>1, <4>1 DEF Published, Tearing
      <4> QED BY <1>2, <3>1, <4>1, <4>2 DEF EndedInv
    <3> QED BY <3>2, <3>3
  <2>10. CASE TdEndSlots
    BY <2>10, TeardownEnds
  <2>11. CASE TdTail
    <3>1. /\ UNCHANGED <<base, low, head, slot, next, queue, dead, job>> /\ pc = "tail" /\ pc' = "restart" /\ tail' = next
      BY <2>11 DEF TdTail, WriteTail, At, memVars, queueVars, IInv, PcInv
    <3>2. Published <=> Published'
      BY <3>1 DEF Published, Tearing
    <3>3. tail' <= next
      BY <1>0, <3>1
    <3> QED BY <1>2, <3>1, <3>2, <3>3 DEF EndedInv
  <2>12. CASE TdRestart
    <3>1. /\ UNCHANGED <<base, low, slot, next, queue, dead>> /\ pc = "restart" /\ queue /\ ~dead
          /\ pc' = IF job.inGemm THEN "reread" ELSE "idle"
          /\ job' = IF job.inGemm THEN job ELSE NoJob
          /\ head' = head \/ head' = tail
      BY <2>12 DEF TdRestart, At, Ctrl, EnableQueue, modVars, memVars, queueVars, IInv, PcInv
    <3>0. CASE EndedElsewhere
      BY <3>0, <3>1 DEF EndedInv, EndedElsewhere
    <3> SUFFICES ASSUME ~EndedElsewhere PROVE EndedInv'
      BY <3>0
    <3>2. head' <= next
      BY <3>1 DEF EndedInv
    <3>3. CASE job.inGemm
      <4>1. Published /\ Published'
        BY <3>1, <3>3 DEF Published, Tearing
      <4>2. MySlot.status # "PENDING" /\ MySlot' = MySlot
        BY <3>1, <3>3, <4>1 DEF EndedInv, MySlot
      <4> QED BY <3>1, <3>2, <3>3, <4>1, <4>2 DEF EndedInv
    <3>4. CASE ~job.inGemm
      <4>1. ~Published /\ ~Published'
        BY <3>1, <3>4 DEF Published, Tearing
      <4> QED BY <3>1, <3>2, <3>4, <4>1 DEF EndedInv
    <3> QED BY <3>3, <3>4
  <2> QED BY <1>3, <2>1, <2>2, <2>3, <2>4, <2>5, <2>6, <2>7, <2>8, <2>9, <2>10, <2>11, <2>12 DEF Driver
<1>4. CASE User
  <2>1. ASSUME NEW k \in Wants, NEW n \in Sizes, Gemm(k, n) PROVE EndedInv'
    BY <1>0, <2>1 DEF Gemm, At, queueVars, modVars, EndedInv, EndedElsewhere, Published, Tearing
  <2>2. CASE Teardown
    <3>1. /\ UNCHANGED <<base, low, head, slot, next, queue, dead, job>> /\ pc = "idle" /\ pc' = "stop" /\ ~job.inGemm
      BY <2>2 DEF Teardown, At, queueVars, modVars, IInv, PcInv
    <3>2. ~Published /\ ~Published'
      BY <3>1 DEF Published, Tearing
    <3> QED BY <3>1, <3>2 DEF EndedInv, EndedElsewhere
  <2>3. CASE Detach \/ AttachUnheard
    BY <2>3 DEF Detach, AttachUnheard, queueVars, EndedInv
  <2>4. CASE Attach
    <3>1. /\ pc' = "idle" /\ head' = 0 /\ next' = 0 /\ slot' = [j \in 0 .. RingSize - 1 |-> ZeroSlot]
      BY <2>4 DEF Attach, At
    <3>2. ZeroSlot.cmd = NoCommand
      BY DEF ZeroSlot
    <3> QED BY <3>1, <3>2 DEF EndedInv, Published, Tearing
  <2>5. CASE AttachFails
    BY <2>5, EndedSame DEF AttachFails, modVars, queueVars
  <2> QED BY <1>4, <2>1, <2>2, <2>3, <2>4, <2>5 DEF User
<1>5. CASE Module
  <2>1. CASE ModuleWrite
    BY <2>1, RecordEnds
  <2>2. CASE ~ModuleWrite
    <3>1. UNCHANGED <<pc, job, next, queue, dead, head, tail, base, low, slot>>
      BY <1>5, <2>2 DEF Module, Service, Run, ModuleWrite, FinishOrphan, TakeFault, TakeAndSubmit, ServiceEnd,
                        RunGemmEnd, RunCalEnd, RunService, regVars, memVars, drvVars, queueVars
    <3> QED BY <3>1, EndedSame
  <2> QED BY <2>1, <2>2
<1>6. CASE ResetModule
  <2>1. /\ head' = 0 /\ tail' = 0 /\ UNCHANGED <<pc, job, next, queue, dead, slot>>
        /\ ~EndedElsewhere' => ~EndedElsewhere
    BY <1>6 DEF EndedElsewhere, ResetModule, Reset, memVars, queueVars
  <2>2. Published' <=> Published
    BY <2>1 DEF Published
  <2>3. Published => next # 0
    BY DEF CountInv
  <2>4. MySlot' = MySlot
    BY <2>1 DEF MySlot
  <2> QED BY <1>0, <2>1, <2>2, <2>3, <2>4 DEF EndedInv
<1>7. CASE SeizeUp \/ Calibrate \/ Reseed \/ UNCHANGED vars
  BY <1>7, EndedSame DEF SeizeUp, Calibrate, CalNow, Reseed, WriteSeed, vars, modVars, regVars, memVars, drvVars, queueVars
<1> QED BY <1>3, <1>4, <1>5, <1>6, <1>7 DEF Next

\* C10, for a driver that makes fewer calls than there are indices: between calls no slot is
\* left pending, whatever halts, memory calls that fail, waits that run out and resets there
\* are, as long as a module whose base a reset has left zero has ended no command at address
\* 0 (then one is: AllSlotsEnd, the reset run). With an index that has come round to 0, a
\* reset's PTQ_HEAD of 0 would be taken for one the module reached.
THEOREM SlotsAllEnd == MaxCalls < IndexMod => (Spec => []NoneLeftPending)
<1> SUFFICES ASSUME MaxCalls < IndexMod PROVE Spec => []NoneLeftPending
  OBVIOUS
<1>1. Init => CountInv /\ EndedInv
  BY DEF Init, CountInv, EndedInv, InCall, Published, Tearing, ZeroSlot
<1>2. TypeOK /\ IInv /\ (CountInv /\ EndedInv) /\ [Next]_vars => (CountInv /\ EndedInv)'
  BY CountStep, EndedStep
<1>3. TypeOK /\ EndedInv => NoneLeftPending
  BY DEF EndedInv, NoneLeftPending, AllSlotsEnd, At, Published, Tearing, TypeOK, ModuleTypeOK
<1> QED BY <1>1, <1>2, <1>3, Invariance, PTL DEF Spec

=============================================================================

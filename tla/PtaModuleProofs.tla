--------------------------- MODULE PtaModuleProofs ---------------------------
(***************************************************************************)
(* What the proofs about the module need whoever the host is: what an      *)
(* operation of the module or the tile can do, and that the tile has the   *)
(* module's command exactly while it is pending (TileHolds).               *)
(***************************************************************************)
EXTENDS PtaModule, TLAPS

USE IndexModAssumption, RingSizeAssumption, NoAddrAssumption, BoundAssumption

\* slot_of() of an index is a slot of the ring.
LEMMA SlotOfType == \A i \in Indices : SlotOf(i) \in 0 .. RingSize - 1
  BY SMT DEF SlotOf, Indices

\* An index plus one, modulo 2^32, is an index, and another one.
LEMMA IncType == \A i \in Indices : Inc(i) \in Indices /\ Inc(i) # i
  BY DEF Inc, Indices

\* The values that name the absence of something are of the types they are used in.
LEMMA ModuleConstTypes ==
  /\ 0 \in Indices
  /\ NoResult \in Results /\ Torn \in Results
  /\ NoCommand \in Commands /\ ZeroSlot \in Slots
  /\ NoInflight \in Inflight /\ IdleTile \in TileStates
  BY DEF NoInflight, Inflight, IdleTile, TileStates, ZeroSlot, Slots, NoCommand, Commands,
         NoResult, Torn, Results, Indices, NoIndex, NoId, Kinds, Statuses

\* record() either writes the line, moves PTQ_HEAD and notes how the command ended,
\* in the ring the host programmed or, with a base of zero, at address 0; or it
\* halts and does none of it.
LEMMA RecordCases ==
  ASSUME NEW idx, NEW cmd, NEW st, NEW ix, ModuleTypeOK, Record(idx, cmd, st, ix)
  PROVE  /\ faults' \in Nat
         /\ \/ /\ base = "ring" /\ low' = low
               /\ slot' = [slot EXCEPT ![SlotOf(idx)] = [cmd |-> cmd, status |-> st, index |-> ix]]
               /\ head' = Inc(idx) /\ prev' = st /\ halted' = halted
            \/ /\ base = "zero" /\ slot' = slot
               /\ low' = [cmd |-> cmd, status |-> st, index |-> ix]
               /\ head' = Inc(idx) /\ prev' = st /\ halted' = halted
            \/ UNCHANGED <<slot, low, head, prev>> /\ halted' = "MEMORY"
<1>1. faults \in Nat /\ (CountFault => faults' \in Nat)
  BY DEF CountFault, ModuleTypeOK
<1> DEFINE line == [cmd |-> cmd, status |-> st, index |-> ix]
<1>2. \/ /\ WriteLine(idx, line)
         /\ head' = Inc(idx)
         /\ prev' = st
         /\ UNCHANGED <<halted, faults>>
      \/ /\ halted' = "MEMORY"
         /\ CountFault
         /\ UNCHANGED <<slot, low, head, prev>>
  BY DEF Record, Halt
<1>3. ASSUME WriteLine(idx, line)
      PROVE  \/ base = "ring" /\ slot' = [slot EXCEPT ![SlotOf(idx)] = line] /\ low' = low
             \/ base = "zero" /\ low' = line /\ slot' = slot
  BY <1>3 DEF WriteLine
<1>. QED
  BY <1>1, <1>2, <1>3

\* A write to one slot of the ring leaves the others alone.
LEMMA SlotUpdate ==
  ASSUME ModuleTypeOK, NEW k \in 0 .. RingSize - 1, NEW v, slot' = [slot EXCEPT ![k] = v]
  PROVE  /\ DOMAIN slot' = DOMAIN slot /\ DOMAIN slot = 0 .. RingSize - 1
         /\ slot'[k] = v
         /\ \A j \in DOMAIN slot : j # k => slot'[j] = slot[j]
  BY DEF ModuleTypeOK

\* gemm_begin() refuses the command or runs it under the tile's next index, and
\* changes nothing else about it.
LEMMA GemmBeginStep ==
  ASSUME ModuleTypeOK, NEW f \in Inflight, GemmBegin(f)
  PROVE  /\ cur' \in Inflight /\ tile' \in TileStates
         /\ cur'.live = f.live /\ cur'.orphan = f.orphan /\ cur'.idx = f.idx
         /\ cur'.cmd = f.cmd /\ cur'.ops = f.ops /\ cur'.index = f.index
         /\ ~tile'.queued /\ tile'.calPending = tile.calPending
         /\ \/ cur'.status = "REFUSED" /\ tile'.state = "IDLE"
            \/ cur'.status = f.status /\ tile'.state = "GEMM" /\ cur'.ran = tile.gemmCt
<1>1. CASE cur' = [f EXCEPT !.status = "REFUSED"]
           /\ tile' = [tile EXCEPT !.state = "IDLE", !.queued = FALSE]
  BY <1>1 DEF ModuleTypeOK, Inflight, TileStates
<1>2. CASE cur' = [f EXCEPT !.ran = tile.gemmCt]
           /\ tile' = [tile EXCEPT !.state = "GEMM", !.queued = FALSE, !.gemmCt = Inc(@)]
  <2>1. tile.gemmCt \in Indices /\ Inc(tile.gemmCt) \in Indices
    BY IncType DEF ModuleTypeOK, TileStates
  <2>2. cur' \in Inflight
    BY <1>2, <2>1 DEF Inflight
  <2>3. tile' \in TileStates
    BY <1>2, <2>1 DEF ModuleTypeOK, TileStates
  <2>. QED
    BY <1>2, <2>2, <2>3 DEF ModuleTypeOK, Inflight, TileStates
<1> QED BY <1>1, <1>2 DEF GemmBegin

\* pta_twin_submit() of a command whose index is the tile's count: the tile has it, or
\* has refused it, and TileHolds.
LEMMA SubmitStep ==
  ASSUME ModuleTypeOK, TileHolds, ~cur.live, NEW f \in Inflight, f.live, f.index = tile.gemmCt,
         f.status = "PENDING", Submit(f)
  PROVE  /\ cur' \in Inflight /\ tile' \in TileStates /\ TileHolds'
         /\ cur'.live = f.live /\ cur'.orphan = f.orphan /\ cur'.idx = f.idx
         /\ cur'.cmd = f.cmd /\ cur'.ops = f.ops
<1>1. CASE tile.state = "IDLE" /\ ~tile.calPending /\ GemmBegin(f)
  BY <1>1, GemmBeginStep DEF ModuleTypeOK, TileHolds, TileStates
<1>2. CASE (tile.state # "IDLE" \/ tile.calPending) /\ cur' = f /\ tile' = [tile EXCEPT !.queued = TRUE]
  BY <1>2 DEF ModuleTypeOK, TileHolds, TileStates
<1> QED BY <1>1, <1>2 DEF Submit

\* A GEMM or a calibration that ends in the tile, and a reset of the tile, leave the
\* module its command and TileHolds.
LEMMA TileEvent ==
  ASSUME ModuleTypeOK, TileHolds, Run \/ TileReset
  PROVE  /\ cur' \in Inflight /\ tile' \in TileStates /\ TileHolds'
         /\ cur'.live = cur.live /\ cur'.orphan = cur.orphan /\ cur'.idx = cur.idx
         /\ cur'.cmd = cur.cmd /\ cur'.ops = cur.ops
<1>1. CASE RunGemmEnd
  BY <1>1 DEF RunGemmEnd, TileHolds, ModuleTypeOK, Inflight, TileStates
<1>2. CASE RunCalEnd
  <2>1. CASE tile' = [tile EXCEPT !.calPending = FALSE] /\ cur' = cur
    BY <1>2, <2>1 DEF RunCalEnd, TileHolds, ModuleTypeOK, TileStates
  <2>2. CASE ~tile.calPending /\ tile.queued /\ GemmBegin(cur)
    BY <1>2, <2>2, GemmBeginStep DEF RunCalEnd, TileHolds, ModuleTypeOK
  <2>3. CASE ~tile.calPending /\ ~tile.queued /\ tile' = [tile EXCEPT !.state = "IDLE"] /\ cur' = cur
    BY <1>2, <2>3 DEF RunCalEnd, TileHolds, ModuleTypeOK, TileStates
  <2> QED BY <1>2, <2>1, <2>2, <2>3 DEF RunCalEnd
<1>3. CASE RunService
  BY <1>3 DEF RunService, TileHolds, ModuleTypeOK
<1>4. CASE TileReset
  <2>1. tile' \in TileStates /\ tile' = IdleTile
    BY <1>4, ModuleConstTypes DEF TileReset
  <2>2. CASE tile.state = "GEMM" \/ tile.queued
    <3>1. cur' = [cur EXCEPT !.status = "LOST"]
      BY <1>4, <2>2 DEF TileReset
    <3>2. /\ cur' \in Inflight /\ cur'.status = "LOST"
          /\ cur'.live = cur.live /\ cur'.orphan = cur.orphan /\ cur'.idx = cur.idx
          /\ cur'.cmd = cur.cmd /\ cur'.ops = cur.ops
      BY <3>1 DEF ModuleTypeOK, Inflight
    <3> QED BY <2>1, <3>2 DEF TileHolds, IdleTile
  <2>3. CASE ~(tile.state = "GEMM" \/ tile.queued)
    BY <1>4, <2>1, <2>3 DEF TileReset, TileHolds, ModuleTypeOK, IdleTile, TileStates
  <2> QED BY <2>2, <2>3
<1> QED BY <1>1, <1>2, <1>3, <1>4 DEF Run

\* CAL_NOW does too.
LEMMA CalNowStep ==
  ASSUME ModuleTypeOK, TileHolds, CalNow
  PROVE  tile' \in TileStates /\ TileHolds'
  BY DEF CalNow, TileHolds, ModuleTypeOK, TileStates

=============================================================================

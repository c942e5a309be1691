------------------------------ MODULE PtaDriver ------------------------------
(***************************************************************************)
(* The host's driver for the PTA (pta_chiplet.cpp) and its queue transport *)
(* against the module (PtaModule). A GEMM is copied into a staging buffer, *)
(* published in the ring, rung, and polled for; a halt or a wait that runs *)
(* out tears the queue down. pc is where the driver's one thread is; each  *)
(* action is the code up to the next point at which the module's time may  *)
(* pass, and none runs while the module is inside service().               *)
(***************************************************************************)
EXTENDS PtaModule

CONSTANTS
  MaxCalls,       \* bound: pta_chiplet_gemm calls
  QueuePolls,     \* kQueuePolls
  QuiescePolls,   \* kQuiescePolls
  MaySeizeUp      \* may the module stop hearing PTQ_CTRL?

ASSUME PollsAssumption == QueuePolls \in Nat \ {0} /\ QuiescePolls \in Nat \ {0}
ASSUME CallsAssumption == MaxCalls \in Nat /\ MaySeizeUp \in BOOLEAN

VARIABLES
  pc,          \* where the driver is
  call,        \* which pta_chiplet_gemm call this is
  job,         \* the locals of that call, and of a teardown
  queue,       \* dev->queue: attached
  dead,        \* dev->queue_dead
  next, ended, \* dev->next, dev->ended
  stage,       \* dev->stage.addr
  bytes,       \* dev->stage.bytes
  C,           \* the caller's results
  error,       \* dev->error
  lastIndex,   \* dev->last_index
  deaf         \* the module no longer hears PTQ_CTRL

queueVars == <<queue, dead, next, ended>>
stageVars == <<stage, bytes>>
retVars   == <<C, error, lastIndex>>
drvVars   == <<pc, call, job, queueVars, stageVars, retVars, deaf>>
vars      == <<modVars, drvVars>>

-----------------------------------------------------------------------------
Sizes  == {1, 2}
Errors == {"NO_LINK", "NOT_ACCEPTED", "REFUSED", "WEDGED", "LOST", "FORMAT"}

\* What a call may ask: a descriptor of some kind, bad arguments, or operands
\* outside int8.
Wants  == Kinds \cup {"badargs", "int9"}

\* What the call wants and the staging bytes it needs, the slot it is published
\* in, the status read from that slot, passes of the wait in progress, and
\* whether the teardown in progress is queue_gemm's own.
Jobs  == [kind : Wants, need : Sizes, idx : Indices, st : Statuses, polls : Nat,
          inGemm : BOOLEAN]
NoJob == [kind |-> "badargs", need |-> 1, idx |-> 0, st |-> "PENDING", polls |-> 0,
          inGemm |-> FALSE]

Tearing  == {"stop", "quiesce", "lost", "tail", "restart"}
PcValues == {"idle", "check", "stage", "publish", "doorbell", "poll", "status",
             "reread", "end"} \cup Tearing

DriverTypeOK ==
  /\ pc \in PcValues
  /\ call \in Nat
  /\ job \in Jobs
  /\ queue \in BOOLEAN /\ dead \in BOOLEAN
  /\ next \in Indices /\ ended \in Indices
  /\ stage \in Addrs \cup {NoAddr}
  /\ bytes \in {0} \cup Sizes
  /\ C \in Results
  /\ error \in Errors \cup {"OK"}
  /\ lastIndex \in Indices \cup {NoIndex}
  /\ deaf \in BOOLEAN

TypeOK == ModuleTypeOK /\ DriverTypeOK

-----------------------------------------------------------------------------
\* A device whose queue pta_chiplet_attach_queue has just attached.
Init ==
  /\ enable = TRUE /\ base = "ring" /\ tail = 0 /\ head = 0
  /\ halted = "no" /\ prev = "PENDING"
  /\ cur = NoInflight /\ tile = IdleTile /\ svc = FALSE
  /\ slot = [j \in 0 .. RingSize - 1 |-> ZeroSlot] /\ low = ZeroSlot
  /\ opnd = [a \in Addrs |-> NoId]
  /\ out = [a \in Addrs |-> NoResult]
  /\ faults = 0 /\ resets = 0
  /\ pc = "idle" /\ call = 0 /\ job = NoJob
  /\ queue = TRUE /\ dead = FALSE
  /\ next = 0 /\ ended = 0
  /\ stage = NoAddr /\ bytes = 0
  /\ C = NoResult /\ error = "OK" /\ lastIndex = NoIndex
  /\ deaf = FALSE

-----------------------------------------------------------------------------
(* pta_chiplet_gemm and queue_gemm. *)

At(p) == ~svc /\ pc = p

\* The call returns, and its locals are gone; -1 is an error other than OK.
Return(e) == pc' = "idle" /\ job' = NoJob /\ error' = e

\* The call: dev->last_index is -1 until it is known better.
Gemm(kind, need) ==
  /\ At("idle")
  /\ call < MaxCalls
  /\ call' = call + 1
  /\ job' = [NoJob EXCEPT !.kind = kind, !.need = need]
  /\ C' = NoResult
  /\ lastIndex' = NoIndex
  /\ pc' = "check"
  /\ UNCHANGED <<modVars, queueVars, stageVars, error, deaf>>

\* What is turned away before anything is staged: no transport, a dead queue,
\* arguments, operands outside int8, a full ring.
Rejection ==
  IF ~queue THEN "NO_LINK"
  ELSE IF dead THEN "WEDGED"
  ELSE IF job.kind = "badargs" THEN "NOT_ACCEPTED"
  ELSE IF job.kind = "int9" THEN "FORMAT"
  ELSE IF Dist(next, ended) >= RingSize THEN "NOT_ACCEPTED" ELSE "OK"

Check ==
  /\ At("check")
  /\ \/ Rejection # "OK" /\ Return(Rejection)
     \/ Rejection = "OK" /\ pc' = "stage" /\ UNCHANGED <<job, error>>
  /\ UNCHANGED <<modVars, call, queueVars, stageVars, C, lastIndex, deaf>>

\* The staging buffer, grown if it is too small, and the operands into it. The
\* buffer given up is freed first, so the new one may come at its address.
Stage ==
  /\ At("stage")
  /\ \/ /\ bytes >= job.need
        /\ opnd' = [opnd EXCEPT ![stage] = call]
        /\ pc' = "publish"
        /\ UNCHANGED <<stageVars, job, error>>
     \/ /\ bytes < job.need
        /\ \E a \in Addrs : stage' = a /\ opnd' = [opnd EXCEPT ![a] = call]
        /\ bytes' = job.need
        /\ pc' = "publish"
        /\ UNCHANGED <<job, error>>
     \/ /\ bytes < job.need
        /\ stage' = NoAddr /\ bytes' = 0
        /\ Return("NOT_ACCEPTED")
        /\ UNCHANGED opnd
  /\ UNCHANGED <<regVars, cur, tile, svc, slot, low, out, faults, resets, call,
                 queueVars, C, lastIndex, deaf>>

\* The descriptor into the next slot, its status zero.
Publish ==
  /\ At("publish")
  /\ slot' = [slot EXCEPT ![SlotOf(next)] =
                [cmd |-> [id |-> call, kind |-> job.kind, after |-> FALSE, buf |-> stage],
                 status |-> "PENDING", index |-> 0]]
  /\ job' = [job EXCEPT !.idx = next]
  /\ pc' = "doorbell"
  /\ UNCHANGED <<regVars, cur, tile, svc, low, opnd, out, faults, resets, call,
                 queueVars, stageVars, retVars, deaf>>

\* ++dev->next, and the doorbell.
Doorbell ==
  /\ At("doorbell")
  /\ next' = Inc(next)
  /\ WriteTail(Inc(next))
  /\ pc' = "poll"
  /\ UNCHANGED <<call, job, queue, dead, ended, stageVars, retVars, deaf>>

MySlot == slot[SlotOf(job.idx)]

\* One look at the slot.
PollSlot ==
  /\ At("poll")
  /\ job' = [job EXCEPT !.st = MySlot.status]
  /\ pc' = IF MySlot.status # "PENDING" THEN "end" ELSE "status"
  /\ UNCHANGED <<modVars, call, queueVars, stageVars, retVars, deaf>>

\* Mutant of PollStatus: the passes are not counted.
PollForever ==
  /\ At("status")
  /\ \/ halted = "no" /\ pc' = "poll" /\ UNCHANGED job
     \/ halted # "no" /\ pc' = "stop" /\ job' = [job EXCEPT !.polls = 0, !.inGemm = TRUE]
  /\ UNCHANGED <<modVars, call, queueVars, stageVars, retVars, deaf>>

\* And one at PTQ_STATUS: halted, or out of patience, is a teardown.
PollStatus ==
  /\ At("status")
  /\ \/ /\ halted = "no" /\ job.polls + 1 < QueuePolls
        /\ job' = [job EXCEPT !.polls = @ + 1]
        /\ pc' = "poll"
     \/ /\ halted # "no" \/ job.polls + 1 >= QueuePolls
        /\ job' = [job EXCEPT !.polls = 0, !.inGemm = TRUE]
        /\ pc' = "stop"
  /\ UNCHANGED <<modVars, call, queueVars, stageVars, retVars, deaf>>

\* The slot's status again, after a teardown that worked.
Reread ==
  /\ At("reread")
  /\ job' = [job EXCEPT !.st = MySlot.status]
  /\ pc' = "end"
  /\ UNCHANGED <<modVars, call, queueVars, stageVars, retVars, deaf>>

\* How a call ends that is not done, by its slot's status.
ErrorOf(st) == IF st = "REFUSED" THEN "REFUSED"
               ELSE IF st \in {"NOT_ISSUED", "NOT_RUN"} THEN "NOT_ACCEPTED" ELSE "LOST"

End ==
  /\ At("end")
  /\ ended' = next
  /\ \/ /\ job.st = "DONE"
        /\ C' = out[stage]
        /\ lastIndex' = MySlot.index
        /\ Return("OK")
     \/ /\ job.st # "DONE"
        /\ Return(ErrorOf(job.st))
        /\ UNCHANGED <<C, lastIndex>>
  /\ UNCHANGED <<modVars, call, queue, dead, next, stageVars, deaf>>

-----------------------------------------------------------------------------
(* pta_chiplet_queue_teardown. *)

\* A write of PTQ_CTRL, as the module hears it.
Ctrl(Write) == IF deaf THEN UNCHANGED modVars ELSE Write

\* Called by the driver's user, between GEMMs.
Teardown ==
  /\ At("idle")
  /\ queue /\ ~dead
  /\ pc' = "stop"
  /\ UNCHANGED <<modVars, call, job, queueVars, stageVars, retVars, deaf>>

TdStop ==
  /\ At("stop")
  /\ Ctrl(DisableQueue)
  /\ pc' = "quiesce"
  /\ UNCHANGED <<call, job, queueVars, stageVars, retVars, deaf>>

\* Mutant of TdQuiesce: told to stop is taken for stopped.
TdNoWait ==
  /\ At("quiesce")
  /\ pc' = "lost"
  /\ UNCHANGED <<modVars, call, job, queueVars, stageVars, retVars, deaf>>

\* Wait until ENABLED reads 0. A module that never says so leaves the queue
\* dead, and the GEMM in progress is wedged.
TdQuiesce ==
  /\ At("quiesce")
  /\ \/ /\ ~enable
        /\ pc' = "lost"
        /\ UNCHANGED <<job, dead, ended, error>>
     \/ /\ enable /\ job.polls + 1 < QuiescePolls
        /\ job' = [job EXCEPT !.polls = @ + 1]
        /\ UNCHANGED <<pc, dead, ended, error>>
     \/ /\ enable /\ job.polls + 1 >= QuiescePolls
        /\ dead' = TRUE
        /\ IF job.inGemm THEN ended' = next /\ Return("WEDGED")
                         ELSE Return(error) /\ UNCHANGED ended
  /\ UNCHANGED <<modVars, call, queue, next, stageVars, C, lastIndex, deaf>>

\* Where the module stopped: PTQ_HEAD, unless it is not among our slots.
StoppedAt == IF Dist(head, ended) > Dist(next, ended) THEN ended ELSE head

\* Mutant of TdEndSlots: slots the module has ended are ended again.
TdEndsAll ==
  /\ At("lost")
  /\ slot' = [j \in 0 .. RingSize - 1 |->
                IF j \in SlotsBetween(StoppedAt, next)
                THEN [slot[j] EXCEPT !.status = "LOST"] ELSE slot[j]]
  /\ pc' = "tail"
  /\ UNCHANGED <<regVars, cur, tile, svc, low, opnd, out, faults, resets, call, job,
                 queueVars, stageVars, retVars, deaf>>

\* Every slot the module did not end, ended lost.
TdEndSlots ==
  /\ At("lost")
  /\ slot' = [j \in 0 .. RingSize - 1 |->
                IF j \in SlotsBetween(StoppedAt, next) /\ slot[j].status = "PENDING"
                THEN [slot[j] EXCEPT !.status = "LOST"] ELSE slot[j]]
  /\ pc' = "tail"
  /\ UNCHANGED <<regVars, cur, tile, svc, low, opnd, out, faults, resets, call, job,
                 queueVars, stageVars, retVars, deaf>>

TdTail ==
  /\ At("tail")
  /\ WriteTail(next)
  /\ pc' = "restart"
  /\ UNCHANGED <<call, job, queueVars, stageVars, retVars, deaf>>

\* Start it again, empty.
TdRestart ==
  /\ At("restart")
  /\ Ctrl(EnableQueue)
  /\ pc' = IF job.inGemm THEN "reread" ELSE "idle"
  /\ job' = IF job.inGemm THEN job ELSE NoJob
  /\ UNCHANGED <<call, queueVars, stageVars, retVars, deaf>>

-----------------------------------------------------------------------------
(* pta_chiplet_detach_queue and pta_chiplet_attach_queue. *)

Detach ==
  /\ At("idle")
  /\ queue
  /\ Ctrl(DisableQueue)
  /\ queue' = FALSE
  /\ stage' = NoAddr /\ bytes' = 0
  /\ UNCHANGED <<pc, call, job, dead, next, ended, retVars, deaf>>

\* Attach after a detach: a ring of zeros, PTQ_CTRL 0, BASE, SIZE, TAIL 0 and
\* ENABLE, read back. The header has only a reset bring a module back that would
\* not stop, so one that is on and deaf is not attached to.
Attach ==
  /\ At("idle")
  /\ ~queue /\ ~deaf
  /\ slot' = [j \in 0 .. RingSize - 1 |-> ZeroSlot]
  /\ cur' = IF enable THEN [cur EXCEPT !.orphan = cur.live] ELSE cur
  /\ base' = "ring"
  /\ tail' = 0 /\ head' = 0
  /\ enable' = TRUE /\ prev' = "PENDING" /\ halted' = "no" /\ svc' = TRUE
  /\ queue' = TRUE /\ dead' = FALSE
  /\ next' = 0 /\ ended' = 0
  /\ stage' = NoAddr /\ bytes' = 0
  /\ lastIndex' = NoIndex /\ error' = "OK"
  /\ UNCHANGED <<tile, low, opnd, out, faults, resets, pc, call, job, C, deaf>>

\* The module is off and does not hear ENABLE: BASE, SIZE and TAIL are taken, but
\* ENABLED does not read back, and the ring is freed.
AttachUnheard ==
  /\ At("idle")
  /\ ~queue /\ deaf /\ ~enable
  /\ base' = "ring" /\ tail' = 0
  /\ error' = "NO_LINK"
  /\ UNCHANGED <<enable, head, halted, prev, cur, tile, svc, memVars, faults, resets,
                 pc, call, job, queueVars, stageVars, C, lastIndex, deaf>>

\* No memory for the ring: nothing is attached.
AttachFails ==
  /\ At("idle")
  /\ ~queue
  /\ error' = "NO_LINK"
  /\ UNCHANGED <<modVars, pc, call, job, queueVars, stageVars, C,
                 lastIndex, deaf>>

-----------------------------------------------------------------------------
(* The world around the driver. *)

\* The module stops hearing PTQ_CTRL (external).
SeizeUp ==
  /\ MaySeizeUp /\ ~deaf /\ ~svc
  /\ deaf' = TRUE
  /\ UNCHANGED <<modVars, pc, call, job, queueVars, stageVars, retVars>>

\* A function-level reset, by the platform, at any time.
ResetModule ==
  /\ Reset
  /\ deaf' = FALSE
  /\ UNCHANGED <<pc, call, job, queueVars, stageVars, retVars>>

\* Another user of page 0: a calibration at any time, and a new seed only with
\* the queue drained and the tile idle (the transport's rule C11).
Calibrate == CalNow /\ UNCHANGED drvVars
Reseed    == At("idle") /\ tile.state = "IDLE" /\ WriteSeed /\ UNCHANGED drvVars

Module == (Service \/ Run) /\ UNCHANGED drvVars

Driver ==
  \/ Check \/ Stage \/ Publish \/ Doorbell \/ PollSlot \/ PollStatus \/ Reread \/ End
  \/ TdStop \/ TdQuiesce \/ TdEndSlots \/ TdTail \/ TdRestart

User == \/ \E k \in Wants, n \in Sizes : Gemm(k, n)
        \/ Teardown \/ Detach \/ Attach \/ AttachUnheard \/ AttachFails

Next == Driver \/ User \/ Module \/ ResetModule \/ SeizeUp \/ Calibrate \/ Reseed

Spec == Init /\ [][Next]_vars

\* The driver's thread runs and service() returns; nothing is assumed of the
\* tile's time, of memory or of the module's answers. The fairness to the driver
\* is strong because the module may enter service() again and again: each time
\* it holds the driver's register access up, and none for ever.
FairSpec == Spec /\ SF_vars(Driver) /\ WF_vars(Service /\ UNCHANGED drvVars)

-----------------------------------------------------------------------------
(* The inductive invariant: who may do what to which slot, at each point of  *)
(* the driver. It is what the properties below rest on.                      *)

\* A GEMM call is in progress: not a teardown of the user's own.
InCall == pc # "idle" /\ (pc \in Tearing => job.inGemm)

\* The call in progress has rung for its slot and not yet returned.
Published == pc \in {"poll", "status", "reread", "end"} \/ (pc \in Tearing /\ job.inGemm)

\* A module that would not stop has been given up on, and may still be working.
Abandoned == deaf /\ (dead \/ ~queue)

\* The descriptor of the call in progress.
MyCommand == [id |-> call, kind |-> job.kind, after |-> FALSE, buf |-> stage]

\* The tile has the module's command while it is pending, and nobody else resets the
\* tile: what the tile has ended is served at once.
TileInv == TileHolds /\ (cur.live /\ ~svc => cur.status = "PENDING")

\* What the module may still write is the one pending slot at PTQ_HEAD.
RingInv ==
  /\ enable /\ base = "ring" =>
       head = tail \/ (tail = Inc(head) /\ slot[SlotOf(head)].status = "PENDING")
  /\ cur.live /\ ~cur.orphan => /\ enable /\ base = "ring" /\ head # tail /\ cur.idx = head
                                /\ cur.cmd = slot[SlotOf(head)].cmd
  /\ \A j \in DOMAIN slot : slot[j].cmd.kind # "malformed" => slot[j].cmd.buf \in Addrs
  /\ cur.live => cur.cmd.buf \in Addrs
  /\ low.cmd = NoCommand

\* What the driver may rely on before it has rung: the ring is empty.
QuietInv ==
  ~Published /\ ~Abandoned =>
    /\ enable /\ base = "ring" => head = tail /\ tail = next
    /\ cur.live => cur.orphan

\* And after: the only slot in play is its own, its operands are in place, and
\* a DONE in the slot means its results are there, under the index recorded.
PublishedInv ==
  Published =>
    /\ next = Inc(job.idx)
    /\ MySlot.cmd = MyCommand
    /\ enable /\ base = "ring" => tail = next /\ head \in {next, job.idx}
    /\ enable /\ base = "ring" /\ pc \in {"reread", "end"} => head = tail
    /\ cur.live /\ ~cur.orphan => cur.ops = call
    /\ MySlot.status = "DONE" => /\ MySlot.index \in Indices
                                 /\ out[stage] = [id |-> call, index |-> MySlot.index]
    /\ pc = "end" /\ job.st # "PENDING" => MySlot.status = job.st

\* The driver's own state, from check to return.
PcInv ==
  /\ pc \in {"idle", "check", "stage", "publish", "doorbell"} => ~job.inGemm
  /\ pc \in {"stage", "publish", "doorbell"} \/ Published => job.kind \in Kinds
  /\ pc \in {"publish", "doorbell"} \/ Published => stage \in Addrs /\ opnd[stage] = call
  /\ pc \notin {"idle", "check"} => queue /\ ~dead
  /\ pc = "doorbell" => /\ next = job.idx /\ MySlot.cmd = MyCommand
                        /\ MySlot.status = "PENDING"
  /\ pc \in {"lost", "tail", "restart"} => ~enable
  /\ pc = "quiesce" => ~enable \/ deaf
  /\ pc = "restart" /\ base = "ring" => tail = next
  /\ bytes # 0 => stage \in Addrs
  /\ InCall => C = NoResult /\ lastIndex = NoIndex

IInv == TileInv /\ RingInv /\ QuietInv /\ PublishedInv /\ PcInv

-----------------------------------------------------------------------------
(* What must hold. *)

Promise == INSTANCE GemmService WITH busy <- InCall, Untouched <- NoResult

\* Through the queue, pta_chiplet_gemm keeps the header's promise whatever the
\* module, its memory and its resets do: 0 with C this call's own result, under
\* the index its record reports, or -1 with C untouched.
KeepsPromise == Promise!Spec

\* C9 of the transport: once ENABLED reads 0 nothing more of the module's lands
\* in host memory, the results of a GEMM still running in the tile included.
StopsWriting ==
  [][~enable => /\ out' = out /\ low' = low
                /\ slot' # slot => pc' # pc \/ queue' # queue]_vars

\* A slot ends once: a teardown overwrites no record, and no record lands on a
\* slot that a teardown has ended. Only the host makes a slot pending again.
EndsOnce ==
  [][\A j \in DOMAIN slot :
       slot[j].status # "PENDING" /\ slot'[j] # slot[j]
         => slot'[j].status = "PENDING" /\ slot'[j].index = 0]_vars

\* The module writes only memory the driver still holds: the ring while it is
\* attached, and the staging buffer of the GEMM in progress. The one exception takes
\* a function-level reset: a queue enabled again at the base of zero it leaves has
\* its records written at address 0.
WritesOwnedMemory ==
  [][/\ slot' # slot => queue'
     /\ \A a \in Addrs : out'[a] # out[a] => a = stage
     /\ low' # low => resets > 0]_vars

\* C10, "after a teardown no slot is left pending": between calls none is, unless
\* the queue is dead.
AllSlotsEnd ==
  At("idle") /\ queue /\ ~dead
    => \A j \in DOMAIN slot : slot[j].cmd # NoCommand => slot[j].status # "PENDING"

\* A reset has left the module a base of zero, and it has ended at address 0 a
\* command that was published in the ring.
EndedElsewhere == base = "zero" /\ low.status # "PENDING"

\* C10 up to there: no halt, fault, wait that runs out or reset in the middle of a
\* call leaves a slot pending, before the module has ended a command elsewhere.
NoneLeftPending == ~EndedElsewhere => AllSlotsEnd

\* No doorbell is lost: work the module may take waits only behind a command the
\* tile really has, whose end is what makes the module serve the ring again.
NothingStranded ==
  ~svc /\ enable /\ halted = "no" /\ head # tail => cur.live /\ tile.state # "IDLE"

\* Every call returns, whatever the module does: every wait is bounded.
CallReturns == InCall ~> ~InCall

=============================================================================

--------------------------- MODULE BoardTransport ---------------------------
(***************************************************************************)
(* The first board's PTA transport as docs/designs/pta_board_transport.py  *)
(* runs it: a host and a module on a CXL link.  The host keeps a ring of   *)
(* slots in its memory, publishes commands, rings PTQ_TAIL and polls a     *)
(* slot's status or waits for an interrupt; it tears down a queue and      *)
(* resets a module that stops answering.  The module runs one command at a *)
(* time: descriptor, operands, result lines, record.                       *)
(*                                                                         *)
(* The link.  Whatever the simulation sends in exactly L ticks keeps its   *)
(* order, so io (to the module) and up (to the host) are sequences.  A     *)
(* line of memory takes L ticks and up to JITTER more, so wire is a set    *)
(* any member of which may be next.  A line is "ordered" when it reaches   *)
(* the host; the module learns so by a GO, L ticks later.                  *)
(*                                                                         *)
(* Time.  The host's two bounds on a wait (T_WAIT, T_QUIESCE) are longer   *)
(* than anything the module still has to do can take, so here they run out *)
(* only when nothing is moving (Quiet).                                    *)
(***************************************************************************)
EXTENDS Integers, Sequences, FiniteSets

CONSTANTS
  RingSize,      \* the ring's slots
  MaxSeeds,      \* bound: changes of PTA_SEED after the first
  MaxTeardowns,  \* bound: teardowns the host decides on
  Scripts        \* what the host publishes in order, how it goes on when the ring
                 \* is full, and where the module wedges

\* What a descriptor asks for: a GEMM with one line of results or two, one that
\* is to run only after a success, one for a bank the module does not have, one
\* the module cannot use.
AllKinds == {"gemm", "wide", "after", "badbank", "unusable"}

ASSUME TransportAssumption ==
  /\ RingSize \in Nat \ {0}
  /\ MaxSeeds \in Nat /\ MaxTeardowns \in Nat
  /\ \A s \in Scripts :
       /\ s.wedge_at \in Int
       /\ s.cmds \in Seq([kind : AllKinds, irq : BOOLEAN, room : BOOLEAN])

None == -1                       \* no command, no status, no index
Pending == "pending"
Statuses == {Pending, "done", "refused", "lost", "not_issued", "not_run"}
Sentinel == <<None, None>>       \* what a result line holds before its GEMM

\* Lines of results: M * N * R_BYTES in cache lines.
OutLines(k) == IF k \in {"wide", "badbank"} THEN 2 ELSE 1

VARIABLES
  m,     \* the module's registers and flags
  g,     \* the command the module is on: its callbacks' captured state
  script,\* the script the host runs
  io,    \* crossing to the module, in order
  up,    \* crossing to the host, in order
  wire,  \* lines crossing to the host, in any order
  slot,  \* the ring in host memory
  res,   \* each command's result lines in host memory
  cmd,   \* what the host knows of each command it published
  ended, \* how each command the host has ended did end
  h      \* the host

NumCmds == Len(script.cmds)
Cmds == 0 .. NumCmds - 1

vars == <<m, g, script, io, up, wire, slot, res, cmd, ended, h>>

-----------------------------------------------------------------------------
\* Messages and lines.

W(reg, val) == [op |-> "write", reg |-> reg, val |-> val]
R(reg)      == [op |-> "read", reg |-> reg]
Flr         == [op |-> "flr"]

\* slot: where the module takes the slot of an index to be. Before PTQ_BASE and
\* PTQ_SIZE are written that is not in the ring.
SlotOf(idx) == idx % RingSize
SlotAddr(mm, idx) == IF mm.ring THEN SlotOf(idx) ELSE None

ReadLine(mm, what, idx) ==
  [op |-> "RdCurr", what |-> what, idx |-> idx, at |-> SlotAddr(mm, idx),
   job |-> mm.job, gen |-> mm.gen]
ResultLine(mm, gg, i) ==
  [op |-> "ItoMWr", what |-> "res", idx |-> gg.idx, cmd |-> gg.cmd, line |-> i,
   val |-> <<gg.seed, gg.index>>, job |-> gg.job, gen |-> mm.gen]
RecordLine(mm, idx, c, status, index) ==
  [op |-> "ItoMWr", what |-> "rec", idx |-> idx, at |-> SlotAddr(mm, idx),
   cmd |-> c, status |-> status, index |-> index,
   job |-> mm.job, gen |-> mm.gen]

\* A line of the ring the host has never written.
Blank == [cmd |-> None, status |-> Pending, index |-> 0]

-----------------------------------------------------------------------------
\* The module.

\* Power-on, and what a function-level reset leaves.
ResetState(gen) ==
  [gen |-> gen, job |-> 0, enable |-> FALSE, enabled |-> FALSE, irq_en |-> FALSE,
   ring |-> FALSE, tail |-> 0, head |-> 0, irq_at |-> 0, seed |-> 0, gemm_ct |-> 0,
   busy |-> FALSE, inflight |-> 0, prev |-> "none", halted |-> FALSE,
   wedged |-> FALSE, draining |-> FALSE]

Idle == [pc |-> "idle", idx |-> None, cmd |-> None, seed |-> None, index |-> None,
         job |-> 0, sent |-> 0, ordered |-> 0]

\* Mutant of Settle (disable-before-drain): stopped as soon as it is told.
SettleAtOnce(mm) ==
  IF mm.draining THEN [mm EXCEPT !.enabled = FALSE, !.draining = FALSE] ELSE mm

\* settle: a disabled queue reports itself stopped once its lines are ordered.
Settle(mm) ==
  IF mm.draining /\ mm.inflight = 0
  THEN [mm EXCEPT !.enabled = FALSE, !.draining = FALSE] ELSE mm

CanKick(mm) ==
  /\ mm.enable /\ mm.head # mm.tail
  /\ ~(mm.busy \/ mm.halted \/ mm.wedged)

\* kick: with the module free and a slot published, read the slot at PTQ_HEAD.
Kick(mm, lines) ==
  IF CanKick(mm)
  THEN /\ m' = [mm EXCEPT !.busy = TRUE]
       /\ wire' = lines \cup {ReadLine(mm, "desc", mm.head)}
  ELSE m' = mm /\ wire' = lines

Msi(mm) ==
  IF mm.irq_en /\ mm.head = mm.irq_at THEN <<[op |-> "msi"]>> ELSE <<>>

\* PTQ_CTRL. Enabling starts the ring at PTQ_TAIL; disabling drops the command
\* that is running, whose next shot finds another job and stops, and leaves
\* ENABLED up until its lines are ordered.
WriteCtrl(en, irq) ==
  LET mm == [m EXCEPT !.irq_en = irq] IN
  \/ /\ en /\ ~m.enable
     /\ Kick([mm EXCEPT !.enable = TRUE, !.enabled = TRUE, !.head = m.tail,
                        !.prev = "none", !.halted = FALSE], wire)
     /\ UNCHANGED g
  \/ /\ ~en /\ m.enable
     /\ m' = Settle([mm EXCEPT !.enable = FALSE, !.job = m.job + 1,
                               !.busy = FALSE, !.draining = TRUE])
     /\ g' = Idle
     /\ UNCHANGED wire
  \/ /\ en = m.enable
     /\ m' = mm
     /\ UNCHANGED <<g, wire>>

\* PTQ_TAIL: where the ring starts while disabled, the doorbell while enabled. A
\* doorbell that moves back or past the ring halts the queue.
WriteTail(val) ==
  IF ~m.enable
  THEN m' = [m EXCEPT !.tail = val] /\ UNCHANGED wire
  ELSE IF val - m.head \notin 0 .. RingSize \/ val < m.tail
       THEN m' = [m EXCEPT !.halted = TRUE] /\ UNCHANGED wire
       ELSE Kick([m EXCEPT !.tail = val], wire)

\* Mutant of NewSeed: the GEMMs are numbered on.
NewSeedOnly(val) == [m EXCEPT !.seed = val]

\* PTA_SEED: a new seed numbers its GEMMs from 0.
NewSeed(val) == [m EXCEPT !.seed = val, !.gemm_ct = 0]

\* _write: a posted write arrives. A wedged module takes none.
Write(msg) ==
  /\ msg.op = "write"
  /\ IF m.wedged THEN UNCHANGED <<m, g, wire>>
     ELSE \/ /\ msg.reg = "CTRL" /\ WriteCtrl(msg.val.en, msg.val.irq)
          \/ /\ msg.reg = "TAIL" /\ WriteTail(msg.val) /\ UNCHANGED g
          \/ /\ msg.reg \in {"RING", "IRQ_AT", "SEED"}
             /\ m' = CASE msg.reg = "RING" ->      \* BASE_LO, BASE_HI, SIZE
                            IF m.enable THEN m ELSE [m EXCEPT !.ring = TRUE]
                       [] msg.reg = "IRQ_AT" -> [m EXCEPT !.irq_at = msg.val]
                       [] msg.reg = "SEED" -> NewSeed(msg.val)
             /\ UNCHANGED <<g, wire>>
  /\ UNCHANGED up

\* _read: it is answered, wedged or not.
Read(msg) ==
  /\ msg.op = "read"
  /\ up' = Append(up, [op |-> msg.reg,
                       val |-> IF msg.reg = "STATUS" THEN m.enabled ELSE m.head])
  /\ UNCHANGED <<m, g, wire>>

\* A function-level reset. Lines already on the wire still land.
FunctionReset(msg) ==
  /\ msg.op = "flr"
  /\ m' = ResetState(m.gen + 1)
  /\ UNCHANGED <<g, up, wire>>

\* Mutant of End (head-before-status): PTQ_HEAD moves when the record is sent.
EndMovesHead(mm, idx, c, status, index) ==
  /\ m' = [mm EXCEPT !.inflight = @ + 1, !.head = idx + 1]
  /\ wire' = wire \cup {RecordLine(mm, idx, c, status, index)}

\* end: the record, line 0 rewritten whole, the host's fields as they were read.
End(mm, idx, c, status, index) ==
  /\ m' = [mm EXCEPT !.inflight = @ + 1]
  /\ wire' = wire \cup {RecordLine(mm, idx, c, status, index)}

\* Mutant of MustNotRun (run-after-failure).
RunsRegardless(c) == FALSE

\* AFTER_SUCCESS: not after a command that failed.
MustNotRun(c) == cmd[c].kind = "after" /\ m.prev \notin {"none", "done"}

Usable(c) == c # None /\ cmd[c].kind # "unusable"

\* got_descriptor: the line read at the slot names command c.
GotDescriptor(idx, c) ==
  \/ /\ idx = script.wedge_at
     /\ m' = [m EXCEPT !.wedged = TRUE]
     /\ UNCHANGED <<g, wire>>
  \/ /\ idx # script.wedge_at /\ ~Usable(c)
     /\ End(m, idx, c, "not_issued", None)
     /\ UNCHANGED g
  \/ /\ idx # script.wedge_at /\ Usable(c) /\ cmd[c].kind = "badbank"
     /\ End(m, idx, c, "refused", None)
     /\ UNCHANGED g
  \/ /\ idx # script.wedge_at /\ Usable(c) /\ MustNotRun(c)
     /\ End(m, idx, c, "not_run", None)
     /\ UNCHANGED g
  \/ /\ idx # script.wedge_at /\ Usable(c) /\ cmd[c].kind # "badbank"
     /\ ~MustNotRun(c)                                     \* start
     /\ m' = [m EXCEPT !.gemm_ct = @ + 1]
     /\ g' = [Idle EXCEPT !.pc = "operands", !.idx = idx, !.cmd = c, !.job = m.job,
                          !.seed = m.seed, !.index = m.gemm_ct]
     /\ wire' = wire \cup {ReadLine(m, "operands", idx)}

\* back: a line read is at the module. One asked for by a dropped command, or
\* before a reset, is ignored.
Back(msg) ==
  /\ msg.op = "back"
  /\ IF <<msg.job, msg.gen>> # <<m.job, m.gen>>
     THEN UNCHANGED <<m, g, wire>>
     ELSE \/ msg.what = "desc" /\ GotDescriptor(msg.idx, msg.cmd)
          \/ /\ msg.what = "operands"
             /\ g' = [g EXCEPT !.pc = "shots"]
             /\ UNCHANGED <<m, wire>>
  /\ UNCHANGED up

\* ended: PTQ_HEAD moves, the interrupt is raised, the next slot is read.
Ended(mm, msg) ==
  LET free == [mm EXCEPT !.busy = FALSE]
      past == [free EXCEPT !.head = msg.idx + 1, !.prev = msg.status]
  IN IF msg.job # m.job \/ ~m.enable
     THEN m' = Settle(free) /\ UNCHANGED <<up, wire>>
     ELSE Kick(past, wire) /\ up' = up \o Msi(past)

\* Mutant of AllOrdered (status-before-results): all sent is taken for all ordered.
AllSent(gg) == gg.sent = OutLines(cmd[gg.cmd].kind)

AllOrdered(gg) == gg.ordered = OutLines(cmd[gg.cmd].kind)

\* go: the module learns a line it wrote is ordered. The last line of results
\* sends the record; the record moves the queue on.
Go(msg) ==
  LET mm == [m EXCEPT !.inflight = @ - 1] IN
  /\ msg.op = "go"
  /\ IF msg.gen # m.gen THEN UNCHANGED <<m, g, up, wire>>
     ELSE \/ msg.what = "rec" /\ Ended(mm, msg) /\ UNCHANGED g
          \/ /\ msg.what = "res"
             /\ IF msg.job # m.job
                THEN m' = Settle(mm) /\ UNCHANGED <<g, wire>>
                ELSE /\ g' = [g EXCEPT !.ordered = @ + 1]
                     /\ IF AllOrdered(g')
                        THEN End(mm, g.idx, g.cmd, "done", g.index)
                        ELSE m' = mm /\ UNCHANGED wire
             /\ UNCHANGED up

\* The next thing to cross to the module arrives.
Arrive ==
  /\ io # <<>>
  /\ io' = Tail(io)
  /\ LET msg == Head(io) IN
       Write(msg) \/ Read(msg) \/ FunctionReset(msg) \/ Back(msg) \/ Go(msg)
  /\ UNCHANGED <<script, slot, res, cmd, ended, h>>

\* Mutant of Shot: a line of results is not counted as in flight.
ShotUncounted ==
  /\ g.pc = "shots" /\ g.job = m.job
  /\ g.sent < OutLines(cmd[g.cmd].kind)
  /\ g' = [g EXCEPT !.sent = @ + 1]
  /\ wire' = wire \cup {ResultLine(m, g, g.sent + 1)}
  /\ UNCHANGED <<m, script, io, up, slot, res, cmd, ended, h>>

\* shot: a line of results goes as soon as it is full.
Shot ==
  /\ g.pc = "shots" /\ g.job = m.job
  /\ g.sent < OutLines(cmd[g.cmd].kind)
  /\ g' = [g EXCEPT !.sent = @ + 1]
  /\ m' = [m EXCEPT !.inflight = @ + 1]
  /\ wire' = wire \cup {ResultLine(m, g, g.sent + 1)}
  /\ UNCHANGED <<script, io, up, slot, res, cmd, ended, h>>

-----------------------------------------------------------------------------
\* Lines reach the host.

\* land: a line the module wrote is ordered. A record goes to the slot of its
\* index, with the fields of the command it was read as.
InMemory(at) == IF at \in DOMAIN slot THEN slot[at] ELSE Blank

Land(l) ==
  /\ l.op = "ItoMWr"
  /\ IF l.what = "rec"
     THEN /\ slot' = [s \in DOMAIN slot |->
                        IF s = l.at
                        THEN [cmd |-> l.cmd, status |-> l.status, index |-> l.index]
                        ELSE slot[s]]
          /\ UNCHANGED res
     ELSE res' = [res EXCEPT ![l.cmd][l.line] = l.val] /\ UNCHANGED slot
  /\ wire' = wire \ {l}
  /\ io' = Append(io, [l EXCEPT !.op = "go"])
  /\ UNCHANGED <<m, g, script, up, cmd, ended, h>>

\* at_host: a line is read as memory holds it.
AtHost(l) ==
  /\ l.op = "RdCurr"
  /\ wire' = wire \ {l}
  /\ io' = Append(io, [op |-> "back", what |-> l.what, idx |-> l.idx, job |-> l.job,
                       gen |-> l.gen, cmd |-> InMemory(l.at).cmd])
  /\ UNCHANGED <<m, g, script, up, slot, res, cmd, ended, h>>

-----------------------------------------------------------------------------
\* The host.

\* What the design has a command end as: the reference C3 checks against.
Expect(k, before) ==
  CASE k = "unusable" -> "not_issued"
    [] k = "badbank"  -> "refused"
    [] k = "after"    -> IF before \in {"none", "done"} THEN "done" ELSE "not_run"
    [] OTHER          -> "done"

\* Mutant of Room (slot-reuse): one too many.
RoomOneMore == RingSize - (h.next - h.hhead) + 1

Room == RingSize - (h.next - h.hhead)
Status(idx) == slot[SlotOf(idx)].status

\* publish: result lines filled, the descriptor stored with its status pending.
Command == script.cmds[h.next + 1]

Store ==
  LET k == Command.kind
      due == Expect(k, h.before) IN
  /\ Room > 0
  /\ cmd' = [cmd EXCEPT ![h.next] =
               [kind |-> k, due |-> due, seed |-> h.seed, epoch |-> h.epoch, tears |-> h.tears]]
  /\ res' = [res EXCEPT ![h.next] = [i \in 1 .. OutLines(k) |-> Sentinel]]
  /\ slot' = [slot EXCEPT ![SlotOf(h.next)] =
                [cmd |-> h.next, status |-> Pending, index |-> 0]]
  /\ UNCHANGED <<m, g, script, up, wire, ended>>

\* The script goes on to publish with the ring full ("room"), and so is inside
\* publish's loop, with nothing else it can do, until there is room. Where it does
\* not, it drains first.
Publishing ==
  /\ h.pc = "script" /\ h.next < NumCmds /\ h.rung = h.next
  /\ Room <= 0 /\ Command.room /\ ~Command.irq

Publish ==
  /\ h.pc = "script" /\ h.next < NumCmds /\ ~Command.irq
  /\ Store
  /\ h' = [h EXCEPT !.next = @ + 1, !.before = Expect(Command.kind, h.before)]
  /\ UNCHANGED io

\* ring: after the fence, so after the stores.
Ring ==
  /\ h.pc = "script" /\ h.rung # h.next
  /\ h' = [h EXCEPT !.rung = h.next]
  /\ io' = Append(io, W("TAIL", h.next))
  /\ UNCHANGED <<m, g, script, up, wire, slot, res, cmd, ended>>

\* A command waited on by interrupt: IRQ_EN up, publish, PTQ_IRQ_AT, ring.
PublishIrq ==
  /\ h.pc = "script" /\ h.rung = h.next /\ h.next < NumCmds /\ Command.irq
  /\ Store
  /\ h' = [h EXCEPT !.pc = "await", !.next = @ + 1, !.rung = h.next + 1, !.irq = TRUE,
                    !.irq_at = h.next + 1, !.msi = FALSE,
                    !.before = Expect(Command.kind, h.before)]
  /\ io' = io \o (IF h.irq THEN <<>> ELSE <<W("CTRL", [en |-> TRUE, irq |-> TRUE])>>)
              \o <<W("IRQ_AT", h.next + 1), W("TAIL", h.next + 1)>>

\* Back to polling, with the queue drained.
IrqOff ==
  /\ h.pc = "script" /\ h.irq /\ h.hhead = h.next
  /\ h' = [h EXCEPT !.irq = FALSE]
  /\ io' = Append(io, W("CTRL", [en |-> TRUE, irq |-> FALSE]))
  /\ UNCHANGED <<m, g, script, up, wire, slot, res, cmd, ended>>

\* Mutant of SetSeed (config-while-queued): with GEMMs still queued.
SetSeedQueued ==
  /\ h.pc = "script"
  /\ h.seed <= MaxSeeds
  /\ h' = [h EXCEPT !.seed = @ + 1, !.epoch = @ + 1, !.tears = 0]
  /\ io' = Append(io, W("SEED", h.seed + 1))
  /\ UNCHANGED <<m, g, script, up, wire, slot, res, cmd, ended>>

\* set_seed: only with the queue drained.
SetSeed ==
  /\ h.pc = "script" /\ h.hhead = h.next
  /\ h.seed <= MaxSeeds
  /\ h' = [h EXCEPT !.seed = @ + 1, !.epoch = @ + 1, !.tears = 0]
  /\ io' = Append(io, W("SEED", h.seed + 1))
  /\ UNCHANGED <<m, g, script, up, wire, slot, res, cmd, ended>>

\* complete: the commands of a run of indices end as their slots say.
Complete(idxs, mem) ==
  ended' = [i \in Cmds |-> IF i \in idxs
                           THEN mem[SlotOf(i)]
                           ELSE ended[i]]

\* try_end: the oldest command ends once its slot has a status. The host calls it
\* from drain, and from publish when the ring is full.
TryEnd ==
  /\ \/ h.pc = "drain" /\ h.hhead < h.next
     \/ Publishing
  /\ Status(h.hhead) # Pending
  /\ Complete({h.hhead}, slot)
  /\ h' = [h EXCEPT !.hhead = @ + 1]
  /\ UNCHANGED <<m, g, script, io, up, wire, slot, res, cmd>>

\* publish's loop on a slot still pending: it looks again, for as long as it takes.
WaitRoom ==
  /\ Publishing
  /\ Status(h.hhead) = Pending
  /\ UNCHANGED vars

Drain ==
  /\ h.pc = "script" /\ h.hhead < h.next /\ h.rung = h.next /\ ~Publishing
  /\ h' = [h EXCEPT !.pc = "drain"]
  /\ UNCHANGED <<m, g, script, io, up, wire, slot, res, cmd, ended>>

Drained ==
  /\ h.pc = "drain" /\ h.hhead = h.next
  /\ h' = [h EXCEPT !.pc = "script"]
  /\ UNCHANGED <<m, g, script, io, up, wire, slot, res, cmd, ended>>

\* Nothing crosses the link and the module is between lines: whatever the host
\* still waits for is not coming.
Quiet(answers) ==
  /\ io = <<>> /\ wire = {} /\ answers = <<>>
  /\ ~(g.pc = "shots" /\ g.job = m.job /\ g.sent < OutLines(cmd[g.cmd].kind))

\* msi: the interrupt arrives.
TakeMsi ==
  /\ up # <<>> /\ Head(up).op = "msi"
  /\ up' = Tail(up)
  /\ h' = [h EXCEPT !.msi = TRUE]
  /\ UNCHANGED <<m, g, script, io, wire, slot, res, cmd, ended>>

\* await_irq: until the interrupt, or T_WAIT; then drain.
Awaited ==
  /\ h.pc = "await"
  /\ h.msi \/ Quiet(up)
  /\ h' = [h EXCEPT !.pc = "drain"]
  /\ UNCHANGED <<m, g, script, io, up, wire, slot, res, cmd, ended>>

\* teardown's first half: disable, and ask whether the module has stopped.
Disable(hh) ==
  /\ h' = [hh EXCEPT !.pc = "status", !.quiesced = FALSE]
  /\ io' = io \o <<W("CTRL", [en |-> FALSE, irq |-> h.irq]), R("STATUS")>>

\* drain gives up on a slot: T_WAIT.
DrainTimeout ==
  /\ h.pc = "drain" /\ h.hhead < h.next
  /\ Status(h.hhead) = Pending
  /\ Quiet(up)
  /\ Disable([h EXCEPT !.timeouts = @ + 1])
  /\ UNCHANGED <<m, g, script, up, wire, slot, res, cmd, ended>>

\* A teardown the host decides on, whatever the module is doing.
Teardown ==
  /\ h.pc = "script" /\ h.hhead < h.next /\ h.rung = h.next /\ ~Publishing
  /\ h.downs < MaxTeardowns
  /\ Disable([h EXCEPT !.downs = @ + 1])
  /\ UNCHANGED <<m, g, script, up, wire, slot, res, cmd, ended>>

\* Mutant of StatusBack: the wait for the queue to stop has no bound.
StatusBackForever ==
  /\ h.pc = "status" /\ up # <<>> /\ Head(up).op = "STATUS"
  /\ up' = Tail(up)
  /\ IF ~Head(up).val
     THEN io' = Append(io, R("HEAD")) /\ h' = [h EXCEPT !.pc = "head"]
     ELSE io' = Append(io, R("STATUS")) /\ UNCHANGED h
  /\ UNCHANGED <<m, g, script, wire, slot, res, cmd, ended>>

\* PTQ_STATUS is back: stopped, so read PTQ_HEAD; not stopped, so read again, or
\* reset the module when T_QUIESCE has run out, which is long enough for what was
\* moving to land and for one more answer to be asked for and come back.
StatusBack ==
  /\ h.pc = "status" /\ up # <<>> /\ Head(up).op = "STATUS"
  /\ up' = Tail(up)
  /\ IF ~Head(up).val
     THEN io' = Append(io, R("HEAD")) /\ h' = [h EXCEPT !.pc = "head"]
     ELSE IF h.quiesced
          THEN io' = Append(io, Flr) /\ h' = [h EXCEPT !.pc = "flr"]
          ELSE /\ io' = Append(io, R("STATUS"))
               /\ h' = [h EXCEPT !.quiesced = Quiet(Tail(up))]
  /\ UNCHANGED <<m, g, script, wire, slot, res, cmd, ended>>

\* end_lost: every slot from hhead on is the host's again and ends lost.
EndLost(from) ==
  slot' = [s \in DOMAIN slot |->
             IF \E i \in from .. h.next - 1 : SlotOf(i) = s
             THEN [slot[s] EXCEPT !.status = "lost"] ELSE slot[s]]

\* restart_queue: PTQ_TAIL while disabled, then enable.
RestartQueue ==
  <<W("TAIL", h.next), W("CTRL", [en |-> TRUE, irq |-> h.irq])>>

\* teardown's second half: the slots behind PTQ_HEAD end as they say, up to the
\* first still pending; the rest end lost; the queue starts again.
HeadBack ==
  /\ h.pc = "head" /\ up # <<>> /\ Head(up).op = "HEAD"
  /\ up' = Tail(up)
  /\ LET behind == {i \in h.hhead .. Head(up).val - 1 :
                      \A j \in h.hhead .. i : Status(j) # Pending}
     IN EndLost(h.hhead + Cardinality(behind))
  /\ Complete(h.hhead .. h.next - 1, slot')
  /\ io' = io \o RestartQueue
  /\ h' = [h EXCEPT !.pc = "script", !.hhead = h.next, !.origin = h.next,
                    !.before = "none", !.tears = @ + 1]
  /\ UNCHANGED <<m, g, script, wire, res, cmd>>

\* reset's second half, two crossings after the reset was sent: the queue's
\* registers and the seed again, the slots lost, the queue started.
AfterReset ==
  /\ h.pc = "flr" /\ \A i \in 1 .. Len(io) : io[i] # Flr
  /\ EndLost(h.hhead)
  /\ Complete(h.hhead .. h.next - 1, slot')
  /\ io' = io \o <<W("RING", TRUE), W("SEED", h.seed)>> \o RestartQueue
  /\ h' = [h EXCEPT !.pc = "script", !.hhead = h.next, !.origin = h.next,
                    !.before = "none", !.epoch = @ + 1, !.tears = 0]
  /\ UNCHANGED <<m, g, script, up, wire, res, cmd>>

-----------------------------------------------------------------------------
Init ==
  /\ m = ResetState(1)
  /\ g = Idle
  /\ script \in Scripts
  /\ io = <<W("RING", TRUE), W("SEED", 1), W("TAIL", 0),
            W("CTRL", [en |-> TRUE, irq |-> FALSE])>>
  /\ up = <<>>
  /\ wire = {}
  /\ slot = [s \in 0 .. RingSize - 1 |-> Blank]
  /\ res = [c \in Cmds |-> <<>>]
  /\ cmd = [c \in Cmds |-> [kind |-> "none", due |-> "none", seed |-> 0,
                            epoch |-> 0, tears |-> 0]]
  /\ ended = [c \in Cmds |-> Blank]
  /\ h = [pc |-> "script", next |-> 0, hhead |-> 0, rung |-> 0, origin |-> 0,
          seed |-> 1, epoch |-> 1, tears |-> 0, before |-> "none",
          irq |-> FALSE, irq_at |-> 0, msi |-> FALSE, quiesced |-> FALSE,
          timeouts |-> 0, downs |-> 0]

HostNext ==
  \/ Publish \/ PublishIrq \/ Ring \/ IrqOff \/ SetSeed \/ TryEnd \/ Drain \/ Drained \/ TakeMsi \/ Awaited
  \/ DrainTimeout \/ Teardown \/ StatusBack \/ HeadBack \/ AfterReset

\* The script is at its end: everything published has ended.
Done ==
  /\ h.pc = "script" /\ h.next = NumCmds /\ h.hhead = h.next /\ Quiet(up)
  /\ UNCHANGED vars

Next ==
  \/ Arrive \/ Shot
  \/ \E l \in wire : Land(l) \/ AtHost(l)
  \/ HostNext
  \/ WaitRoom \/ Done

Spec == Init /\ [][Next]_vars

\* The simulation delivers whatever is sent and steps its host every tick. What
\* the script chooses to publish or tear down is its own; what it published it
\* rings and drains.
FairSpec ==
  /\ Spec
  /\ WF_vars(Arrive) /\ WF_vars(Shot)
  /\ WF_vars(\E l \in wire : Land(l) \/ AtHost(l))
  /\ WF_vars(Ring) /\ WF_vars(Drain)
  /\ WF_vars(TryEnd \/ Drained \/ TakeMsi \/ Awaited \/ DrainTimeout)
  /\ WF_vars(StatusBack \/ HeadBack \/ AfterReset)

-----------------------------------------------------------------------------
\* What the twelve checks hold.

\* Types: what may cross the link, either way, and what each part keeps.
Controls ==
  [op : {"write"}, reg : {"CTRL"}, val : [en : BOOLEAN, irq : BOOLEAN]]
    \cup [op : {"write"}, reg : {"TAIL", "IRQ_AT", "SEED"}, val : Nat]
    \cup [op : {"write"}, reg : {"RING"}, val : {TRUE}]
    \cup [op : {"read"}, reg : {"STATUS", "HEAD"}] \cup {Flr}
Results(op) ==
  [op : {op}, what : {"res"}, idx : Int, cmd : Int, line : 1 .. 2, val : Int \X Int,
   job : Nat, gen : Nat]
Records(op) ==
  [op : {op}, what : {"rec"}, idx : Int, at : Int, cmd : Int, status : Statuses,
   index : Int, job : Nat, gen : Nat]
Reads ==
  [op : {"RdCurr"}, what : {"desc", "operands"}, idx : Int, at : Int, job : Nat, gen : Nat]
Backs ==
  [op : {"back"}, what : {"desc", "operands"}, idx : Int, cmd : Int, job : Nat, gen : Nat]
Answers ==
  [op : {"msi"}] \cup [op : {"STATUS"}, val : BOOLEAN] \cup [op : {"HEAD"}, val : Int]
Messages == Controls \cup Results("go") \cup Records("go") \cup Backs
Lines == Results("ItoMWr") \cup Records("ItoMWr") \cup Reads
SlotLines == [cmd : Int, status : Statuses, index : Int]

ModuleStates ==
  [gen : Nat, job : Nat, enable : BOOLEAN, enabled : BOOLEAN, irq_en : BOOLEAN,
   ring : BOOLEAN, tail : Nat, head : Nat, irq_at : Nat, seed : Nat, gemm_ct : Nat,
   busy : BOOLEAN, inflight : Int, prev : Statuses \cup {"none"}, halted : BOOLEAN,
   wedged : BOOLEAN, draining : BOOLEAN]
Works ==
  [pc : {"idle", "operands", "shots"}, idx : Int, cmd : Int, seed : Int, index : Int,
   job : Nat, sent : Nat, ordered : Nat]
Published ==
  [kind : AllKinds \cup {"none"}, due : Statuses \cup {"none"}, seed : Nat, epoch : Nat,
   tears : Nat]
HostStates ==
  [pc : {"script", "drain", "await", "status", "head", "flr"}, next : Nat, hhead : Nat,
   rung : Nat, origin : Nat, seed : Nat, epoch : Nat, tears : Nat,
   before : Statuses \cup {"none"}, irq : BOOLEAN, irq_at : Nat, msi : BOOLEAN,
   quiesced : BOOLEAN, timeouts : Nat, downs : Nat]

TypeOK ==
  /\ m \in ModuleStates /\ g \in Works /\ h \in HostStates /\ script \in Scripts
  /\ io \in Seq(Messages) /\ up \in Seq(Answers) /\ wire \subseteq Lines
  /\ slot \in [0 .. RingSize - 1 -> SlotLines] /\ ended \in [Cmds -> SlotLines]
  /\ cmd \in [Cmds -> Published] /\ DOMAIN res = Cmds

EndedCmds == 0 .. h.hhead - 1
Failed == {"refused", "not_issued", "not_run"}

\* C1, C2: a command the host ended done has every line of its GEMM in memory,
\* under the seed it was published with and the index its slot reports; one that
\* ended refused, not issued or not run has its result lines as the host left them.
ResultsMatchStatus ==
  \A c \in EndedCmds : \A i \in DOMAIN res[c] :
    /\ ended[c].status = "done" => res[c][i] = <<cmd[c].seed, ended[c].index>>
    /\ ended[c].status \in Failed => res[c][i] = Sentinel

\* C3, C7, C10: the host ends a command from a slot that still holds the fields it
\* wrote, as the command has to end or, in a teardown, lost; none is left pending.
EndsAsDue ==
  \A c \in EndedCmds :
    /\ ended[c].cmd = c
    /\ ended[c].status \in {cmd[c].due, "lost"}
    /\ ended[c].status = "lost" => h.timeouts + h.downs > 0

\* C4: between one GEMM that ended done and the next, under one seed, the index
\* grows by one, and by one more at most for each teardown between them; a command
\* that did not start has none.
IndexOrder ==
  /\ \A c \in EndedCmds : ended[c].status \in Failed => ended[c].index = None
  /\ \A c \in EndedCmds : ended[c].status = "done" =>
       LET earlier == {b \in 0 .. c - 1 : ended[b].status = "done" /\ cmd[b].epoch = cmd[c].epoch}
       IN IF earlier = {} THEN ended[c].index \in 0 .. cmd[c].tears
          ELSE \E b \in earlier :
                 /\ \A d \in earlier : d <= b
                 /\ ended[c].index - ended[b].index \in 1 .. 1 + cmd[c].tears - cmd[b].tears

\* C5, C6: what the module says of its progress, by PTQ_HEAD or by an interrupt, is
\* never ahead of host memory: behind PTQ_HEAD every slot has its status, and an
\* interrupt on its way finds the commands it was asked for ended.
NeverAhead ==
  /\ m.enable =>
       \A i \in h.hhead .. m.head - 1 : i >= h.origin => Status(i) # Pending
  /\ \A n \in 1 .. Len(up) : up[n].op = "msi" =>
       \A i \in h.hhead .. h.irq_at - 1 : Status(i) # Pending

\* C9: nothing the module has on its way lands in a buffer or a slot the host
\* has ended, so the host may reuse both.
NothingLandsOnEnded ==
  \A l \in wire : l.op = "ItoMWr" =>
    /\ l.cmd \notin EndedCmds
    /\ l.what = "rec" => slot[SlotOf(l.idx)].cmd \notin EndedCmds

\* C11: PTA_SEED reaches the module only when it has nothing queued and nothing
\* running, although the host sends it as soon as it has seen the last status.
ConfigWhenDrained ==
  io # <<>> /\ Head(io).op = "write" /\ Head(io).reg = "SEED"
    => m.head = m.tail /\ ~m.busy

\* C12: a wait runs out only on a module that has stopped answering: no doorbell
\* halts the queue, no slot is missed, no stop goes unreported.
OnlyWedgedTimesOut ==
  [][h'.timeouts # h.timeouts \/ h'.pc = "flr" => m.wedged]_vars

\* The one wait of the host's that has no bound: publish waits for room behind a
\* slot that a wedged module will not end.
NoRoomComing == Publishing /\ m.wedged

\* C12: every command ends: again and again the host has ended all it published, by
\* a bound on its wait if need be. The design has the driver bound every wait; the
\* wait for room in publish is not, so a script that fills the ring of a module that
\* wedges stays there, and there only.
EveryCommandEnds == []<>(h.hhead = h.next) \/ <>[]NoRoomComing

=============================================================================

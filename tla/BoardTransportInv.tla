-------------------------- MODULE BoardTransportInv --------------------------
(***************************************************************************)
(* The inductive invariant of BoardTransport: what may be on the link, by  *)
(* where the host and the module are, and what the slots and the results   *)
(* say meanwhile.                                                          *)
(***************************************************************************)
EXTENDS BoardTransport

\* What crosses to the module: register writes that start the queue and that
\* stop it, and what the module has sent or asked for and still counts on.
IsWrite(x, reg) == x.op = "write" /\ x.reg = reg
Starts(x)       == IsWrite(x, "CTRL") /\ x.val.en
Stops(x)        == IsWrite(x, "CTRL") /\ ~x.val.en
Asks(x)         == x.op = "read"
IsRecord(x)     == x.op = "go" /\ x.what = "rec"

Working  == h.pc \in {"script", "drain", "await"}
Stopping == \E i \in DOMAIN io : Stops(io[i])
Starting == ~m.enable /\ \E i \in DOMAIN io : Starts(io[i])

\* The module's errands, on a job: 0 its record, 1 and 2 a line of results, 3 a read
\* for the command it is on. Each is a line on the wire or, having been to the host, a
\* message on its way back.
Errand(x, job, k) ==
  \/ x.op \in {"ItoMWr", "go"} /\ k = (IF x.what = "rec" THEN 0 ELSE x.line)
  \/ x.op \in {"RdCurr", "back"} /\ x.job = job /\ k = 3

Runs(s, w, job, k) ==
  (\E l \in w : Errand(l, job, k)) \/ (\E i \in DOMAIN s : Errand(s[i], job, k))

RunsOnce(s, w, job) ==
  \A k \in 0 .. 3 :
    /\ \A l, n \in w : Errand(l, job, k) /\ Errand(n, job, k) => l = n
    /\ \A l \in w, i \in DOMAIN s : ~(Errand(l, job, k) /\ Errand(s[i], job, k))
    /\ \A i, j \in DOMAIN s : Errand(s[i], job, k) /\ Errand(s[j], job, k) => i = j

Out(k) == Runs(io, wire, m.job, k)
One(p) == IF p THEN 1 ELSE 0

\* The order of what the host writes: after the disable only a read of PTQ_STATUS,
\* after a read nothing; doorbells grow; a doorbell sent before the module's record
\* was ordered is within the ring as the module has it.
OrderInv ==
  \A i, j \in DOMAIN io : i < j =>
    /\ Stops(io[i]) => io[j].op \notin {"write", "flr"}
    /\ Asks(io[i]) => io[j].op \in {"back", "go"}
    /\ IsWrite(io[i], "TAIL") /\ IsWrite(io[j], "TAIL") => io[i].val < io[j].val
    /\ IsWrite(io[i], "TAIL") /\ IsRecord(io[j]) /\ m.enable => io[i].val <= m.head + RingSize

\* What the host has asked and not yet been told: one question at most.
AskedInv ==
  /\ \A i, j \in DOMAIN io : Asks(io[i]) /\ Asks(io[j]) => i = j
  /\ \A i, j \in DOMAIN up : up[i].op # "msi" /\ up[j].op # "msi" => i = j
  /\ \A i \in DOMAIN io, j \in DOMAIN up : Asks(io[i]) => up[j].op = "msi"
  /\ Working => /\ \A i \in DOMAIN io : ~Stops(io[i]) /\ ~Asks(io[i])
                /\ \A i \in DOMAIN up : up[i].op = "msi"
  /\ h.pc # "flr" => \A i \in DOMAIN io : io[i].op # "flr"
  /\ \A i \in DOMAIN io : Stops(io[i]) => \E j \in DOMAIN io : Asks(io[j])
  /\ h.pc = "status" =>
       /\ \A i \in DOMAIN io : Asks(io[i]) => io[i].reg = "STATUS"
       /\ \A i \in DOMAIN up : up[i].op # "HEAD"
       /\ \/ \E i \in DOMAIN io : Asks(io[i])
          \/ \E i \in DOMAIN up : up[i].op = "STATUS"
       /\ ~Stopping => /\ \A i \in DOMAIN io : io[i].op # "write"
                       /\ m.wedged \/ ~m.enable
                       /\ m.ring
       /\ \A i \in DOMAIN up : up[i].op = "STATUS" /\ ~up[i].val => ~m.enabled
  /\ h.pc = "head" =>
       /\ \A i \in DOMAIN io : io[i].op # "write" /\ (Asks(io[i]) => io[i].reg = "HEAD")
       /\ \A i \in DOMAIN up : up[i].op # "STATUS"
       /\ \/ \E i \in DOMAIN io : Asks(io[i])
          \/ \E i \in DOMAIN up : up[i].op = "HEAD"
       /\ \A i \in DOMAIN up : up[i].op = "HEAD" => up[i].val = m.head
       /\ ~m.enabled /\ m.ring

\* A queue the host has started again, and the module not yet: the registers come
\* before the enable, and the doorbells after it.
StartInv ==
  (Working \/ Stopping) /\ ~m.enable =>
    /\ ~m.enabled
    /\ h.hhead = h.origin /\ m.head <= h.origin /\ m.tail <= h.origin
    /\ \E p \in DOMAIN io :
         /\ Starts(io[p])
         /\ \A q \in DOMAIN io : IsWrite(io[q], "TAIL") =>
              IF q < p THEN io[q].val = h.origin ELSE io[q].val > h.origin
         /\ \A q \in 1 .. p - 1 : ~Starts(io[q]) /\ ~Stops(io[q]) /\ ~IsWrite(io[q], "IRQ_AT")
         /\ m.tail = h.origin \/ \E q \in 1 .. p - 1 : IsWrite(io[q], "TAIL")
         /\ m.ring \/ \E q \in 1 .. p - 1 : IsWrite(io[q], "RING")
         /\ \A q \in 1 .. p - 1 : IsWrite(io[q], "SEED") =>
              m.head = m.tail /\ \A r \in 1 .. q - 1 : ~IsWrite(io[r], "TAIL")

\* Once nothing moved and the host has asked once more, nothing moves; a module that
\* still says it is not stopped is wedged.
QuietInv ==
  /\ h.pc = "status" /\ h.quiesced =>
       /\ wire = {} /\ Len(io) + Len(up) = 1
       /\ \A i \in DOMAIN io : Asks(io[i])
       /\ \A i \in DOMAIN up : up[i] = [op |-> "STATUS", val |-> m.enabled]
       /\ m.enabled => m.wedged
  /\ h.pc = "flr" =>
       /\ wire = {} /\ up = <<>>
       /\ \/ io = <<Flr>> /\ m.wedged
          \/ io = <<>> /\ m = ResetState(m.gen)

\* Whatever the module sent is of this generation, and of the job it is on or, while
\* it stops, the one it dropped.
OfJob(x) ==
  /\ x.gen = m.gen /\ x.job <= m.job
  /\ x.op \in {"ItoMWr", "go"} => (x.job = m.job <=> m.enable)

JobInv ==
  /\ \A l \in wire : OfJob(l)
  /\ \A i \in DOMAIN io : io[i].op \in {"back", "go"} => OfJob(io[i])

\* Each errand is run once at a time, and inflight counts the writes.
ErrandInv ==
  /\ RunsOnce(io, wire, m.job)
  /\ Out(0) => ~Out(1) /\ ~Out(2)
  /\ m.inflight = One(Out(0)) + One(Out(1)) + One(Out(2))

\* The stages of the module's work: stopped or stopping; waiting; wedged; reading a
\* descriptor; reading operands; sending results; sending the record.
GDone   == g.pc = "idle" \/ (g.pc = "shots" /\ g.sent = OutLines(cmd[g.cmd].kind) /\ g.ordered = g.sent)
OnHead  == g.idx = m.head /\ g.cmd = m.head /\ g.job = m.job

Stopped   == ~m.enable /\ ~m.busy /\ ~m.wedged /\ ~Out(3) /\ GDone
Waiting   == m.enable /\ ~m.busy /\ ~m.wedged /\ ~Out(3) /\ m.inflight = 0 /\ GDone
Wedged    == m.enable /\ m.busy /\ m.wedged /\ ~Out(3) /\ m.inflight = 0 /\ GDone
Fetching  == m.enable /\ m.busy /\ ~m.wedged /\ Out(3) /\ m.inflight = 0 /\ GDone
Loading   == /\ m.enable /\ m.busy /\ ~m.wedged /\ Out(3) /\ m.inflight = 0
             /\ g.pc = "operands" /\ OnHead /\ g.sent = 0 /\ g.ordered = 0
Shooting  == /\ m.enable /\ m.busy /\ ~m.wedged /\ ~Out(3) /\ ~Out(0)
             /\ g.pc = "shots" /\ OnHead
             /\ g.ordered < OutLines(cmd[g.cmd].kind) /\ g.sent <= OutLines(cmd[g.cmd].kind)
             /\ m.inflight = g.sent - g.ordered
             /\ \A k \in 1 .. 2 : Out(k) => k <= g.sent
Recording == m.enable /\ m.busy /\ ~m.wedged /\ ~Out(3) /\ Out(0) /\ GDone

StageInv ==
  /\ m.enabled = (m.enable \/ m.draining) /\ ~(m.enable /\ m.draining)
  /\ ~m.enable => (m.draining <=> m.inflight # 0)
  /\ g.pc # "idle" => g.cmd \in 0 .. h.next - 1
  /\ Stopped \/ Waiting \/ Wedged \/ Fetching \/ Loading \/ Shooting \/ Recording

\* A read is for the slot at PTQ_HEAD, and finds the command of that index.
ReadInv ==
  LET kind == IF g.pc = "operands" THEN "operands" ELSE "desc" IN
  /\ \A l \in wire : l.op = "RdCurr" /\ l.job = m.job =>
       l.idx = m.head /\ l.at = SlotOf(m.head) /\ l.what = kind
  /\ \A i \in DOMAIN io : io[i].op = "back" /\ io[i].job = m.job =>
       io[i].idx = m.head /\ io[i].cmd = m.head /\ io[i].what = kind

\* The indices of the host and, once it has started, of the module.
IndexInv ==
  /\ 0 <= h.origin /\ h.origin <= h.hhead /\ h.hhead <= h.rung /\ h.rung <= h.next
  /\ h.next <= NumCmds /\ h.next <= h.hhead + RingSize
  /\ h.pc # "script" => h.rung = h.next
  /\ m.head <= h.rung /\ m.tail <= h.rung
  /\ \A i \in DOMAIN io : IsWrite(io[i], "TAIL") => io[i].val <= h.rung
  /\ ~m.halted
  /\ m.enable =>
       /\ m.ring /\ h.origin <= m.head /\ m.head <= m.tail
       /\ \A i \in DOMAIN io : IsWrite(io[i], "TAIL") => m.tail < io[i].val
       /\ h.hhead <= m.head \/ (h.hhead = m.head + 1 /\ \E i \in DOMAIN io : IsRecord(io[i]))
       /\ m.busy <=> m.head # m.tail
  /\ (Working \/ Stopping) /\ ~m.wedged =>
       m.tail = h.rung \/ \E i \in DOMAIN io : IsWrite(io[i], "TAIL") /\ io[i].val = h.rung

\* Commands the host has published and not ended.
Live == h.hhead .. h.next - 1

Clean(c) == \A i \in DOMAIN res[c] : res[c][i] = Sentinel
Right(c, index) == \A i \in DOMAIN res[c] : res[c][i] = <<cmd[c].seed, index>>

\* How command c may be said to have ended.
Truth(c, status, index) ==
  /\ status = cmd[c].due
  /\ status = "done" => index \in Nat /\ Right(c, index)
  /\ status \in Failed => index = None /\ Clean(c)

\* The host's table: a live command is the one in its slot, and each is due to end as
\* its kind and the command before it make it; the module's prev agrees.
CmdInv ==
  /\ \A c \in 0 .. h.next - 1 :
       /\ cmd[c].kind \in AllKinds /\ cmd[c].due \in Failed \cup {"done"}
       /\ DOMAIN res[c] = 1 .. OutLines(cmd[c].kind)
  /\ \A c \in Live : /\ slot[SlotOf(c)].cmd = c
                     /\ cmd[c].seed = h.seed /\ cmd[c].epoch = h.epoch /\ cmd[c].tears = h.tears
  /\ \A c \in h.origin .. h.next - 1 :
       cmd[c].due = Expect(cmd[c].kind, IF c = h.origin THEN "none" ELSE cmd[c - 1].due)
  /\ h.before = IF h.next = h.origin THEN "none" ELSE cmd[h.next - 1].due
  /\ m.enable => m.prev = IF m.head = h.origin THEN "none" ELSE cmd[m.head - 1].due

\* A status in a slot, or on its way to one, is true; what the module is still to
\* write is for a command that is pending.
StatusInv ==
  /\ \A c \in Live : Status(c) # Pending => Truth(c, Status(c), slot[SlotOf(c)].index)
  /\ \A l \in wire : l.op = "ItoMWr" =>
       /\ l.cmd = l.idx /\ l.cmd \in Live /\ Status(l.cmd) = Pending
       /\ m.enable => l.idx = m.head
       /\ l.what = "rec" => l.at = SlotOf(l.cmd) /\ Truth(l.cmd, l.status, l.index)
       /\ l.what = "res" => l.line \in DOMAIN res[l.cmd]
  /\ \A i \in DOMAIN io : IsRecord(io[i]) /\ m.enable =>
       io[i].idx = m.head /\ io[i].status = cmd[m.head].due
  /\ m.enable => \A c \in Live : Status(c) = Pending <=>
                   c > m.head \/ (c = m.head /\ ~\E i \in DOMAIN io : IsRecord(io[i]))
  /\ Starting => \A c \in Live : Status(c) = Pending

\* Result lines not yet started on are clean; those of the GEMM that is running are
\* its own or clean.
ResultInv ==
  /\ m.enable => \A c \in Live : c > m.head => Clean(c)
  /\ m.enable /\ ~Out(0) /\ g.pc # "shots" /\ m.head \in Live => Clean(m.head)
  /\ m.enable /\ GDone /\ ~Out(0) /\ m.head \in Live => Clean(m.head)
  /\ Starting => \A c \in Live : Clean(c)
  /\ ~GDone => /\ m.head \in Live /\ g.seed = cmd[m.head].seed /\ g.index \in Nat
               /\ cmd[m.head].due = "done"
               /\ \A l \in wire : l.op = "ItoMWr" => l.val = <<g.seed, g.index>>
               /\ \A i \in DOMAIN res[m.head] :
                    IF i <= g.sent /\ ~\E l \in wire : Errand(l, m.job, i)
                    THEN res[m.head][i] = <<g.seed, g.index>> ELSE res[m.head][i] = Sentinel

\* The seed: what the module has is what the host wrote last, unless that is still on
\* its way, and then the module has nothing to do until it has arrived.
SeedInv ==
  /\ \A i \in DOMAIN io : IsWrite(io[i], "SEED") =>
       /\ ~m.wedged
       /\ \A j \in i + 1 .. Len(io) : ~IsRecord(io[j])
       /\ \A j \in 1 .. i - 1 : IsWrite(io[j], "TAIL") => io[j].val <= h.origin
       /\ m.enable => m.tail <= m.head + One(\E j \in DOMAIN io : IsRecord(io[j]))
  /\ h.pc # "flr" =>
       \/ m.seed = h.seed /\ \A i \in DOMAIN io : ~IsWrite(io[i], "SEED")
       \/ \E i \in DOMAIN io : /\ IsWrite(io[i], "SEED") /\ io[i].val = h.seed
                               /\ \A j \in i + 1 .. Len(io) : ~IsWrite(io[j], "SEED")

\* What the host has recorded as ended is true, or lost to a time-out or a teardown.
EndedInv ==
  /\ \A c \in EndedCmds :
       /\ ended[c].cmd = c
       /\ \/ Truth(c, ended[c].status, ended[c].index)
          \/ ended[c].status = "lost" /\ h.timeouts + h.downs > 0
  /\ ~Working => h.timeouts + h.downs > 0

\* The interrupt: one at most for each time it is asked for.
MsiInv ==
  /\ h.pc # "await" =>
       /\ \A i \in DOMAIN up : up[i].op # "msi"
       /\ \A i \in DOMAIN io : ~IsWrite(io[i], "IRQ_AT")
       /\ m.wedged \/ m.irq_at <= m.head
  /\ h.pc = "await" =>
       /\ h.irq_at = h.next
       /\ \A i, j \in DOMAIN up : i = j
       /\ \A i, j \in DOMAIN io : IsWrite(io[i], "IRQ_AT") /\ IsWrite(io[j], "IRQ_AT") => i = j
       /\ \A i \in DOMAIN io : IsWrite(io[i], "IRQ_AT") =>
            /\ io[i].val = h.next /\ ~h.msi /\ up = <<>>
            /\ m.wedged \/ m.irq_at <= m.head
            /\ \E j \in i + 1 .. Len(io) : IsWrite(io[j], "TAIL") /\ io[j].val = h.next
       /\ \/ \E i \in DOMAIN io : IsWrite(io[i], "IRQ_AT")
          \/ m.wedged /\ up = <<>> /\ ~h.msi
          \/ m.enable /\ m.irq_at = h.next /\ ((h.msi \/ up # <<>>) => m.head = h.next)
       /\ h.msi => up = <<>>

\* The commands known to have ended done, and their indices; what the index of the
\* next may be, with t teardowns in epoch e before it.
DoneSo(c) ==
  c \in 0 .. h.next - 1 /\ (IF c < h.hhead THEN ended[c].status ELSE Status(c)) = "done"
IndexOf(c) == IF c < h.hhead THEN ended[c].index ELSE slot[SlotOf(c)].index

MayFollow(n, t, c, e) ==
  LET earlier == {b \in 0 .. c - 1 : DoneSo(b) /\ cmd[b].epoch = e}
  IN  IF earlier = {} THEN n \in 0 .. t
      ELSE \E b \in earlier : /\ \A d \in earlier : d <= b
                              /\ n - IndexOf(b) \in 1 .. 1 + t - cmd[b].tears

\* A GEMM has been started and no status says so yet; a teardown has dropped one.
Torn    == ~m.enable /\ ~Starting /\ h.pc \in {"status", "head"}
Started == ~GDone \/ \E l \in wire : l.op = "ItoMWr" /\ l.what = "rec" /\ l.status = "done"
Slack   == One(Torn /\ ~Started /\ ~DoneSo(m.head))

\* gemm_ct: a GEMM's index follows that of the last one done in its epoch, with room
\* for one dropped by each teardown since; the module's counter is where the next may be.
CountInv ==
  /\ \A c \in 0 .. h.next - 1 : cmd[c].epoch <= h.epoch
  /\ \A c \in 0 .. h.next - 1 : DoneSo(c) => MayFollow(IndexOf(c), cmd[c].tears, c, cmd[c].epoch)
  /\ ~GDone => g.index = m.gemm_ct - 1
  /\ \A l \in wire : l.op = "ItoMWr" =>
       l.idx = m.head /\ (l.what = "rec" /\ l.status = "done" => l.index = m.gemm_ct - 1)
  /\ Torn => \A c \in Live : (c < m.head => Status(c) # Pending) /\ (c > m.head => Status(c) = Pending)
  /\ h.pc # "flr" =>
       IF \E i \in DOMAIN io : IsWrite(io[i], "SEED")
       THEN \A c \in 0 .. h.next - 1 : cmd[c].epoch = h.epoch => ~DoneSo(c)
       ELSE MayFollow(m.gemm_ct - One(Started), h.tears + Slack, h.next, h.epoch)

\* The inductive invariant: what is on the link, in the slots and in the results agrees
\* with where the host's coroutine and the module's callbacks are (Sim, Module, Host).
IInv ==
  /\ TypeOK /\ OrderInv /\ AskedInv /\ StartInv /\ QuietInv /\ JobInv /\ ErrandInv
  /\ StageInv /\ ReadInv /\ IndexInv /\ CmdInv /\ StatusInv /\ ResultInv /\ SeedInv
  /\ EndedInv /\ MsiInv /\ CountInv

=============================================================================

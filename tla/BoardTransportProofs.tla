------------------------ MODULE BoardTransportProofs ------------------------
(***************************************************************************)
(* What the host is told in BoardTransport: the statuses and the results   *)
(* of its commands and the indices of its GEMMs.  With BoardModuleProofs   *)
(* and BoardLinkProofs this makes IInv an invariant, and from it come the  *)
(* twelve checks.                                                          *)
(***************************************************************************)
EXTENDS BoardLinkProofs, FiniteSetTheorems

-----------------------------------------------------------------------------
(* Slots. *)

\* Indices less than a ring apart have different slots.
LEMMA SlotInj ==
  ASSUME NEW a \in Int, NEW b \in Int, a < b, b - a < RingSize
  PROVE  SlotOf(a) # SlotOf(b)
<1> DEFINE size == RingSize
<1>1. size \in Nat \ {0}
  BY TransportAssumption
<1> HIDE DEF size
<1>2. /\ a = size * (a \div size) + (a % size) /\ b = size * (b \div size) + (b % size)
      /\ a \div size \in Int /\ b \div size \in Int /\ a % size \in Int /\ b % size \in Int
  BY <1>1
<1> DEFINE d == (b \div size) - (a \div size)
<1> SUFFICES ASSUME a % size = b % size PROVE FALSE
  BY DEF SlotOf, size
<1>3. d \in Int /\ size * d = b - a
  BY <1>1, <1>2
<1> HIDE DEF d
<1>4. CASE d >= 1
  <2>1. size * d >= size
    BY <1>1, <1>3, <1>4
  <2> QED BY <1>1, <1>3, <2>1 DEF size
<1>5. CASE d <= 0
  <2>1. size * d <= 0
    BY <1>1, <1>3, <1>5
  <2> QED BY <1>3, <2>1
<1> QED BY <1>3, <1>4, <1>5

\* So have the commands the host waits for, and the next to be published.
LEMMA LiveSlots ==
  ASSUME TypeOK, IndexInv
  PROVE  /\ \A c, d \in Live : SlotOf(c) = SlotOf(d) => c = d
         /\ Room > 0 => \A c \in Live : SlotOf(c) # SlotOf(h.next)
         /\ \A c \in Live : c \in Nat /\ c \in Cmds /\ SlotOf(c) \in DOMAIN slot
<1>1. h.next \in Nat /\ h.hhead \in Nat /\ RingSize \in Nat \ {0} /\ NumCmds \in Nat
  <2>1. h \in HostStates
    BY DEF TypeOK
  <2> QED BY <2>1, TransportAssumption, NumCmdsNat DEF HostStates
<1>2. h.next <= h.hhead + RingSize /\ h.next <= NumCmds
  BY DEF IndexInv
<1>3. \A c \in Live : c \in Nat /\ c \in Cmds /\ c < h.next /\ h.hhead <= c
  BY <1>1, <1>2 DEF Live, Cmds
<1>4. ASSUME NEW c \in Live, NEW d \in Live, c < d PROVE SlotOf(c) # SlotOf(d)
  BY <1>1, <1>2, <1>3, <1>4, SlotInj
<1>5. ASSUME Room > 0, NEW c \in Live PROVE SlotOf(c) # SlotOf(h.next)
  <2>1. h.next - h.hhead < RingSize
    BY <1>1, <1>5 DEF Room
  <2>2. c < h.next /\ h.next - c < RingSize /\ c \in Int /\ h.next \in Int
    BY <1>1, <1>3, <1>5, <2>1
  <2> QED BY <2>2, SlotInj
<1>6. \A c, d \in Live : SlotOf(c) = SlotOf(d) => c = d
  <2> SUFFICES ASSUME NEW c \in Live, NEW d \in Live, SlotOf(c) = SlotOf(d), c # d PROVE FALSE
    OBVIOUS
  <2>1. c < d \/ d < c
    BY <1>3
  <2> QED BY <1>4, <2>1
<1>7. \A c \in Live : SlotOf(c) \in DOMAIN slot
  BY <1>3, SlotRange DEF TypeOK
<1> QED BY <1>3, <1>5, <1>6, <1>7

-----------------------------------------------------------------------------
(* What the steps of the host do to the commands. *)

\* The steps that end no command and publish none.
Plain ==
  \/ Ring \/ IrqOff \/ Drain \/ Drained \/ TakeMsi \/ Awaited \/ DrainTimeout \/ Teardown \/ StatusBack

SameCommands == UNCHANGED <<m, g, script, wire, slot, res, cmd>>

LEMMA PlainIs ==
  ASSUME TypeOK, Plain
  PROVE  /\ SameCommands /\ ended' = ended
         /\ h'.next = h.next /\ h'.hhead = h.hhead /\ h'.origin = h.origin /\ h'.before = h.before
         /\ SameConf
         /\ h'.pc \in {"script", "drain"} => Working \/ h'.pc = h.pc
         /\ h.timeouts + h.downs > 0 => h'.timeouts + h'.downs > 0
         /\ h'.pc \in {"status", "head", "flr"} => h.pc \in {"status", "head", "flr"} \/ h'.timeouts + h'.downs > 0
<1>1. CASE Ring \/ IrqOff \/ Drain \/ Drained \/ TakeMsi \/ Awaited
  BY <1>1, PlainHostIs DEF SameCommands, SameIdx, SameConf, SameFails, SamePc, Working
<1>2. CASE DrainTimeout \/ Teardown
  BY <1>2, DisableIs DEF SameCommands, SameIdx
<1>3. CASE StatusBack
  BY <1>3, StatusBackIs DEF SameCommands, SameIdx, SameFails
<1> QED BY <1>1, <1>2, <1>3 DEF Plain

\* A command is published.
Stored ==
  /\ h.pc = "script" /\ Working /\ h.next < NumCmds /\ Room > 0 /\ h.next \in Cmds
  /\ Command.kind \in AllKinds
  /\ h'.next = h.next + 1 /\ h'.hhead = h.hhead /\ h'.origin = h.origin /\ SameConf /\ SameFails
  /\ h'.before = Expect(Command.kind, h.before) /\ h'.pc \in {"script", "await"}
  /\ cmd'[h.next] = [kind |-> Command.kind, due |-> Expect(Command.kind, h.before), seed |-> h.seed,
                     epoch |-> h.epoch, tears |-> h.tears]
  /\ \A c \in Cmds : c # h.next => cmd'[c] = cmd[c] /\ res'[c] = res[c]
  /\ res'[h.next] = [i \in 1 .. OutLines(Command.kind) |-> Sentinel]
  /\ slot'[SlotOf(h.next)] = [cmd |-> h.next, status |-> Pending, index |-> 0]
  /\ \A s \in DOMAIN slot : s # SlotOf(h.next) => slot'[s] = slot[s]
  /\ UNCHANGED <<m, g, script, up, wire, ended>>

LEMMA StoredIs ==
  ASSUME TypeOK, Publish \/ PublishIrq
  PROVE  Stored
<1>1. /\ h.pc = "script" /\ h.next < NumCmds /\ Store /\ SameConf /\ SameFails
      /\ h'.next = h.next + 1 /\ h'.hhead = h.hhead /\ h'.origin = h.origin
      /\ h'.before = Expect(Command.kind, h.before) /\ h'.pc \in {"script", "await"}
  BY PublishIs, PublishIrqIs DEF SamePc
<1>2. Command.kind \in AllKinds /\ h.next \in Cmds /\ h.next \in Int
  BY SMTT(30), <1>1, CommandTyped DEF TypeOK, HostStates
<1>3. cmd \in [Cmds -> Published] /\ DOMAIN res = Cmds /\ slot \in [0 .. RingSize - 1 -> SlotLines]
  BY DEF TypeOK
<1>4. SlotOf(h.next) \in 0 .. RingSize - 1
  BY <1>2, SlotRange
<1>5. /\ Room > 0
      /\ cmd' = [cmd EXCEPT ![h.next] = [kind |-> Command.kind, due |-> Expect(Command.kind, h.before),
                                         seed |-> h.seed, epoch |-> h.epoch, tears |-> h.tears]]
      /\ res' = [res EXCEPT ![h.next] = [i \in 1 .. OutLines(Command.kind) |-> Sentinel]]
      /\ slot' = [slot EXCEPT ![SlotOf(h.next)] = [cmd |-> h.next, status |-> Pending, index |-> 0]]
      /\ UNCHANGED <<m, g, script, up, wire, ended>>
  BY <1>1 DEF Store
<1>6. /\ cmd'[h.next] = [kind |-> Command.kind, due |-> Expect(Command.kind, h.before), seed |-> h.seed,
                         epoch |-> h.epoch, tears |-> h.tears]
      /\ \A c \in Cmds : c # h.next => cmd'[c] = cmd[c]
  BY <1>2, <1>3, <1>5
<1>7. /\ res'[h.next] = [i \in 1 .. OutLines(Command.kind) |-> Sentinel]
      /\ \A c \in Cmds : c # h.next => res'[c] = res[c]
  BY <1>2, <1>3, <1>5
<1>8. /\ slot'[SlotOf(h.next)] = [cmd |-> h.next, status |-> Pending, index |-> 0]
      /\ \A s \in DOMAIN slot : s # SlotOf(h.next) => slot'[s] = slot[s]
  BY <1>3, <1>4, <1>5
<1> QED BY <1>1, <1>2, <1>5, <1>6, <1>7, <1>8 DEF Stored, Working

\* The slots and the results of the commands the host waits for stay when one is published.
LEMMA StoredKeeps ==
  ASSUME TypeOK, IndexInv, Stored
  PROVE  /\ \A c \in Live : slot'[SlotOf(c)] = slot[SlotOf(c)]
         /\ \A c \in 0 .. h.next - 1 : cmd'[c] = cmd[c] /\ res'[c] = res[c] /\ c # h.next
         /\ Live' = Live \cup {h.next} /\ h.next \notin Live /\ h.next \in Nat /\ h.hhead \in Nat
         /\ Live \subseteq 0 .. h.next - 1
<1>1. h.next \in Nat /\ h.hhead \in Nat /\ NumCmds \in Nat /\ h.hhead <= h.next /\ h.next <= NumCmds
  <2>1. h \in HostStates
    BY DEF TypeOK
  <2>2. h.next \in Nat /\ h.hhead \in Nat /\ h.rung \in Nat /\ NumCmds \in Nat
    BY <2>1, NumCmdsNat DEF HostStates
  <2>3. h.hhead <= h.rung /\ h.rung <= h.next /\ h.next <= NumCmds
    BY DEF IndexInv
  <2> QED BY <2>2, <2>3
<1>2. \A c \in Live : slot'[SlotOf(c)] = slot[SlotOf(c)]
  BY LiveSlots DEF Stored
<1>3. \A c \in 0 .. h.next - 1 : c \in Cmds /\ c # h.next
  BY <1>1 DEF Cmds
<1>4. \A c \in 0 .. h.next - 1 : cmd'[c] = cmd[c] /\ res'[c] = res[c] /\ c # h.next
  BY <1>3 DEF Stored
<1>5. Live' = h.hhead .. (h.next + 1) - 1
  BY DEF Live, Stored
<1>6. Live' = Live \cup {h.next} /\ h.next \notin Live /\ Live \subseteq 0 .. h.next - 1
  <2>1. Live = h.hhead .. h.next - 1
    BY DEF Live
  <2>2. h.hhead .. (h.next + 1) - 1 = (h.hhead .. h.next - 1) \cup {h.next}
    BY <1>1
  <2>3. h.next \notin h.hhead .. h.next - 1 /\ (h.hhead .. h.next - 1) \subseteq 0 .. h.next - 1
    BY <1>1
  <2> QED BY <1>5, <2>1, <2>2, <2>3
<1> QED BY <1>1, <1>2, <1>4, <1>6

\* The queue is started again: nothing is left to end, and the module is stopped.
LEMMA RestartMeans ==
  ASSUME IInv, HeadBack \/ AfterReset
  PROVE  /\ Live' = {} /\ ~m.enable /\ m' = m /\ g' = g /\ wire' = wire /\ GDone
         /\ \A l \in wire : l.op # "ItoMWr"
         /\ h'.next = h.next /\ h'.hhead = h.next /\ h'.origin = h.next /\ h.next \in Nat
         /\ cmd' = cmd /\ res' = res /\ h'.before = "none" /\ ~Working
<1>0. TypeOK /\ AskedInv /\ QuietInv /\ StageInv /\ ErrandInv
  BY DEF IInv
<1>1. /\ h'.next = h.next /\ h'.hhead = h.next /\ h'.origin = h.next
      /\ m' = m /\ g' = g /\ wire' = wire /\ h.pc \in {"head", "flr"} /\ h'.before = "none"
      /\ (h.pc = "flr" => \A i \in 1 .. Len(io) : io[i] # Flr) /\ cmd' = cmd /\ res' = res
  BY <1>0, RestartIs
<1>2. h.next \in Nat
  <2>1. h \in HostStates
    BY <1>0 DEF TypeOK
  <2> QED BY <2>1 DEF HostStates
<1>3. Live' = h.next .. h.next - 1
  BY <1>1 DEF Live
<1>4. Live' = {}
  BY <1>2, <1>3
<1>5. CASE h.pc = "head"
  <2>1. ~m.enabled
    BY <1>0, <1>5 DEF AskedInv
  <2>2. ~m.enable /\ m.inflight = 0
    BY <1>0, <2>1 DEF StageInv
  <2>3. ~Out(0) /\ ~Out(1) /\ ~Out(2)
    BY <1>0, <2>2 DEF ErrandInv, One
  <2>4. \A l \in wire : l.op # "ItoMWr"
    <3> SUFFICES ASSUME NEW l \in wire, l.op = "ItoMWr" PROVE FALSE
      OBVIOUS
    <3>1. l \in Results("ItoMWr") \cup Records("ItoMWr")
      BY <1>0, LineShape DEF TypeOK
    <3>2. Errand(l, m.job, 0) \/ Errand(l, m.job, 1) \/ Errand(l, m.job, 2)
      BY <3>1, ErrandIs
    <3> QED BY <2>3, <3>2 DEF Out, Runs
  <2> QED BY <1>1, <1>2, <1>4, <1>5, <2>2, <2>4, <1>0 DEF StageInv, Stopped, Waiting, Wedged, Fetching, Loading, Shooting, Recording, Working
<1>6. CASE h.pc = "flr"
  <2> DEFINE f == Flr
  <2>1. \A i \in 1 .. Len(io) : io[i] # f
    BY <1>1, <1>6
  <2> HIDE DEF f
  <2>2. io # <<f>>
    BY <2>1
  <2>3. ~m.enable /\ wire = {}
    BY <1>0, <1>6, <2>2 DEF QuietInv, ResetState, f
  <2> QED BY <1>0, <1>1, <1>2, <1>4, <1>6, <2>3 DEF StageInv, Stopped, Waiting, Wedged, Fetching, Loading, Shooting, Recording, Working
<1> QED BY <1>1, <1>5, <1>6

-----------------------------------------------------------------------------
(* Lines the module wrote reach the host. *)

\* While lines are out the queue is not about to be started.
LEMMA WritesOut ==
  ASSUME IInv, NEW l \in wire, l.op = "ItoMWr"
  PROVE  /\ l \in Results("ItoMWr") \cup Records("ItoMWr") /\ l.what \in {"rec", "res"}
         /\ l.what = "rec" => l \in Records("ItoMWr") /\ Out(0) /\ GDone /\ (m.enable => Recording)
         /\ l.what = "res" => l \in Results("ItoMWr") /\ Out(l.line) /\ ~Out(0) /\ (m.enable => Shooting)
         /\ ~Starting /\ (~m.enable => GDone /\ m.enabled) /\ m.inflight # 0
<1>0. TypeOK /\ StageInv /\ ErrandInv /\ StartInv /\ AskedInv /\ QuietInv
  BY DEF IInv
<1>1. l \in Results("ItoMWr") \cup Records("ItoMWr")
  BY <1>0, LineShape DEF TypeOK
<1>2. /\ l.what \in {"rec", "res"}
      /\ l.what = "rec" => l \in Records("ItoMWr")
      /\ l.what = "res" => l \in Results("ItoMWr") /\ l.line \in 1 .. 2
  BY <1>1 DEF Results, Records
<1>3. l.what = "rec" => Out(0)
  BY DEF Out, Runs, Errand
<1>4. l.what = "res" => Out(l.line)
  BY DEF Out, Runs, Errand
<1>5. l.what = "res" => ~Out(0)
  BY <1>0, <1>2, <1>4 DEF ErrandInv
<1>6. m.inflight # 0
  <2>1. Out(0) \/ Out(1) \/ Out(2)
    BY <1>2, <1>3, <1>4
  <2> QED BY <1>0, <2>1 DEF ErrandInv, One
<1>7. Stopped \/ Shooting \/ Recording
  BY <1>0, <1>6 DEF StageInv, Waiting, Wedged, Fetching, Loading
<1>8. ~m.enable => GDone /\ m.enabled
  BY <1>0, <1>6, <1>7 DEF StageInv, Stopped, Shooting, Recording
<1>9. l.what = "rec" => GDone /\ (m.enable => Recording)
  BY <1>3, <1>7 DEF Stopped, Shooting, Recording
<1>10. l.what = "res" => (m.enable => Shooting)
  BY <1>5, <1>7 DEF Stopped, Shooting, Recording
<1>11. ~Starting
  <2> SUFFICES ASSUME Starting PROVE FALSE
    OBVIOUS
  <2>1. PICK i \in DOMAIN io : Starts(io[i])
    BY DEF Starting
  <2>2. Working \/ Stopping
    BY <1>0, <2>1, WriteMeans DEF Starts, IsWrite
  <2> QED BY <1>0, <1>8, <2>2 DEF StartInv, Starting
<1> QED BY <1>1, <1>2, <1>3, <1>4, <1>5, <1>6, <1>8, <1>9, <1>10, <1>11

\* The record lands in the slot of the command it is for, which was pending.
LEMMA RecordLands ==
  ASSUME IInv, NEW l \in wire, Land(l), l.what = "rec"
  PROVE  /\ l.op = "ItoMWr" /\ l.cmd \in Live /\ l.cmd = l.idx /\ l.cmd \in Nat
         /\ slot'[SlotOf(l.cmd)] = [cmd |-> l.cmd, status |-> l.status, index |-> l.index]
         /\ \A c \in Live : c # l.cmd => slot'[SlotOf(c)] = slot[SlotOf(c)]
         /\ res' = res /\ Truth(l.cmd, l.status, l.index) /\ (m.enable => l.cmd = m.head)
         /\ UNCHANGED <<m, g, up, h, cmd, script, ended>> /\ wire' = wire \ {l}
         /\ IsRecord(At(1)) /\ At(1).idx = l.idx /\ At(1).status = l.status
         /\ \A i \in DOMAIN io : ~IsRecord(io[i])
         /\ \A n \in wire : n.op = "ItoMWr" => n = l
         /\ Status(l.cmd) = Pending
<1>0. TypeOK /\ StatusInv /\ ErrandInv /\ IndexInv
  BY DEF IInv
<1>1. /\ l.op = "ItoMWr" /\ res' = res
      /\ slot' = [s \in DOMAIN slot |-> IF s = l.at THEN [cmd |-> l.cmd, status |-> l.status, index |-> l.index]
                                        ELSE slot[s]]
  BY DEF Land
<1>2. /\ l.cmd = l.idx /\ l.cmd \in Live /\ (m.enable => l.idx = m.head) /\ l.at = SlotOf(l.cmd)
      /\ Truth(l.cmd, l.status, l.index) /\ Status(l.cmd) = Pending
  BY <1>0, <1>1 DEF StatusInv
<1>3. l.cmd \in Nat /\ SlotOf(l.cmd) \in DOMAIN slot
  BY <1>0, <1>2, LiveSlots
<1>4. slot'[SlotOf(l.cmd)] = [cmd |-> l.cmd, status |-> l.status, index |-> l.index]
  BY <1>1, <1>2, <1>3
<1>5. \A c \in Live : c # l.cmd => slot'[SlotOf(c)] = slot[SlotOf(c)]
  BY <1>0, <1>1, <1>2, LiveSlots
<1>6. l \in Records("ItoMWr") /\ Out(0)
  BY <1>1, WritesOut
<1>7. IsRecord(At(1)) /\ At(1).idx = l.idx /\ At(1).status = l.status
  <2>1. At(1) = [l EXCEPT !.op = "go"]
    BY <1>0, LandTypes
  <2> QED BY <1>6, <2>1 DEF IsRecord, Records
<1>8. \A i \in DOMAIN io : ~IsRecord(io[i])
  BY <1>0, <1>1, RecordOnce
<1>9. \A n \in wire : n.op = "ItoMWr" => n = l
  <2> SUFFICES ASSUME NEW n \in wire, n.op = "ItoMWr" PROVE n = l
    OBVIOUS
  <2>1. n.what = "rec"
    BY <1>6, WritesOut
  <2>2. Errand(n, m.job, 0) /\ Errand(l, m.job, 0)
    BY <1>1, <2>1 DEF Errand
  <2> QED BY <1>0, <2>2 DEF ErrandInv, RunsOnce
<1>10. UNCHANGED <<m, g, up, h, cmd, script, ended>> /\ wire' = wire \ {l}
  BY <1>0, LineReaches
<1> QED BY <1>1, <1>2, <1>3, <1>4, <1>5, <1>7, <1>8, <1>9, <1>10

\* A line of results lands in the buffer of the command that is running, or was.
LEMMA ResultLands ==
  ASSUME IInv, NEW l \in wire, Land(l), l.what = "res"
  PROVE  /\ l.op = "ItoMWr" /\ l.cmd \in Live /\ l.cmd = l.idx /\ l.cmd \in Nat /\ l.cmd \in Cmds
         /\ slot' = slot /\ l.line \in DOMAIN res[l.cmd] /\ l.line \in 1 .. 2
         /\ res'[l.cmd][l.line] = l.val
         /\ DOMAIN res'[l.cmd] = DOMAIN res[l.cmd]
         /\ \A i \in DOMAIN res[l.cmd] : i # l.line => res'[l.cmd][i] = res[l.cmd][i]
         /\ \A c \in Cmds : c # l.cmd => res'[c] = res[c]
         /\ (m.enable => l.cmd = m.head /\ Shooting /\ l.line <= g.sent) /\ ~Out(0)
         /\ UNCHANGED <<m, g, up, h, cmd, script, ended>> /\ wire' = wire \ {l}
         /\ ~IsRecord(At(1)) /\ \A i \in DOMAIN io : ~IsRecord(io[i])
         /\ \A n \in wire : n.op = "ItoMWr" => n.what = "res" /\ (n.line = l.line => n = l)
         /\ Status(l.cmd) = Pending
<1>0. TypeOK /\ StatusInv /\ ErrandInv /\ IndexInv
  BY DEF IInv
<1>1. l.op = "ItoMWr" /\ slot' = slot /\ res' = [res EXCEPT ![l.cmd][l.line] = l.val]
  BY DEF Land
<1>2. /\ l.cmd = l.idx /\ l.cmd \in Live /\ (m.enable => l.idx = m.head) /\ l.line \in DOMAIN res[l.cmd]
      /\ Status(l.cmd) = Pending
  BY <1>0, <1>1 DEF StatusInv
<1>3. l.cmd \in Nat /\ l.cmd \in Cmds /\ DOMAIN res = Cmds
  BY <1>0, <1>2, LiveSlots DEF TypeOK
<1>4. res' = [res EXCEPT ![l.cmd] = [res[l.cmd] EXCEPT ![l.line] = l.val]]
  BY <1>1
<1>5. res'[l.cmd] = [res[l.cmd] EXCEPT ![l.line] = l.val] /\ \A c \in Cmds : c # l.cmd => res'[c] = res[c]
  BY <1>3, <1>4
<1>6. /\ res'[l.cmd][l.line] = l.val
      /\ DOMAIN res'[l.cmd] = DOMAIN res[l.cmd]
      /\ \A i \in DOMAIN res[l.cmd] : i # l.line => res'[l.cmd][i] = res[l.cmd][i]
  BY <1>2, <1>5
<1>7. l \in Results("ItoMWr") /\ Out(l.line) /\ ~Out(0) /\ (m.enable => Shooting)
  BY <1>1, WritesOut
<1>8. l.line \in 1 .. 2
  BY <1>7 DEF Results
<1>9. m.enable => l.line <= g.sent
  BY <1>7, <1>8 DEF Shooting
<1>10. ~IsRecord(At(1))
  <2>1. At(1) = [l EXCEPT !.op = "go"]
    BY <1>0, LandTypes
  <2> QED BY <1>7, <2>1 DEF IsRecord, Results
<1>11. \A i \in DOMAIN io : ~IsRecord(io[i])
  BY <1>7, RecordOut
<1>12. \A n \in wire : n.op = "ItoMWr" => n.what = "res" /\ (n.line = l.line => n = l)
  <2> SUFFICES ASSUME NEW n \in wire, n.op = "ItoMWr" PROVE n.what = "res" /\ (n.line = l.line => n = l)
    OBVIOUS
  <2>1. n.what = "res"
    BY <1>7, WritesOut
  <2>2. n.line = l.line => Errand(n, m.job, l.line) /\ Errand(l, m.job, l.line)
    BY <1>1, <2>1 DEF Errand
  <2> QED BY <1>0, <1>8, <2>1, <2>2 DEF ErrandInv, RunsOnce
<1>13. UNCHANGED <<m, g, up, h, cmd, script, ended>> /\ wire' = wire \ {l}
  BY <1>0, LineReaches
<1> QED BY <1>1, <1>2, <1>3, <1>5, <1>6, <1>7, <1>8, <1>9, <1>10, <1>11, <1>12, <1>13

LEMMA ReadLands ==
  ASSUME IInv, NEW l \in wire, AtHost(l)
  PROVE  /\ l.op = "RdCurr" /\ wire' = wire \ {l} /\ ~IsRecord(At(1)) /\ At(1).op = "back"
         /\ UNCHANGED <<m, g, up, h, cmd, script, ended, slot, res>>
<1>0. TypeOK
  BY DEF IInv
<1>1. l.op = "RdCurr" /\ wire' = wire \ {l} /\ UNCHANGED <<m, g, up, h, cmd, script, ended, slot, res>>
  BY DEF AtHost
<1>2. At(1) = [op |-> "back", what |-> l.what, idx |-> l.idx, job |-> l.job,
               gen |-> l.gen, cmd |-> InMemory(l.at).cmd]
  BY <1>0, AtHostTypes
<1>3. At(1).op = "back"
  BY <1>2
<1> QED BY <1>1, <1>3 DEF IsRecord

-----------------------------------------------------------------------------
(* What the host knows of its commands. *)

CmdKinds ==
  \A c \in 0 .. h.next - 1 :
    /\ cmd[c].kind \in AllKinds /\ cmd[c].due \in Failed \cup {"done"}
    /\ DOMAIN res[c] = 1 .. OutLines(cmd[c].kind)
CmdSlots ==
  \A c \in Live : /\ slot[SlotOf(c)].cmd = c
                  /\ cmd[c].seed = h.seed /\ cmd[c].epoch = h.epoch /\ cmd[c].tears = h.tears
CmdDues ==
  \A c \in h.origin .. h.next - 1 :
    cmd[c].due = Expect(cmd[c].kind, IF c = h.origin THEN "none" ELSE cmd[c - 1].due)
CmdBefore == h.before = IF h.next = h.origin THEN "none" ELSE cmd[h.next - 1].due
CmdPrev   == m.enable => m.prev = IF m.head = h.origin THEN "none" ELSE cmd[m.head - 1].due

LEMMA CmdParts == CmdInv <=> CmdKinds /\ CmdSlots /\ CmdDues /\ CmdBefore /\ CmdPrev
  BY DEF CmdInv, CmdKinds, CmdSlots, CmdDues, CmdBefore, CmdPrev

LEMMA CmdPartsNext == CmdInv' <=> CmdKinds' /\ CmdSlots' /\ CmdDues' /\ CmdBefore' /\ CmdPrev'
  BY DEF CmdInv, CmdKinds, CmdSlots, CmdDues, CmdBefore, CmdPrev

LEMMA CmdHost == ASSUME IInv, HostNext PROVE CmdInv'
<1>0. TypeOK /\ IndexInv /\ CmdKinds /\ CmdSlots /\ CmdDues /\ CmdBefore /\ CmdPrev
  BY CmdParts DEF IInv
<1>n. /\ h.next \in Nat /\ h.origin \in Nat /\ h.hhead \in Nat /\ m.head \in Nat /\ h.origin <= h.next /\ m.head <= h.next
      /\ m.enable => h.origin <= m.head
  <2>1. m \in ModuleStates /\ h \in HostStates
    BY <1>0 DEF TypeOK
  <2>2. h.next \in Nat /\ h.origin \in Nat /\ h.hhead \in Nat /\ m.head \in Nat /\ h.rung \in Nat
    BY <2>1 DEF ModuleStates, HostStates
  <2>3. /\ h.origin <= h.hhead /\ h.hhead <= h.rung /\ h.rung <= h.next /\ m.head <= h.rung
        /\ m.enable => h.origin <= m.head
    BY <1>0 DEF IndexInv
  <2> QED BY <2>2, <2>3
<1>1. CASE Publish \/ PublishIrq
  <2>1. Stored
    BY <1>0, <1>1, StoredIs
  <2>2. /\ \A c \in Live : slot'[SlotOf(c)] = slot[SlotOf(c)]
        /\ \A c \in 0 .. h.next - 1 : cmd'[c] = cmd[c] /\ res'[c] = res[c]
        /\ Live' = Live \cup {h.next} /\ Live \subseteq 0 .. h.next - 1
    BY <1>0, <2>1, StoredKeeps
  <2>3. /\ h'.next = h.next + 1 /\ h'.origin = h.origin /\ SameConf /\ h'.before = Expect(Command.kind, h.before)
        /\ m' = m /\ Command.kind \in AllKinds
        /\ slot'[SlotOf(h.next)].cmd = h.next
        /\ cmd'[h.next].kind = Command.kind /\ cmd'[h.next].due = Expect(Command.kind, h.before)
        /\ cmd'[h.next].seed = h.seed /\ cmd'[h.next].epoch = h.epoch /\ cmd'[h.next].tears = h.tears
        /\ DOMAIN res'[h.next] = 1 .. OutLines(Command.kind)
    BY <2>1 DEF Stored
  <2>4. 0 .. h'.next - 1 = (0 .. h.next - 1) \cup {h.next}
    BY <1>n, <2>3
  <2>5. CmdKinds'
    BY <1>0, <2>2, <2>3, <2>4, ExpectTyped DEF CmdKinds
  <2>6. CmdSlots'
    BY <1>0, <2>2, <2>3 DEF CmdSlots, SameConf
  <2>7. CmdDues'
    <3> SUFFICES ASSUME NEW c \in h.origin .. h.next
                 PROVE  cmd'[c].due = Expect(cmd'[c].kind, IF c = h.origin THEN "none" ELSE cmd'[c - 1].due)
      <4>1. h.origin .. (h.next + 1) - 1 = h.origin .. h.next
        BY <1>n
      <4> QED BY <2>3, <4>1 DEF CmdDues
    <3>1. c # h.origin => c - 1 \in 0 .. h.next - 1
      BY <1>n
    <3>2. c # h.origin => cmd'[c - 1] = cmd[c - 1]
      BY <2>2, <3>1
    <3>3. CASE c = h.next
      BY <1>0, <2>3, <3>2, <3>3 DEF CmdBefore
    <3>4. CASE c # h.next
      <4>1. c \in 0 .. h.next - 1 /\ c \in h.origin .. h.next - 1
        BY <1>n, <3>4
      <4> QED BY <1>0, <2>2, <3>2, <4>1 DEF CmdDues
    <3> QED BY <3>3, <3>4
  <2>8. CmdBefore'
    <3>1. h.next + 1 # h.origin /\ (h.next + 1) - 1 = h.next
      BY <1>n
    <3> QED BY <2>3, <3>1 DEF CmdBefore
  <2>9. CmdPrev'
    <3>1. m.enable /\ m.head # h.origin => m.head - 1 \in 0 .. h.next - 1
      BY <1>n
    <3> QED BY <1>0, <2>2, <2>3, <3>1 DEF CmdPrev
  <2> QED BY <2>5, <2>6, <2>7, <2>8, <2>9, CmdPartsNext
<1>2. CASE Plain
  <2>1. /\ m' = m /\ slot' = slot /\ res' = res /\ cmd' = cmd /\ SameConf
        /\ h'.next = h.next /\ h'.hhead = h.hhead /\ h'.origin = h.origin /\ h'.before = h.before
    BY <1>0, <1>2, PlainIs DEF SameCommands
  <2>2. Live' = Live
    BY <2>1 DEF Live
  <2> QED BY <1>0, <2>1, <2>2, CmdPartsNext DEF CmdKinds, CmdSlots, CmdDues, CmdBefore, CmdPrev, SameConf
<1>3. CASE SetSeed
  <2>1. /\ m' = m /\ slot' = slot /\ res' = res /\ cmd' = cmd /\ h.hhead = h.next
        /\ h'.next = h.next /\ h'.hhead = h.hhead /\ h'.origin = h.origin /\ h'.before = h.before
    BY <1>0, <1>3, PlainHostIs DEF SameIdx
  <2>2. Live' = {}
    BY <1>n, <2>1 DEF Live
  <2> QED BY <1>0, <2>1, <2>2, CmdPartsNext DEF CmdKinds, CmdSlots, CmdDues, CmdBefore, CmdPrev
<1>4. CASE TryEnd
  <2>1. /\ m' = m /\ slot' = slot /\ res' = res /\ cmd' = cmd /\ SameConf
        /\ h'.next = h.next /\ h'.hhead = h.hhead + 1 /\ h'.origin = h.origin /\ h'.before = h.before
    BY <1>0, <1>4, TryEndIs
  <2>2. Live' \subseteq Live
    <3>1. Live' = h.hhead + 1 .. h.next - 1
      BY <2>1 DEF Live
    <3>2. h.hhead + 1 .. h.next - 1 \subseteq h.hhead .. h.next - 1
      BY <1>n
    <3> QED BY <3>1, <3>2 DEF Live
  <2> QED BY <1>0, <2>1, <2>2, CmdPartsNext DEF CmdKinds, CmdSlots, CmdDues, CmdBefore, CmdPrev, SameConf
<1>5. CASE HeadBack \/ AfterReset
  <2>1. /\ Live' = {} /\ ~m.enable /\ m' = m /\ h'.next = h.next /\ h'.origin = h.next /\ cmd' = cmd /\ res' = res
        /\ h'.before = "none"
    BY <1>5, RestartMeans
  <2>2. h.next .. h.next - 1 = {}
    BY <1>n
  <2> QED BY <1>0, <2>1, <2>2, CmdPartsNext DEF CmdKinds, CmdSlots, CmdDues, CmdBefore, CmdPrev
<1> QED BY <1>1, <1>2, <1>3, <1>4, <1>5 DEF HostNext, Plain

LEMMA CmdStep == ASSUME IInv, [Next]_vars PROVE CmdInv'
<1>0. /\ TypeOK /\ IndexInv /\ ModuleInv /\ AskedInv /\ StartInv /\ QuietInv /\ StatusInv /\ CmdInv
      /\ CmdKinds /\ CmdSlots /\ CmdDues /\ CmdBefore /\ CmdPrev
  BY CmdParts DEF IInv, ModuleInv
<1>n. m.head \in Nat /\ h.origin \in Nat
  <2>1. m \in ModuleStates /\ h \in HostStates
    BY <1>0 DEF TypeOK
  <2> QED BY <2>1 DEF ModuleStates, HostStates
<1>1. CASE ArriveSteps
  <2>1. UNCHANGED <<script, slot, res, cmd, ended, h>>
    BY <1>1, ArriveKeeps
  <2>2. Live' = Live
    BY <2>1 DEF Live
  <2>3. CmdKinds' /\ CmdSlots' /\ CmdDues' /\ CmdBefore'
    BY <1>0, <2>1, <2>2 DEF CmdKinds, CmdSlots, CmdDues, CmdBefore
  <2>4. CmdPrev'
    <3> SUFFICES ASSUME m'.enable PROVE m'.prev = IF m'.head = h.origin THEN "none" ELSE cmd[m'.head - 1].due
      BY <2>1 DEF CmdPrev
    <3>1. CASE NextSlot
      <4>1. m'.head = m.head + 1 /\ m'.prev = cmd[m.head].due /\ m.enable
        BY <1>0, <3>1, NextSlotIs
      <4>2. h.origin <= m.head
        BY <1>0, <4>1 DEF IndexInv
      <4>3. m.head + 1 # h.origin /\ (m.head + 1) - 1 = m.head
        BY <1>n, <4>2
      <4> QED BY <4>1, <4>3
    <3>2. CASE StartQueue
      BY <1>0, <3>2, StartQueueIs
    <3>3. CASE ~NextSlot /\ ~StartQueue
      <4>1. ~TakeFlr
        BY DEF TakeFlr, ResetState
      <4>2. m.enable /\ m'.head = m.head /\ m'.prev = m.prev
        BY <1>1, <3>3, <4>1, ArriveKeeps, ArriveMoves
      <4> QED BY <1>0, <4>2 DEF CmdPrev
    <3> QED BY <3>1, <3>2, <3>3
  <2> QED BY <2>3, <2>4, CmdPartsNext
<1>2. CASE Shot
  <2>1. /\ UNCHANGED <<script, slot, res, cmd, ended, h>>
        /\ m'.head = m.head /\ m'.enable = m.enable /\ m'.prev = m.prev
    BY <1>0, <1>2 DEF Shot, TypeOK, ModuleStates
  <2> QED BY <1>0, <2>1 DEF CmdInv, Live
<1>3. ASSUME NEW l \in wire, Land(l) \/ AtHost(l) PROVE CmdInv'
  <2>1. m' = m /\ h' = h /\ cmd' = cmd
    BY <1>0, <1>3, LineReaches
  <2>2. Live' = Live
    BY <2>1 DEF Live
  <2>3. CmdDues' /\ CmdBefore' /\ CmdPrev'
    BY <1>0, <2>1 DEF CmdDues, CmdBefore, CmdPrev
  <2>4. CASE AtHost(l)
    <3>1. slot' = slot /\ res' = res
      BY <2>4, ReadLands
    <3> QED BY <1>0, <2>1, <2>2, <2>3, <3>1, CmdPartsNext DEF CmdKinds, CmdSlots
  <2>5. CASE Land(l) /\ l.what = "rec"
    <3>1. /\ slot'[SlotOf(l.cmd)] = [cmd |-> l.cmd, status |-> l.status, index |-> l.index]
          /\ \A c \in Live : c # l.cmd => slot'[SlotOf(c)] = slot[SlotOf(c)]
          /\ res' = res
      BY <2>5, RecordLands
    <3>2. slot'[SlotOf(l.cmd)].cmd = l.cmd
      BY <3>1
    <3>3. CmdSlots'
      BY <1>0, <2>1, <2>2, <3>1, <3>2 DEF CmdSlots
    <3>4. CmdKinds'
      BY <1>0, <2>1, <3>1 DEF CmdKinds
    <3> QED BY <2>3, <3>3, <3>4, CmdPartsNext
  <2>6. CASE Land(l) /\ l.what = "res"
    <3>1. /\ slot' = slot /\ DOMAIN res'[l.cmd] = DOMAIN res[l.cmd] /\ l.cmd \in Cmds
          /\ \A c \in Cmds : c # l.cmd => res'[c] = res[c]
      BY <2>6, ResultLands
    <3>2. \A c \in 0 .. h.next - 1 : c \in Cmds
      <4>1. h.next \in Nat /\ NumCmds \in Nat /\ h.next <= NumCmds
        BY <1>0, NumCmdsNat DEF TypeOK, HostStates, IndexInv
      <4> QED BY <4>1 DEF Cmds
    <3>3. CmdKinds'
      BY <1>0, <2>1, <3>1, <3>2 DEF CmdKinds
    <3>4. CmdSlots'
      BY <1>0, <2>1, <2>2, <3>1 DEF CmdSlots
    <3> QED BY <2>3, <3>3, <3>4, CmdPartsNext
  <2>7. Land(l) => l.what \in {"rec", "res"}
    BY WritesOut DEF Land
  <2> QED BY <1>3, <2>4, <2>5, <2>6, <2>7
<1>4. CASE HostNext
  BY <1>4, CmdHost
<1>5. CASE UNCHANGED vars
  <2>1. UNCHANGED <<m, h, cmd, slot, res>>
    BY <1>5 DEF vars
  <2> QED BY <1>0, <2>1 DEF CmdInv, Live
<1> QED BY <1>1, <1>2, <1>3, <1>4, <1>5, Steps

-----------------------------------------------------------------------------
(* Statuses. *)

RecordBack == \E i \in DOMAIN io : IsRecord(io[i])

\* The parts of StatusInv.
SlotsTrue == \A c \in Live : Status(c) # Pending => Truth(c, Status(c), slot[SlotOf(c)].index)
LineTrue(l) ==
  /\ l.cmd = l.idx /\ l.cmd \in Live /\ Status(l.cmd) = Pending
  /\ m.enable => l.idx = m.head
  /\ l.what = "rec" => l.at = SlotOf(l.cmd) /\ Truth(l.cmd, l.status, l.index)
  /\ l.what = "res" => l.line \in DOMAIN res[l.cmd]
LinesTrue == \A l \in wire : l.op = "ItoMWr" => LineTrue(l)
BackTrue ==
  \A i \in DOMAIN io : IsRecord(io[i]) /\ m.enable => io[i].idx = m.head /\ io[i].status = cmd[m.head].due
PendingPast ==
  m.enable => \A c \in Live : Status(c) = Pending <=> c > m.head \/ (c = m.head /\ ~RecordBack)
PendingAll == Starting => \A c \in Live : Status(c) = Pending

LEMMA StatusParts == StatusInv <=> SlotsTrue /\ LinesTrue /\ BackTrue /\ PendingPast /\ PendingAll
  BY DEF StatusInv, SlotsTrue, LineTrue, LinesTrue, BackTrue, PendingPast, PendingAll, RecordBack

LEMMA StatusPartsNext == StatusInv' <=> SlotsTrue' /\ LinesTrue' /\ BackTrue' /\ PendingPast' /\ PendingAll'
  BY DEF StatusInv, SlotsTrue, LineTrue, LinesTrue, BackTrue, PendingPast, PendingAll, RecordBack

\* The queue is not about to be started by an arrival, nor by the host while it works.
LEMMA ArriveStarting ==
  ASSUME IInv, ArriveSteps, Starting'
  PROVE  Starting /\ m'.enable = m.enable
<1>0. TypeOK /\ OrderInv /\ AskedInv /\ QuietInv /\ ModuleInv
  BY DEF IInv, ModuleInv
<1>1. Shifted /\ Pop /\ (m'.enable = m.enable \/ StartQueue \/ StopQueue \/ TakeFlr)
  BY ArriveKeeps
<1>2. PICK i \in DOMAIN io' : Starts(io'[i]) /\ ~m'.enable
  BY DEF Starting
<1>3. i + 1 \in DOMAIN io /\ Starts(io[i + 1]) /\ 1 < i + 1 /\ 1 \in DOMAIN io /\ Msg = io[1]
  BY <1>1, <1>2 DEF Shifted
<1>4. ~StopQueue
  <2> SUFFICES ASSUME StopQueue PROVE FALSE
    OBVIOUS
  <2>1. Stops(io[1])
    BY <1>3 DEF StopQueue
  <2> QED BY <1>0, <1>3, <2>1 DEF OrderInv, Starts, IsWrite
<1>5. ~StartQueue
  BY <1>0, <1>2, StartQueueIs DEF IInv
<1>6. ~TakeFlr
  <2> SUFFICES ASSUME TakeFlr PROVE FALSE
    OBVIOUS
  <2>1. io' = <<>>
    BY <1>0, TakeFlrIs
  <2> QED BY <1>2, <2>1
<1> QED BY <1>1, <1>2, <1>3, <1>4, <1>5, <1>6 DEF Starting

LEMMA WorkingStarts ==
  ASSUME IInv, Working, ~m.enable
  PROVE  Starting
<1>1. StartBody
  BY StartInvIs DEF IInv
<1> QED BY <1>1 DEF StartBody, StartAt, Starting

LEMMA HostStarting ==
  ASSUME IInv, HostNext, Starting'
  PROVE  Starting \/ HeadBack \/ AfterReset
<1>0. TypeOK
  BY DEF IInv
<1>1. m' = m /\ ~m.enable
  BY <1>0, HostSentLemma DEF HostSent, Starting
<1>2. CASE Working
  BY <1>1, <1>2, WorkingStarts
<1>3. CASE StatusBack
  <2>1. PICK i \in DOMAIN io' : Starts(io'[i])
    BY DEF Starting
  <2>2. i \notin DOMAIN io => io'[i].op # "write"
    <3>1. i \notin DOMAIN io => IsRead(io'[i], "HEAD") \/ io'[i].op = "flr" \/ IsRead(io'[i], "STATUS")
      BY <1>0, <1>3, Fresh
    <3> QED BY <3>1 DEF IsRead
  <2>3. i \in DOMAIN io /\ io'[i] = io[i]
    BY <1>0, <2>1, <2>2, HostSentLemma DEF HostSent, Starts, IsWrite
  <2> QED BY <1>1, <2>1, <2>3 DEF Starting
<1>4. CASE TakeMsi
  <2>1. io' = io
    BY <1>0, <1>4, HostSends
  <2> QED BY <1>1, <2>1 DEF Starting
<1>5. Working \/ StatusBack \/ TakeMsi \/ HeadBack \/ AfterReset
  <2>1. Publish \/ PublishIrq => Working
    BY <1>0, StoredIs DEF Stored
  <2>2. Ring \/ IrqOff \/ SetSeed \/ Drain \/ Drained \/ Awaited => Working
    BY <1>0, PlainHostIs DEF Working
  <2>3. TryEnd => Working
    BY <1>0, TryEndIs DEF Working
  <2>4. DrainTimeout \/ Teardown => Working
    BY <1>0, DisableIs
  <2> QED BY <2>1, <2>2, <2>3, <2>4 DEF HostNext
<1> QED BY <1>2, <1>3, <1>4, <1>5

\* Nothing the host sends is a record on its way back.
LEMMA HostRecords ==
  ASSUME TypeOK, HostNext
  PROVE  /\ RecordBack' <=> RecordBack
         /\ \A i \in DOMAIN io' : IsRecord(io'[i]) => i \in DOMAIN io /\ io'[i] = io[i]
         /\ m' = m /\ wire' = wire /\ g' = g
<1>1. HostSent
  BY HostSentLemma
<1>2. \A i \in DOMAIN io' : IsRecord(io'[i]) => i \in DOMAIN io /\ io'[i] = io[i]
  BY <1>1 DEF HostSent, IsRecord
<1>3. \A i \in DOMAIN io : i \in DOMAIN io' /\ io'[i] = io[i]
  BY <1>1 DEF HostSent
<1> QED BY <1>1, <1>2, <1>3 DEF RecordBack, HostSent

\* The descriptor says the command is not to run: its record is sent, and is true.
LEMMA EndsEarlyIs ==
  ASSUME IInv, NEW s \in Failed, EndsEarly(s)
  PROVE  \E x \in Records("ItoMWr") :
           /\ wire' = wire \cup {x} /\ x.idx = m.head /\ x.cmd = m.head /\ x.at = SlotOf(m.head)
           /\ x.status = s /\ x.index = None /\ Truth(m.head, s, None)
           /\ m.head \in Live /\ m.enable /\ m'.enable /\ m'.head = m.head /\ Status(m.head) = Pending
           /\ g' = g /\ GDone /\ m'.gemm_ct = m.gemm_ct /\ m'.job = m.job /\ Out(3)
           /\ \A l \in wire : l.op # "ItoMWr"
<1>0. /\ TypeOK /\ ModuleInv /\ IndexInv /\ ResultInv /\ CmdKinds /\ CmdDues /\ CmdPrev /\ PendingPast
  BY CmdParts, StatusParts DEF IInv, ModuleInv
<1>1. /\ IsDescriptor /\ m' = [m EXCEPT !.inflight = @ + 1] /\ g' = g
      /\ wire' = wire \cup {RecordLine(m, Msg.idx, Msg.cmd, s, None)}
  BY DEF EndsEarly
<1>2. /\ m.enable /\ m.inflight = 0 /\ Out(3) /\ Msg.idx = m.head /\ Msg.cmd = m.head /\ GDone
      /\ \A k \in 0 .. 3 : ~Runs(io', wire, m.job, k)
  BY <1>0, <1>1, BackIs DEF IsDescriptor
<1>3. m.head \in Live /\ m.ring
  BY <1>0, <1>2, ReadsLive
<1>4. m \in ModuleStates /\ m.head \in Nat /\ h \in HostStates
  <2>1. m \in ModuleStates /\ h \in HostStates
    BY <1>0 DEF TypeOK
  <2> QED BY <2>1 DEF ModuleStates
<1>n. h.next \in Nat /\ h.hhead \in Nat /\ h.origin \in Nat /\ h.origin <= h.hhead /\ m.head \in h.origin .. h.next - 1
      /\ m.head \in 0 .. h.next - 1
  <2>1. h.next \in Nat /\ h.hhead \in Nat /\ h.origin \in Nat
    BY <1>4 DEF HostStates
  <2>2. h.origin <= h.hhead
    BY <1>0 DEF IndexInv
  <2> QED BY <1>3, <1>4, <2>1, <2>2 DEF Live
<1>5. m'.enable /\ m'.head = m.head /\ m'.gemm_ct = m.gemm_ct /\ m'.job = m.job
  BY <1>1, <1>2, <1>4 DEF ModuleStates
<1> DEFINE x == RecordLine(m, m.head, m.head, s, None)
<1>6. x \in Records("ItoMWr")
  BY <1>4, RecordLineTyped DEF Failed, Statuses, None
<1>7. x.idx = m.head /\ x.cmd = m.head /\ x.at = SlotOf(m.head) /\ x.status = s /\ x.index = None
  BY <1>3 DEF RecordLine, SlotAddr
<1>8. wire' = wire \cup {x}
  BY <1>1, <1>2
<1>9. ~Out(0) /\ ~Out(1) /\ ~Out(2)
  BY <1>0, <1>2 DEF ModuleInv, ErrandInv, One
<1>10. \A l \in wire : l.op # "ItoMWr"
  <2> SUFFICES ASSUME NEW l \in wire, l.op = "ItoMWr" PROVE FALSE
    OBVIOUS
  <2>1. m.inflight # 0
    BY WritesOut
  <2> QED BY <1>2, <2>1
<1>11. ~RecordBack
  BY <1>9, RecordOut DEF RecordBack
<1>12. Status(m.head) = Pending
  BY <1>0, <1>2, <1>3, <1>11 DEF PendingPast
<1>13. Clean(m.head)
  BY <1>0, <1>2, <1>3, <1>9 DEF ResultInv
<1>14. m.prev = IF m.head = h.origin THEN "none" ELSE cmd[m.head - 1].due
  BY <1>0, <1>2 DEF CmdPrev
<1>15. cmd[m.head].due = Expect(cmd[m.head].kind, m.prev)
  BY <1>0, <1>n, <1>14 DEF CmdDues
<1>16. cmd[m.head].kind \in AllKinds /\ m.head # None
  BY <1>0, <1>n DEF CmdKinds, None
<1>17. s = cmd[m.head].due
  <2>1. CASE s = "not_issued"
    BY <1>2, <1>15, <1>16, <2>1 DEF EndsEarly, Usable, Expect
  <2>2. CASE s = "refused"
    BY <1>2, <1>15, <1>16, <2>2 DEF EndsEarly, Usable, Expect
  <2>3. CASE s = "not_run"
    BY <1>2, <1>15, <1>16, <2>3 DEF EndsEarly, Usable, Expect, MustNotRun
  <2> QED BY <2>1, <2>2, <2>3 DEF Failed
<1>18. Truth(m.head, s, None)
  BY <1>13, <1>17 DEF Truth, Failed
<1> QED BY <1>1, <1>2, <1>3, <1>5, <1>6, <1>7, <1>8, <1>10, <1>12, <1>18

\* The last line of results is ordered: the record is sent, and all of them are in memory.
LEMMA LastOrderedIs ==
  ASSUME IInv, LastOrdered
  PROVE  \E x \in Records("ItoMWr") :
           /\ wire' = wire \cup {x} /\ x.idx = m.head /\ x.cmd = m.head /\ x.at = SlotOf(m.head)
           /\ x.status = "done" /\ x.index = g.index /\ Truth(m.head, "done", g.index)
           /\ m.head \in Live /\ m.enable /\ m'.enable /\ m'.head = m.head /\ Status(m.head) = Pending
           /\ GDone' /\ ~GDone /\ m'.gemm_ct = m.gemm_ct /\ m'.job = m.job /\ Shooting
           /\ \A l \in wire : l.op # "ItoMWr"
<1>0. /\ TypeOK /\ ModuleInv /\ IndexInv /\ ResultInv /\ CmdKinds /\ PendingPast
  BY CmdParts, StatusParts DEF IInv, ModuleInv
<1>1. /\ Pop /\ Msg.op = "go" /\ Msg.what = "res" /\ Msg.job = m.job
      /\ g' = [g EXCEPT !.ordered = @ + 1] /\ AllOrdered(g') /\ cmd' = cmd
      /\ wire' = wire \cup {RecordLine([m EXCEPT !.inflight = @ - 1], g.idx, g.cmd, "done", g.index)}
      /\ m' = [[m EXCEPT !.inflight = @ - 1] EXCEPT !.inflight = @ + 1]
  BY DEF LastOrdered, Pop
<1>2. m.enable /\ Shooting
  BY <1>0, <1>1, GoIs
<1>3. m \in ModuleStates /\ g \in Works
  BY <1>0 DEF TypeOK
<1>4. /\ m.head \in Nat /\ g.sent \in Nat /\ g.ordered \in Nat /\ m.inflight \in Int /\ g.cmd = m.head /\ g.idx = m.head
      /\ m'.enable = m.enable /\ m'.head = m.head /\ m'.gemm_ct = m.gemm_ct /\ m'.job = m.job
      /\ g'.pc = g.pc /\ g'.sent = g.sent /\ g'.cmd = g.cmd /\ g'.ordered = g.ordered + 1
  BY <1>1, <1>2, <1>3 DEF ModuleStates, Works, Shooting, OnHead
<1> DEFINE n == OutLines(cmd[g.cmd].kind)
<1>5. n \in Nat
  BY LinesOf
<1>6. g.pc = "shots" /\ g.ordered < n /\ g.sent <= n /\ m.inflight = g.sent - g.ordered /\ ~Out(0)
  BY <1>2 DEF Shooting
<1>7. g.ordered + 1 = n
  BY <1>1, <1>4 DEF AllOrdered
<1> HIDE DEF n
<1>8. m.inflight - 1 = One(Runs(io', wire, m.job, 0)) + One(Runs(io', wire, m.job, 1)) + One(Runs(io', wire, m.job, 2))
  BY <1>0, <1>1, GoCounts
<1>9. m.inflight - 1 >= 0
  BY <1>8 DEF One
<1>10. m.inflight = 1 /\ g.sent = n
  BY <1>4, <1>5, <1>6, <1>7, <1>9
<1>11. ~Runs(io', wire, m.job, 0) /\ ~Runs(io', wire, m.job, 1) /\ ~Runs(io', wire, m.job, 2)
  BY <1>8, <1>10 DEF One
<1>12. \A l \in wire : l.op # "ItoMWr"
  <2> SUFFICES ASSUME NEW l \in wire, l.op = "ItoMWr" PROVE FALSE
    OBVIOUS
  <2>1. l \in Results("ItoMWr") \cup Records("ItoMWr")
    BY <1>0, LineShape DEF TypeOK
  <2>2. Errand(l, m.job, 0) \/ Errand(l, m.job, 1) \/ Errand(l, m.job, 2)
    BY <2>1, ErrandIs
  <2> QED BY <1>11, <2>2 DEF Runs
<1>13. ~GDone
  BY <1>4, <1>5, <1>6, <1>7, <1>10 DEF GDone
<1>14. GDone'
  BY <1>1, <1>4, <1>6, <1>7, <1>10 DEF GDone, n
<1>15. /\ m.head \in Live /\ g.seed = cmd[m.head].seed /\ g.index \in Nat /\ cmd[m.head].due = "done"
       /\ \A i \in DOMAIN res[m.head] :
            IF i <= g.sent /\ ~\E l \in wire : Errand(l, m.job, i)
            THEN res[m.head][i] = <<g.seed, g.index>> ELSE res[m.head][i] = Sentinel
  BY <1>0, <1>13 DEF ResultInv
<1>16. DOMAIN res[m.head] = 1 .. n
  <2>1. m.head \in 0 .. h.next - 1
    <3>1. h \in HostStates
      BY <1>0 DEF TypeOK
    <3>2. h.next \in Nat /\ h.hhead \in Nat
      BY <3>1 DEF HostStates
    <3> QED BY <1>4, <1>15, <3>2 DEF Live
  <2> QED BY <1>0, <1>4, <2>1 DEF CmdKinds, n
<1>17. \A i \in DOMAIN res[m.head] : i <= g.sent /\ ~\E l \in wire : Errand(l, m.job, i)
  <2> SUFFICES ASSUME NEW i \in DOMAIN res[m.head] PROVE i <= g.sent /\ ~\E l \in wire : Errand(l, m.job, i)
    OBVIOUS
  <2>1. i \in 1 .. n /\ i <= g.sent /\ n \in 1 .. 2
    BY <1>5, <1>10, <1>16, LinesOf DEF n
  <2>2. i \in {1, 2}
    BY <2>1
  <2>3. ~\E l \in wire : Errand(l, m.job, i)
    BY <1>11, <2>2 DEF Runs
  <2> QED BY <2>1, <2>3
<1>18. Right(m.head, g.index)
  BY <1>15, <1>17 DEF Right
<1>19. Truth(m.head, "done", g.index)
  BY <1>15, <1>18 DEF Truth, Failed
<1>20. ~RecordBack
  BY <1>6, RecordOut DEF RecordBack
<1>21. Status(m.head) = Pending
  BY <1>0, <1>2, <1>15, <1>20 DEF PendingPast
<1>22. m.ring
  BY <1>0, <1>2 DEF IndexInv
<1> DEFINE mm == [m EXCEPT !.inflight = @ - 1]
           x == RecordLine(mm, m.head, m.head, "done", g.index)
<1>23. mm \in ModuleStates /\ mm.ring = m.ring
  BY <1>3, <1>4 DEF ModuleStates
<1>24. x \in Records("ItoMWr")
  <2> HIDE DEF mm
  <2> QED BY <1>4, <1>15, <1>23, RecordLineTyped DEF Statuses
<1>25. x.idx = m.head /\ x.cmd = m.head /\ x.at = SlotOf(m.head) /\ x.status = "done" /\ x.index = g.index
  <2> HIDE DEF mm
  <2> QED BY <1>22, <1>23 DEF RecordLine, SlotAddr
<1>26. wire' = wire \cup {x}
  BY <1>1, <1>4
<1> HIDE DEF x
<1> QED BY <1>2, <1>4, <1>12, <1>13, <1>14, <1>15, <1>19, <1>21, <1>24, <1>25, <1>26

\* What an arrival adds to the wire: reads, or the record.
LEMMA WireGrows ==
  ASSUME IInv, ArriveSteps
  PROVE  /\ wire \subseteq wire'
         /\ \/ \A l \in wire' : l \in wire \/ l.op = "RdCurr"
            \/ \E s \in Failed : EndsEarly(s)
            \/ LastOrdered
<1>0. TypeOK /\ ModuleInv /\ AskedInv /\ StartInv /\ QuietInv /\ IndexInv /\ StatusInv /\ OrderInv
  BY DEF IInv, ModuleInv
<1>1. Ignored \/ SameQueue \/ TailOff \/ TailBad \/ SetRing \/ SetIrqAt \/ TakeSeed \/ Answer \/ TakeFlr
        \/ Wedge \/ Operands \/ Dropped \/ OneOrdered \/ StopQueue => wire' = wire
  BY DEF Ignored, SameQueue, TailOff, TailBad, SetRing, SetIrqAt, TakeSeed, Answer, TakeFlr, Wedge, Operands,
         Dropped, OneOrdered, StopQueue
<1>2. StartQueue => wire' = wire
  BY <1>0, StartQueueIs
<1>3. TailOn \/ NextSlot => OnlyReads
  BY <1>0, TailOnIs, NextSlotIs
<1>4. StartGemm => wire' = wire \cup {ReadLine(m, "operands", Msg.idx)} /\ ReadLine(m, "operands", Msg.idx).op = "RdCurr"
  BY DEF StartGemm, ReadLine
<1>5. ASSUME NEW s \in Failed, EndsEarly(s) PROVE wire \subseteq wire'
  BY <1>5 DEF EndsEarly
<1>6. LastOrdered => wire \subseteq wire'
  BY DEF LastOrdered
<1> QED BY <1>1, <1>2, <1>3, <1>4, <1>5, <1>6 DEF ArriveSteps, OnlyReads

\* Once the record is taken, or the queue started, nothing the module wrote is out.
LEMMA NothingWritten ==
  ASSUME IInv, NextSlot \/ StartQueue
  PROVE  /\ \A l \in wire' : l.op # "ItoMWr"
         /\ ~RecordBack'
<1>0. TypeOK /\ ModuleInv /\ AskedInv /\ StartInv /\ QuietInv /\ IndexInv /\ StatusInv
  BY DEF IInv, ModuleInv
<1>1. Pop /\ OnlyReads
  BY <1>0, StartQueueIs, NextSlotIs DEF OnlyReads
<1>2. \A k \in 0 .. 2 : ~Runs(io', wire, m.job, k)
  <2>1. CASE StartQueue
    <3>1. \A k \in 0 .. 3 : ~Out(k)
      BY <1>0, <2>1, StartQueueIs
    <3> QED BY <1>0, <1>1, <3>1, Left DEF ModuleInv
  <2>2. CASE NextSlot
    <3>1. m.enable /\ Msg.op = "go" /\ Msg.what = "rec"
      BY <2>2 DEF NextSlot, IsRecord
    <3>2. ~Out(1) /\ ~Out(2)
      BY <1>0, <1>1, <3>1, GoIs
    <3>3. Errand(Msg, m.job, 0)
      BY <3>1 DEF Errand
    <3>4. \A k \in 0 .. 3 : Runs(io', wire, m.job, k) <=> Out(k) /\ ~Errand(Msg, m.job, k)
      BY <1>0, <1>1, Left DEF ModuleInv
    <3>5. ~Runs(io', wire, m.job, 0) /\ ~Runs(io', wire, m.job, 1) /\ ~Runs(io', wire, m.job, 2)
      BY <3>2, <3>3, <3>4
    <3>6. \A k \in 0 .. 2 : k = 0 \/ k = 1 \/ k = 2
      OBVIOUS
    <3> QED BY <3>5, <3>6
  <2> QED BY <2>1, <2>2
<1>3. \A l \in wire : l.op # "ItoMWr"
  <2> SUFFICES ASSUME NEW l \in wire, l.op = "ItoMWr" PROVE FALSE
    OBVIOUS
  <2>1. l \in Results("ItoMWr") \cup Records("ItoMWr")
    BY <1>0, LineShape DEF TypeOK
  <2>2. Errand(l, m.job, 0) \/ Errand(l, m.job, 1) \/ Errand(l, m.job, 2)
    BY <2>1, ErrandIs
  <2> QED BY <1>2, <2>2 DEF Runs
<1>4. ~RecordBack'
  <2> SUFFICES ASSUME NEW i \in DOMAIN io', IsRecord(io'[i]) PROVE FALSE
    BY DEF RecordBack
  <2>1. Errand(io'[i], m.job, 0)
    BY DEF IsRecord, Errand
  <2> QED BY <1>2, <2>1 DEF Runs
<1> QED BY <1>1, <1>3, <1>4 DEF OnlyReads

LEMMA StatusArrive == ASSUME IInv, ArriveSteps PROVE StatusInv'
<1>0. /\ TypeOK /\ ModuleInv /\ AskedInv /\ StartInv /\ QuietInv /\ IndexInv /\ StatusInv /\ OrderInv
      /\ SlotsTrue /\ LinesTrue /\ BackTrue /\ PendingPast /\ PendingAll
  BY StatusParts DEF IInv, ModuleInv
<1>1. Pop /\ Shifted /\ UNCHANGED <<script, slot, res, cmd, ended, h>>
  BY ArriveKeeps
<1>2. Live' = Live
  BY <1>1 DEF Live
<1>n. m.head \in Nat /\ h.hhead \in Nat /\ h.origin \in Nat /\ h.next \in Nat
  <2>1. m \in ModuleStates /\ h \in HostStates
    BY <1>0 DEF TypeOK
  <2> QED BY <2>1 DEF ModuleStates, HostStates
<1>3. SlotsTrue'
  BY <1>0, <1>1, <1>2 DEF SlotsTrue, Status, Truth, Right, Clean
<1>4. PendingAll'
  BY <1>0, <1>1, <1>2, ArriveStarting DEF PendingAll, Status
<1>5. CASE NextSlot \/ StartQueue
  <2>1. (\A l \in wire' : l.op # "ItoMWr") /\ ~RecordBack'
    BY <1>5, NothingWritten
  <2>2. LinesTrue' /\ BackTrue'
    BY <2>1 DEF LinesTrue, BackTrue, RecordBack
  <2>3. PendingPast'
    <3>1. CASE StartQueue
      <4>1. Starting /\ m'.head = h.origin
        <5>1. ~m.enable /\ Starts(Msg) /\ m'.head = h.origin
          BY <1>0, <3>1, StartQueueIs
        <5> QED BY <1>1, <5>1 DEF Starting, Shifted
      <4>2. h.hhead = h.origin
        <5>1. Working \/ Stopping
          BY <1>0, <1>1, <3>1, StartIs DEF StartQueue
        <5> QED BY <1>0, <4>1, <5>1 DEF StartInv, Starting
      <4>3. \A c \in Live : c > h.origin \/ c = h.origin
        BY <1>n, <4>2 DEF Live
      <4> QED BY <1>0, <1>1, <1>2, <2>1, <4>1, <4>3 DEF PendingPast, PendingAll, Status
    <3>2. CASE NextSlot
      <4>1. m.enable /\ m'.head = m.head + 1 /\ IsRecord(Msg)
        BY <1>0, <3>2, NextSlotIs
      <4>2. RecordBack
        BY <1>1, <4>1 DEF RecordBack, Shifted
      <4>3. \A c \in Live : Status(c) = Pending <=> c > m.head
        BY <1>0, <4>1, <4>2 DEF PendingPast
      <4>4. \A c \in Live : c > m.head <=> c > m.head + 1 \/ c = m.head + 1
        BY <1>n DEF Live
      <4> QED BY <1>1, <1>2, <2>1, <4>1, <4>3, <4>4 DEF PendingPast, Status
    <3> QED BY <1>5, <3>1, <3>2
  <2> QED BY <1>3, <1>4, <2>2, <2>3, StatusPartsNext
<1>6. CASE ~(NextSlot \/ StartQueue)
  <2>1. m'.enable => m.enable /\ m'.head = m.head
    BY <1>6, ArriveMoves
  <2>2. \A i \in DOMAIN io' : i + 1 \in DOMAIN io /\ io'[i] = io[i + 1]
    BY <1>1 DEF Shifted
  <2>3. BackTrue'
    BY <1>0, <1>1, <2>1, <2>2 DEF BackTrue
  <2>4. m'.enable => (RecordBack' <=> RecordBack)
    <3> SUFFICES ASSUME m'.enable PROVE RecordBack' <=> RecordBack
      OBVIOUS
    <3>1. ~IsRecord(Msg)
      <4> SUFFICES ASSUME IsRecord(Msg) PROVE FALSE
        OBVIOUS
      <4>1. Dropped
        BY <1>6, RecordTaken
      <4> QED BY <1>0, <4>1, DroppedIs
    <3>2. \A i \in DOMAIN io : i # 1 => i - 1 \in DOMAIN io' /\ io'[i - 1] = io[i]
      BY <1>1 DEF Shifted
    <3>3. RecordBack => RecordBack'
      <4> SUFFICES ASSUME NEW i \in DOMAIN io, IsRecord(io[i]) PROVE RecordBack'
        BY DEF RecordBack
      <4>1. i # 1
        BY <1>1, <3>1 DEF Shifted
      <4> QED BY <3>2, <4>1 DEF RecordBack
    <3> QED BY <2>2, <3>3 DEF RecordBack
  <2>5. PendingPast'
    BY <1>0, <1>1, <1>2, <2>1, <2>4 DEF PendingPast, Status
  <2>6. LinesTrue'
    <3> SUFFICES ASSUME NEW l \in wire', l.op = "ItoMWr" PROVE LineTrue(l)'
      BY DEF LinesTrue
    <3>1. CASE l \in wire
      <4>1. LineTrue(l)
        BY <1>0, <3>1 DEF LinesTrue
      <4> QED BY <1>1, <1>2, <2>1, <4>1 DEF LineTrue, Status, Truth, Right, Clean
    <3>2. ASSUME NEW x \in Records("ItoMWr"), l = x, x.idx = m.head, x.cmd = m.head, x.at = SlotOf(m.head),
                 Truth(m.head, x.status, x.index), m.head \in Live, Status(m.head) = Pending, m'.head = m.head
          PROVE  LineTrue(l)'
      <4>1. l.what = "rec"
        BY <3>2 DEF Records
      <4>2. Truth(l.cmd, l.status, l.index)
        BY <3>2
      <4> QED BY <1>1, <1>2, <3>2, <4>1, <4>2 DEF LineTrue, Status, Truth, Right, Clean
    <3>3. CASE l \notin wire /\ \E s \in Failed : EndsEarly(s)
      BY <3>2, <3>3, EndsEarlyIs
    <3>4. CASE l \notin wire /\ LastOrdered
      BY <3>2, <3>4, LastOrderedIs
    <3> QED BY <3>1, <3>3, <3>4, WireGrows
  <2> QED BY <1>3, <1>4, <2>3, <2>5, <2>6, StatusPartsNext
<1> QED BY <1>5, <1>6

\* A line of results is sent, of the command at PTQ_HEAD.
LEMMA ShotIs ==
  ASSUME IInv, Shot
  PROVE  \E x \in Results("ItoMWr") :
           /\ wire' = wire \cup {x} /\ x.idx = m.head /\ x.cmd = m.head /\ x.line = g.sent + 1
           /\ x.val = <<g.seed, g.index>> /\ x.line \in DOMAIN res[m.head] /\ x.line \in 1 .. 2
           /\ m.head \in Live /\ m.head \in Nat /\ m.enable /\ Shooting /\ ~GDone /\ ~Out(0)
           /\ m'.enable = m.enable /\ m'.head = m.head /\ m'.job = m.job /\ m'.gemm_ct = m.gemm_ct
           /\ g'.pc = g.pc /\ g'.sent = g.sent + 1 /\ g'.ordered = g.ordered /\ g'.cmd = g.cmd
           /\ g'.seed = g.seed /\ g'.index = g.index /\ g.sent < OutLines(cmd[m.head].kind)
           /\ g.cmd = m.head /\ g.sent \in Nat /\ g.ordered \in Nat
           /\ UNCHANGED <<script, io, up, slot, res, cmd, ended, h>>
<1>0. TypeOK /\ ModuleInv /\ IndexInv /\ ResultInv /\ CmdKinds
  BY CmdParts DEF IInv, ModuleInv
<1>1. Shooting /\ ~GDone
  BY <1>0, ShotStage DEF ModuleInv
<1>2. m \in ModuleStates /\ g \in Works /\ h \in HostStates
  BY <1>0 DEF TypeOK
<1>3. /\ g.sent < OutLines(cmd[g.cmd].kind) /\ g' = [g EXCEPT !.sent = @ + 1] /\ m' = [m EXCEPT !.inflight = @ + 1]
      /\ wire' = wire \cup {ResultLine(m, g, g.sent + 1)}
      /\ UNCHANGED <<script, io, up, slot, res, cmd, ended, h>>
  BY DEF Shot
<1>4. /\ m'.enable = m.enable /\ m'.head = m.head /\ m'.job = m.job /\ m'.gemm_ct = m.gemm_ct
      /\ m.head \in Nat /\ m.gen \in Nat
  BY <1>2, <1>3 DEF ModuleStates
<1>5. /\ g'.pc = g.pc /\ g'.sent = g.sent + 1 /\ g'.ordered = g.ordered /\ g'.cmd = g.cmd
      /\ g'.seed = g.seed /\ g'.index = g.index /\ g.sent \in Nat /\ g.ordered \in Nat
      /\ g.seed \in Int /\ g.index \in Int /\ g.job \in Nat
  BY <1>2, <1>3 DEF Works
<1>6. g.idx = m.head /\ g.cmd = m.head /\ m.enable /\ ~Out(0)
  BY <1>1 DEF Shooting, OnHead
<1>7. m.head \in Live
  BY <1>0, <1>1 DEF ResultInv
<1>8. m.head \in 0 .. h.next - 1
  <2>1. h.next \in Nat /\ h.hhead \in Nat
    BY <1>2 DEF HostStates
  <2> QED BY <1>4, <1>7, <2>1 DEF Live
<1>9. DOMAIN res[m.head] = 1 .. OutLines(cmd[m.head].kind)
  BY <1>0, <1>8 DEF CmdKinds
<1>10. g.sent + 1 \in 1 .. 2 /\ g.sent + 1 \in DOMAIN res[m.head]
  <2> DEFINE n == OutLines(cmd[m.head].kind)
  <2>1. n \in 1 .. 2 /\ g.sent < n
    BY <1>3, <1>6, LinesOf
  <2> HIDE DEF n
  <2>2. g.sent + 1 \in 1 .. n /\ g.sent + 1 \in 1 .. 2
    BY <1>5, <2>1
  <2> QED BY <1>9, <2>2 DEF n
<1> DEFINE x == ResultLine(m, g, g.sent + 1)
<1>11. x \in Results("ItoMWr")
  BY <1>4, <1>5, <1>6, <1>10 DEF ResultLine, Results
<1>12. x.idx = m.head /\ x.cmd = m.head /\ x.line = g.sent + 1 /\ x.val = <<g.seed, g.index>>
  BY <1>6 DEF ResultLine
<1> HIDE DEF x
<1>13. wire' = wire \cup {x}
  BY <1>3 DEF x
<1> QED BY <1>1, <1>3, <1>4, <1>5, <1>6, <1>7, <1>10, <1>11, <1>12, <1>13

LEMMA StatusShot == ASSUME IInv, Shot PROVE StatusInv'
<1>0. TypeOK /\ SlotsTrue /\ LinesTrue /\ BackTrue /\ PendingPast /\ PendingAll
  BY StatusParts DEF IInv
<1>1. PICK x \in Results("ItoMWr") :
           /\ wire' = wire \cup {x} /\ x.idx = m.head /\ x.cmd = m.head
           /\ x.line \in DOMAIN res[m.head]
           /\ m.head \in Live /\ m.head \in Nat /\ m.enable /\ ~Out(0)
           /\ m'.enable = m.enable /\ m'.head = m.head
           /\ UNCHANGED <<script, io, up, slot, res, cmd, ended, h>>
  BY ShotIs
<1>2. Live' = Live
  BY <1>1 DEF Live
<1>3. SlotsTrue' /\ BackTrue' /\ PendingAll'
  BY <1>0, <1>1, <1>2 DEF SlotsTrue, BackTrue, PendingAll, Status, Truth, Right, Clean, Starting
<1>4. ~RecordBack
  BY <1>1, RecordOut DEF RecordBack
<1>5. PendingPast'
  BY <1>0, <1>1, <1>2 DEF PendingPast, RecordBack, Status
<1>6. Status(m.head) = Pending
  BY <1>0, <1>1, <1>4 DEF PendingPast
<1>7. LinesTrue'
  <2> SUFFICES ASSUME NEW l \in wire', l.op = "ItoMWr" PROVE LineTrue(l)'
    BY DEF LinesTrue
  <2>1. CASE l \in wire
    <3>1. LineTrue(l)
      BY <1>0, <2>1 DEF LinesTrue
    <3> QED BY <1>1, <1>2, <3>1 DEF LineTrue, Status, Truth, Right, Clean
  <2>2. CASE l = x
    <3>1. l.what = "res"
      BY <2>2 DEF Results
    <3> QED BY <1>1, <1>2, <1>6, <2>2, <3>1 DEF LineTrue, Status
  <2> QED BY <1>1, <2>1, <2>2
<1> QED BY <1>3, <1>5, <1>7, StatusPartsNext

\* Whether a record is on its way back, when a line has reached the host.
LEMMA RecordNow ==
  ASSUME TypeOK, NEW l \in wire, Land(l) \/ AtHost(l)
  PROVE  /\ RecordBack' <=> RecordBack \/ IsRecord(At(1))
         /\ Starting' <=> Starting
<1>1. /\ At(1).op \in {"go", "back"} /\ m' = m
      /\ \A i \in DOMAIN io : i \in DOMAIN io' /\ io'[i] = io[i]
      /\ \A i \in DOMAIN io' : (i \in DOMAIN io /\ io'[i] = io[i]) \/ (i = Len(io) + 1 /\ io'[i] = At(1))
      /\ Len(io) + 1 \in DOMAIN io'
  BY LineReaches
<1>2. io'[Len(io) + 1] = At(1)
  BY DEF At
<1>3. RecordBack' <=> RecordBack \/ IsRecord(At(1))
  BY <1>1, <1>2 DEF RecordBack
<1>4. ~Starts(At(1))
  BY <1>1 DEF Starts, IsWrite
<1>5. Starting' <=> Starting
  BY <1>1, <1>4 DEF Starting
<1> QED BY <1>3, <1>5

LEMMA StatusLand == ASSUME IInv, NEW l \in wire, Land(l) \/ AtHost(l) PROVE StatusInv'
<1>0. TypeOK /\ IndexInv /\ SlotsTrue /\ LinesTrue /\ BackTrue /\ PendingPast /\ PendingAll /\ CmdKinds
  BY StatusParts, CmdParts DEF IInv
<1>1. /\ m' = m /\ h' = h /\ cmd' = cmd /\ wire' = wire \ {l}
      /\ \A i \in DOMAIN io' : (i \in DOMAIN io /\ io'[i] = io[i]) \/ (i = Len(io) + 1 /\ io'[i] = At(1))
  BY <1>0, LineReaches
<1>2. Live' = Live
  BY <1>1 DEF Live
<1>3. (RecordBack' <=> RecordBack \/ IsRecord(At(1))) /\ (Starting' <=> Starting)
  BY <1>0, RecordNow
<1>4. CASE AtHost(l)
  <2>1. slot' = slot /\ res' = res /\ ~IsRecord(At(1))
    BY <1>4, ReadLands
  <2>2. SlotsTrue' /\ PendingPast' /\ PendingAll'
    BY <1>0, <1>1, <1>2, <1>3, <2>1 DEF SlotsTrue, PendingPast, PendingAll, Status, Truth, Right, Clean
  <2>3. BackTrue'
    BY <1>0, <1>1, <2>1 DEF BackTrue
  <2>4. LinesTrue'
    BY <1>0, <1>1, <1>2, <2>1 DEF LinesTrue, LineTrue, Status, Truth, Right, Clean
  <2> QED BY <2>2, <2>3, <2>4, StatusPartsNext
<1>5. CASE Land(l) /\ l.what = "rec"
  <2>1. /\ l.op = "ItoMWr" /\ l.cmd \in Live /\ l.cmd = l.idx /\ l.cmd \in Nat
        /\ slot'[SlotOf(l.cmd)] = [cmd |-> l.cmd, status |-> l.status, index |-> l.index]
        /\ \A c \in Live : c # l.cmd => slot'[SlotOf(c)] = slot[SlotOf(c)]
        /\ res' = res /\ Truth(l.cmd, l.status, l.index) /\ (m.enable => l.cmd = m.head)
        /\ IsRecord(At(1)) /\ At(1).idx = l.idx /\ At(1).status = l.status
        /\ \A i \in DOMAIN io : ~IsRecord(io[i])
        /\ \A n \in wire : n.op = "ItoMWr" => n = l
    BY <1>5, RecordLands
  <2>2. /\ Status(l.cmd)' = l.status /\ slot'[SlotOf(l.cmd)].index = l.index
        /\ \A c \in Live : c # l.cmd => Status(c)' = Status(c)
    BY <1>1, <2>1 DEF Status
  <2>3. l.status = cmd[l.cmd].due /\ l.status # Pending
    <3>1. l.cmd \in 0 .. h.next - 1
      <4>1. h \in HostStates
        BY <1>0 DEF TypeOK
      <4>2. h.next \in Nat /\ h.hhead \in Nat
        BY <4>1 DEF HostStates
      <4> QED BY <2>1, <4>2 DEF Live
    <3> QED BY <1>0, <2>1, <3>1 DEF Truth, CmdKinds, Failed, Pending
  <2>4. SlotsTrue'
    <3> SUFFICES ASSUME NEW c \in Live, Status(c)' # Pending PROVE Truth(c, Status(c), slot[SlotOf(c)].index)'
      BY <1>2 DEF SlotsTrue
    <3>1. CASE c = l.cmd
      BY <1>1, <2>1, <2>2, <3>1 DEF Truth, Right, Clean
    <3>2. CASE c # l.cmd
      BY <1>0, <1>1, <2>1, <2>2, <3>2 DEF Truth, Right, Clean, SlotsTrue
    <3> QED BY <3>1, <3>2
  <2>5. LinesTrue'
    BY <1>1, <2>1 DEF LinesTrue
  <2>6. BackTrue'
    BY <1>1, <2>1, <2>3 DEF BackTrue
  <2>7. RecordBack' /\ ~RecordBack
    BY <1>3, <2>1 DEF RecordBack
  <2>8. PendingPast'
    <3> SUFFICES ASSUME m.enable, NEW c \in Live
                 PROVE  Status(c)' = Pending <=> c > m.head \/ (c = m.head /\ ~RecordBack')
      BY <1>1, <1>2 DEF PendingPast
    <3>1. CASE c = l.cmd
      <4>1. c = m.head /\ ~(c > m.head)
        BY <2>1, <3>1
      <4> QED BY <2>2, <2>3, <2>7, <3>1, <4>1
    <3>2. CASE c # l.cmd
      BY <1>0, <2>1, <2>2, <3>2 DEF PendingPast
    <3> QED BY <3>1, <3>2
  <2>9. PendingAll'
    BY <1>3, <2>1, WritesOut DEF PendingAll
  <2> QED BY <2>4, <2>5, <2>6, <2>8, <2>9, StatusPartsNext
<1>6. CASE Land(l) /\ l.what = "res"
  <2>1. /\ l.op = "ItoMWr" /\ slot' = slot /\ DOMAIN res'[l.cmd] = DOMAIN res[l.cmd]
        /\ \A c \in Cmds : c # l.cmd => res'[c] = res[c]
        /\ ~IsRecord(At(1)) /\ \A i \in DOMAIN io : ~IsRecord(io[i])
        /\ \A n \in wire : n.op = "ItoMWr" => n.what = "res"
        /\ Status(l.cmd) = Pending
    BY <1>6, ResultLands
  <2>2. \A c \in Live : c \in Cmds
    BY <1>0, LiveSlots
  <2>3. SlotsTrue'
    <3> SUFFICES ASSUME NEW c \in Live, Status(c) # Pending PROVE Truth(c, Status(c), slot[SlotOf(c)].index)'
      BY <1>2, <2>1 DEF SlotsTrue, Status
    <3>1. c # l.cmd
      BY <2>1
    <3>2. res'[c] = res[c]
      BY <2>1, <2>2, <3>1
    <3>3. Truth(c, Status(c), slot[SlotOf(c)].index)
      BY <1>0 DEF SlotsTrue
    <3> QED BY <1>1, <2>1, <3>2, <3>3 DEF Truth, Right, Clean, Status
  <2>4. LinesTrue'
    <3> SUFFICES ASSUME NEW n \in wire, n.op = "ItoMWr" PROVE LineTrue(n)'
      BY <1>1 DEF LinesTrue
    <3>1. LineTrue(n) /\ n.what = "res"
      BY <1>0, <2>1 DEF LinesTrue
    <3>2. DOMAIN res'[n.cmd] = DOMAIN res[n.cmd]
      BY <2>1, <2>2, <3>1 DEF LineTrue
    <3> QED BY <1>1, <1>2, <2>1, <3>1, <3>2 DEF LineTrue, Status
  <2>5. BackTrue'
    BY <1>1, <2>1 DEF BackTrue
  <2>6. PendingPast' /\ PendingAll'
    BY <1>0, <1>1, <1>2, <1>3, <2>1 DEF PendingPast, PendingAll, Status
  <2> QED BY <2>3, <2>4, <2>5, <2>6, StatusPartsNext
<1>7. Land(l) => l.what \in {"rec", "res"}
  BY WritesOut DEF Land
<1> QED BY <1>4, <1>5, <1>6, <1>7

\* Numbers the following lemmas reason about.
LEMMA Numbers ==
  ASSUME TypeOK, IndexInv
  PROVE  /\ m.head \in Nat /\ m.tail \in Nat /\ h.next \in Nat /\ h.hhead \in Nat /\ h.origin \in Nat /\ h.rung \in Nat
         /\ h.origin <= h.hhead /\ h.hhead <= h.rung /\ h.rung <= h.next /\ m.head <= h.rung /\ m.tail <= h.rung
         /\ m.enable => h.origin <= m.head /\ m.head <= m.tail
         /\ NumCmds \in Nat /\ h.next <= NumCmds /\ Live \subseteq 0 .. h.next - 1
         /\ 0 .. h.next - 1 \subseteq Cmds
<1>1. m \in ModuleStates /\ h \in HostStates
  BY DEF TypeOK
<1>2. m.head \in Nat /\ m.tail \in Nat /\ h.next \in Nat /\ h.hhead \in Nat /\ h.origin \in Nat /\ h.rung \in Nat
  BY <1>1 DEF ModuleStates, HostStates
<1>3. /\ h.origin <= h.hhead /\ h.hhead <= h.rung /\ h.rung <= h.next /\ m.head <= h.rung /\ m.tail <= h.rung
      /\ m.enable => h.origin <= m.head /\ m.head <= m.tail
      /\ NumCmds \in Nat /\ h.next <= NumCmds
  BY NumCmdsNat DEF IndexInv
<1>4. h.hhead .. h.next - 1 \subseteq 0 .. h.next - 1 /\ 0 .. h.next - 1 \subseteq 0 .. NumCmds - 1
  BY <1>2, <1>3
<1> QED BY <1>2, <1>3, <1>4 DEF Live, Cmds

LEMMA StatusHost == ASSUME IInv, HostNext PROVE StatusInv'
<1>0. TypeOK /\ ModuleInv /\ IndexInv /\ SlotsTrue /\ LinesTrue /\ BackTrue /\ PendingPast /\ PendingAll
  BY StatusParts DEF IInv, ModuleInv
<1>1. /\ RecordBack' <=> RecordBack
      /\ \A i \in DOMAIN io' : IsRecord(io'[i]) => i \in DOMAIN io /\ io'[i] = io[i]
      /\ m' = m /\ wire' = wire
  BY <1>0, HostRecords
<1>2. CASE Plain \/ SetSeed
  <2>1. slot' = slot /\ res' = res /\ cmd' = cmd /\ h'.next = h.next /\ h'.hhead = h.hhead
    BY <1>0, <1>2, PlainIs, PlainHostIs DEF SameCommands, SameIdx
  <2>2. Live' = Live
    BY <2>1 DEF Live
  <2>3. Starting' => Starting
    <3>1. ~HeadBack /\ ~AfterReset
      BY <1>0, <1>2, RestartIs, PlainIs, PlainHostIs DEF Plain, HeadBack, AfterReset, StatusBack, Ring, IrqOff, Drain, Drained, TakeMsi,
         Awaited, DrainTimeout, Teardown, SetSeed, SameIdx, Disable
    <3> QED BY SMTT(30), <3>1, HostStarting
  <2>4. SlotsTrue' /\ BackTrue' /\ PendingPast' /\ PendingAll'
    BY <1>0, <1>1, <2>1, <2>2, <2>3 DEF SlotsTrue, BackTrue, PendingPast, PendingAll, Status, Truth, Right, Clean
  <2>5. LinesTrue'
    BY <1>0, <1>1, <2>1, <2>2 DEF LinesTrue, LineTrue, Status, Truth, Right, Clean
  <2> QED BY <2>4, <2>5, StatusPartsNext
<1>3. CASE Publish \/ PublishIrq
  <2>1. Stored
    BY <1>0, <1>3, StoredIs
  <2>2. /\ \A c \in Live : slot'[SlotOf(c)] = slot[SlotOf(c)]
        /\ \A c \in 0 .. h.next - 1 : cmd'[c] = cmd[c] /\ res'[c] = res[c]
        /\ Live' = Live \cup {h.next} /\ Live \subseteq 0 .. h.next - 1
    BY <1>0, <2>1, StoredKeeps
  <2>n. PICK next : next = h.next
    OBVIOUS
  <2>3. (\A c \in Live : Status(c)' = Status(c)) /\ Status(next)' = Pending /\ Working
    BY <2>1, <2>2, <2>n DEF Status, Stored
  <2>4. SlotsTrue'
    <3> SUFFICES ASSUME NEW c \in Live, Status(c) # Pending PROVE Truth(c, Status(c), slot[SlotOf(c)].index)'
      BY <2>2, <2>3, <2>n DEF SlotsTrue
    <3>1. Truth(c, Status(c), slot[SlotOf(c)].index)
      BY <1>0 DEF SlotsTrue
    <3>2. cmd'[c] = cmd[c] /\ res'[c] = res[c] /\ Status(c)' = Status(c) /\ slot'[SlotOf(c)] = slot[SlotOf(c)]
      BY <2>2, <2>3
    <3> QED BY <3>1, <3>2 DEF Truth, Right, Clean
  <2>5. LinesTrue'
    <3> SUFFICES ASSUME NEW l \in wire, l.op = "ItoMWr" PROVE LineTrue(l)'
      BY <1>1 DEF LinesTrue
    <3>1. LineTrue(l) /\ l.cmd \in Live
      BY <1>0 DEF LinesTrue, LineTrue
    <3>2. cmd'[l.cmd] = cmd[l.cmd] /\ res'[l.cmd] = res[l.cmd] /\ Status(l.cmd)' = Status(l.cmd) /\ l.cmd \in Live'
      BY <2>2, <2>3, <3>1
    <3> QED BY <1>1, <3>1, <3>2 DEF LineTrue, Truth, Right, Clean
  <2>6. RecordBack /\ m.enable => m.head < h.next /\ cmd'[m.head] = cmd[m.head]
    <3> SUFFICES ASSUME RecordBack, m.enable PROVE m.head < h.next /\ cmd'[m.head] = cmd[m.head]
      OBVIOUS
    <3>1. m.head < m.tail
      BY <1>0, RecordOut, RecordMeans DEF RecordBack
    <3>2. m.head < h.next /\ m.head \in 0 .. h.next - 1
      BY <1>0, <3>1, Numbers
    <3> QED BY <2>2, <3>2
  <2>7. BackTrue'
    BY <1>0, <1>1, <2>6 DEF BackTrue, RecordBack
  <2>8. PendingPast'
    <3> SUFFICES ASSUME m.enable, NEW c \in Live \cup {h.next}
                 PROVE  Status(c)' = Pending <=> c > m.head \/ (c = m.head /\ ~RecordBack)
      BY <1>1, <2>2 DEF PendingPast
    <3>1. CASE c \in Live
      BY <1>0, <2>3, <3>1 DEF PendingPast
    <3>2. CASE c = h.next
      <4>1. c > m.head \/ c = m.head
        BY <1>0, <3>2, Numbers
      <4>2. c = m.head => ~RecordBack
        BY <1>0, <2>6, <3>2, Numbers
      <4> QED BY <2>3, <2>n, <3>2, <4>1, <4>2
    <3> QED BY <3>1, <3>2
  <2>9. PendingAll'
    <3>1. Starting' => Starting
      BY <1>1, <2>3, WorkingStarts DEF Starting
    <3> QED BY <1>0, <2>2, <2>3, <2>n, <3>1 DEF PendingAll
  <2> QED BY <2>4, <2>5, <2>7, <2>8, <2>9, StatusPartsNext
<1>4. CASE TryEnd
  <2>1. /\ slot' = slot /\ res' = res /\ cmd' = cmd /\ h'.next = h.next /\ h'.hhead = h.hhead + 1 /\ io' = io
        /\ Status(h.hhead) # Pending
    BY <1>0, <1>4, TryEndIs
  <2>2. Live' = Live \ {h.hhead}
    <3>1. Live' = (h.hhead + 1) .. (h.next - 1)
      BY <2>1 DEF Live
    <3>2. (h.hhead + 1) .. (h.next - 1) = (h.hhead .. h.next - 1) \ {h.hhead}
      BY <1>0, Numbers
    <3> QED BY <3>1, <3>2 DEF Live
  <2>3. SlotsTrue' /\ BackTrue' /\ PendingPast' /\ PendingAll'
    BY <1>0, <1>1, <2>1, <2>2 DEF SlotsTrue, BackTrue, PendingPast, PendingAll, Status, Truth, Right, Clean, Starting
  <2>4. LinesTrue'
    BY <1>0, <1>1, <2>1, <2>2 DEF LinesTrue, LineTrue, Status, Truth, Right, Clean
  <2> QED BY <2>3, <2>4, StatusPartsNext
<1>5. CASE HeadBack \/ AfterReset
  <2>1. Live' = {} /\ ~m.enable /\ \A l \in wire : l.op # "ItoMWr"
    BY <1>5, RestartMeans
  <2> QED BY <1>1, <2>1, StatusPartsNext DEF SlotsTrue, LinesTrue, BackTrue, PendingPast, PendingAll
<1> QED BY <1>2, <1>3, <1>4, <1>5 DEF HostNext, Plain

LEMMA StatusStep == ASSUME IInv, [Next]_vars PROVE StatusInv'
<1>1. CASE UNCHANGED vars
  <2>1. UNCHANGED <<m, g, io, wire, slot, res, cmd, h>>
    BY <1>1 DEF vars
  <2>2. SlotsTrue /\ LinesTrue /\ BackTrue /\ PendingPast /\ PendingAll
    BY StatusParts DEF IInv
  <2> QED BY ZenonT(60), <2>1, <2>2, StatusPartsNext DEF SlotsTrue, LinesTrue, LineTrue, BackTrue, PendingPast, PendingAll, RecordBack,
         Status, Truth, Right, Clean, Starting, Live
<1> QED BY <1>1, Steps, StatusArrive, StatusShot, StatusLand, StatusHost

-----------------------------------------------------------------------------
(* Results. *)

\* The parts of ResultInv.
CleanPast == m.enable => \A c \in Live : c > m.head => Clean(c)
CleanHead ==
  m.enable /\ ~Out(0) /\ (g.pc # "shots" \/ GDone) /\ m.head \in Live => Clean(m.head)
CleanAll  == Starting => \A c \in Live : Clean(c)
Running ==
  ~GDone => /\ m.head \in Live /\ g.seed = cmd[m.head].seed /\ g.index \in Nat
            /\ cmd[m.head].due = "done"
            /\ \A l \in wire : l.op = "ItoMWr" => l.val = <<g.seed, g.index>>
            /\ \A i \in DOMAIN res[m.head] :
                 IF i <= g.sent /\ ~\E l \in wire : Errand(l, m.job, i)
                 THEN res[m.head][i] = <<g.seed, g.index>> ELSE res[m.head][i] = Sentinel

LEMMA ResultParts == ResultInv <=> CleanPast /\ CleanHead /\ CleanAll /\ Running
  BY DEF ResultInv, CleanPast, CleanHead, CleanAll, Running

LEMMA ResultPartsNext == ResultInv' <=> CleanPast' /\ CleanHead' /\ CleanAll' /\ Running'
  BY DEF ResultInv, CleanPast, CleanHead, CleanAll, Running

\* Which of the lines of results are on the wire, whatever the job.
LEMMA OnWire ==
  ASSUME TypeOK, wire' \subseteq Lines, NEW i \in {1, 2},
         \A l \in wire \cup wire' : l.op = "ItoMWr" => (l \in wire <=> l \in wire')
  PROVE  (\E l \in wire' : Errand(l, m'.job, i)) <=> (\E l \in wire : Errand(l, m.job, i))
<1>1. wire \subseteq Lines
  BY DEF TypeOK
<1>2. \A l \in Lines : \A j : Errand(l, j, i) => l.op = "ItoMWr"
  BY LineShape, ErrandIs DEF Reads
<1>3. \A l \in Lines : \A j, k : l.op = "ItoMWr" /\ Errand(l, j, i) => Errand(l, k, i)
  BY DEF Errand
<1> QED BY <1>1, <1>2, <1>3

\* A record that is out stays out, until the module has taken it.
LEMMA RecordStays ==
  ASSUME IInv, ArriveSteps, m'.enable, ~NextSlot, Out(0)
  PROVE  Out(0)'
<1>0. TypeOK /\ ModuleInv
  BY DEF IInv, ModuleInv
<1>1. wire \subseteq wire' /\ Shifted
  BY WireGrows, ArriveKeeps
<1>2. CASE \E l \in wire : Errand(l, m.job, 0)
  <2>1. PICK l \in wire : Errand(l, m.job, 0)
    BY <1>2
  <2>2. Errand(l, m'.job, 0)
    BY <2>1 DEF Errand
  <2> QED BY <1>1, <2>1, <2>2 DEF Out, Runs
<1>3. CASE \E i \in DOMAIN io : Errand(io[i], m.job, 0)
  <2>1. PICK i \in DOMAIN io : Errand(io[i], m.job, 0)
    BY <1>3
  <2>2. io[i] \in Messages
    BY <1>0 DEF TypeOK
  <2>3. IsRecord(io[i])
    BY <2>1, <2>2, MessageShape, ErrandIs DEF IsRecord, Results, Records, Errand
  <2>4. i # 1
    <3> SUFFICES ASSUME i = 1 PROVE FALSE
      OBVIOUS
    <3>1. IsRecord(Msg)
      BY <1>1, <2>3 DEF Shifted
    <3>2. Dropped
      BY <3>1, RecordTaken
    <3> QED BY <1>0, <3>2, DroppedIs
  <2>5. i - 1 \in DOMAIN io' /\ io'[i - 1] = io[i]
    BY <1>1, <2>4 DEF Shifted
  <2>6. Errand(io'[i - 1], m'.job, 0)
    BY <2>1, <2>5 DEF Errand
  <2> QED BY <2>5, <2>6 DEF Out, Runs
<1> QED BY <1>2, <1>3 DEF Out, Runs

\* A GEMM is started: with the host's seed, on a buffer that is clean.
LEMMA StartGemmIs ==
  ASSUME IInv, StartGemm
  PROVE  /\ m.enable /\ m'.enable /\ m'.head = m.head /\ m.head \in Live /\ GDone /\ ~GDone' /\ Clean(m.head)
         /\ g'.pc = "operands" /\ g'.sent = 0 /\ g'.seed = cmd[m.head].seed /\ g'.index = m.gemm_ct
         /\ m.gemm_ct \in Nat /\ m'.gemm_ct = m.gemm_ct + 1 /\ cmd[m.head].due = "done"
         /\ \A l \in wire' : l.op # "ItoMWr"
         /\ \A i \in DOMAIN io : ~IsWrite(io[i], "SEED")
<1>0. /\ TypeOK /\ ModuleInv /\ IndexInv /\ QuietInv /\ SeedAll /\ SeedLast /\ CmdKinds /\ CmdSlots /\ CmdDues /\ CmdPrev
      /\ CleanHead
  BY CmdParts, SeedParts, ResultParts DEF IInv, ModuleInv
<1>1. /\ IsDescriptor /\ Usable(Msg.cmd) /\ cmd[Msg.cmd].kind # "badbank" /\ ~MustNotRun(Msg.cmd)
      /\ m' = [m EXCEPT !.gemm_ct = @ + 1]
      /\ g' = [Idle EXCEPT !.pc = "operands", !.idx = Msg.idx, !.cmd = Msg.cmd, !.job = m.job,
                           !.seed = m.seed, !.index = m.gemm_ct]
      /\ wire' = wire \cup {ReadLine(m, "operands", Msg.idx)}
  BY DEF StartGemm
<1>2. /\ m.enable /\ m.inflight = 0 /\ Out(3) /\ Msg.cmd = m.head /\ GDone /\ Pop
  BY <1>0, <1>1, BackIs DEF IsDescriptor
<1>3. m.head \in Live /\ m.head < m.tail
  BY <1>0, <1>2, ReadsLive
<1>4. /\ m'.enable /\ m'.head = m.head /\ m'.gemm_ct = m.gemm_ct + 1 /\ m.gemm_ct \in Nat
      /\ m.head \in Nat /\ m.tail \in Nat
  <2>1. m \in ModuleStates
    BY <1>0 DEF TypeOK
  <2> QED BY <1>1, <1>2, <2>1 DEF ModuleStates
<1>5. g'.pc = "operands" /\ g'.sent = 0 /\ g'.seed = m.seed /\ g'.index = m.gemm_ct
  BY <1>1 DEF Idle
<1>6. ~GDone'
  BY <1>5 DEF GDone
<1>7. ~Out(0)
  BY <1>0, <1>2 DEF ModuleInv, ErrandInv, One
<1>8. Clean(m.head)
  BY <1>0, <1>2, <1>3, <1>7 DEF CleanHead
<1>9. \A l \in wire' : l.op # "ItoMWr"
  <2>1. \A l \in wire : l.op # "ItoMWr"
    BY <1>2, WritesOut
  <2>2. ReadLine(m, "operands", Msg.idx).op = "RdCurr"
    BY DEF ReadLine
  <2> QED BY <1>1, <2>1, <2>2
<1>10. \A i \in DOMAIN io : ~IsWrite(io[i], "SEED")
  <2> SUFFICES ASSUME NEW i \in DOMAIN io, IsWrite(io[i], "SEED") PROVE FALSE
    OBVIOUS
  <2> DEFINE a == One(\E j \in DOMAIN io : IsRecord(io[j]))
  <2>1. m.tail <= m.head + a
    BY <1>0, <1>2 DEF SeedAll, SeedFirst
  <2>2. ~\E j \in DOMAIN io : IsRecord(io[j])
    BY <1>7, RecordOut
  <2>3. a = 0
    BY <2>2 DEF One
  <2> HIDE DEF a
  <2> QED BY <1>3, <1>4, <2>1, <2>3
<1>11. h.pc # "flr"
  <2> SUFFICES ASSUME h.pc = "flr" PROVE FALSE
    OBVIOUS
  <2>1. m.wedged \/ m = ResetState(m.gen)
    BY <1>0 DEF QuietInv
  <2>2. ~m.wedged
    BY <1>0, <1>1, BackIs DEF IsDescriptor
  <2> QED BY <1>2, <2>1, <2>2 DEF ResetState
<1>12. m.seed = h.seed
  BY <1>0, <1>10, <1>11 DEF SeedLast
<1>13. cmd[m.head].seed = h.seed
  BY <1>0, <1>3 DEF CmdSlots
<1>14. m.head \in 0 .. h.next - 1 /\ m.head \in h.origin .. h.next - 1
  <2>1. /\ h.next \in Nat /\ h.hhead \in Nat /\ h.origin \in Nat /\ h.origin <= h.hhead
        /\ m.head \in h.hhead .. h.next - 1
    BY <1>0, <1>3, Numbers DEF Live
  <2> QED BY <2>1
<1>15. cmd[m.head].due = Expect(cmd[m.head].kind, m.prev)
  BY <1>0, <1>2, <1>14 DEF CmdDues, CmdPrev
<1>16. cmd[m.head].due = "done"
  <2>1. cmd[m.head].kind # "unusable" /\ cmd[m.head].kind # "badbank"
        /\ ~(cmd[m.head].kind = "after" /\ m.prev \notin {"none", "done"})
    BY <1>1, <1>2 DEF Usable, MustNotRun
  <2> QED BY <1>15, <2>1 DEF Expect
<1> QED BY <1>2, <1>3, <1>4, <1>5, <1>6, <1>8, <1>9, <1>10, <1>12, <1>13, <1>16

\* The arrivals that change the command the module is on.
LEMMA WorkKept ==
  ASSUME IInv, ArriveSteps
  PROVE  g' = g \/ StopQueue \/ StartGemm \/ Operands \/ OneOrdered \/ LastOrdered
<1>0. TypeOK /\ ModuleInv /\ AskedInv /\ StartInv /\ QuietInv /\ IndexInv /\ StatusInv
  BY DEF IInv, ModuleInv
<1>1. Ignored \/ SameQueue \/ TailOff \/ TailBad \/ SetRing \/ SetIrqAt \/ TakeSeed \/ Answer \/ TakeFlr
        \/ Wedge \/ Dropped => g' = g
  BY DEF Ignored, SameQueue, TailOff, TailBad, SetRing, SetIrqAt, TakeSeed, Answer, TakeFlr, Wedge, Dropped
<1>2. TailOn \/ NextSlot \/ StartQueue => g' = g
  BY DEF TailOn, NextSlot, StartQueue
<1>3. ASSUME NEW s \in Failed, EndsEarly(s) PROVE g' = g
  BY <1>3 DEF EndsEarly
<1> QED BY <1>1, <1>2, <1>3 DEF ArriveSteps

LEMMA OperandsIs ==
  ASSUME IInv, Operands
  PROVE  /\ g.pc = "operands" /\ g'.pc = "shots" /\ g'.sent = g.sent /\ g.sent = 0 /\ g'.ordered = 0
         /\ g'.seed = g.seed /\ g'.index = g.index /\ g'.cmd = g.cmd /\ m' = m /\ wire' = wire
         /\ ~GDone /\ ~GDone' /\ ~Out(0) /\ m.enable
<1>0. TypeOK /\ ModuleInv
  BY DEF IInv, ModuleInv
<1>1. g' = [g EXCEPT !.pc = "shots"] /\ m' = m /\ wire' = wire /\ Loading /\ cmd' = cmd
  BY <1>0, BackIs DEF Operands, Pop
<1>2. g \in Works
  BY <1>0 DEF TypeOK
<1>3. /\ g.pc = "operands" /\ g'.pc = "shots" /\ g'.sent = g.sent /\ g.sent = 0 /\ g'.ordered = 0
      /\ g'.seed = g.seed /\ g'.index = g.index /\ g'.cmd = g.cmd
  BY <1>1, <1>2 DEF Works, Loading
<1>4. OutLines(cmd[g.cmd].kind) # 0
  BY LinesOf
<1>5. ~GDone /\ ~GDone'
  BY <1>1, <1>3, <1>4 DEF GDone
<1>6. ~Out(0) /\ m.enable
  BY <1>0, <1>1 DEF Loading, ModuleInv, ErrandInv, One
<1> QED BY <1>1, <1>3, <1>5, <1>6

LEMMA OneOrderedIs ==
  ASSUME IInv, OneOrdered
  PROVE  /\ g.pc = "shots" /\ g'.pc = g.pc /\ g'.sent = g.sent
         /\ g'.seed = g.seed /\ g'.index = g.index /\ g'.cmd = g.cmd /\ wire' = wire
         /\ m'.head = m.head /\ m'.enable = m.enable /\ m'.job = m.job /\ m'.gemm_ct = m.gemm_ct
         /\ ~GDone /\ ~GDone' /\ m.enable
<1>0. TypeOK /\ ModuleInv
  BY DEF IInv, ModuleInv
<1>1. /\ g' = [g EXCEPT !.ordered = @ + 1] /\ m' = [m EXCEPT !.inflight = @ - 1] /\ wire' = wire /\ cmd' = cmd
      /\ ~AllOrdered(g') /\ Pop /\ Msg.op = "go" /\ Msg.what = "res" /\ Msg.job = m.job
  BY DEF OneOrdered, Pop
<1>2. Shooting /\ m.enable
  BY <1>0, <1>1, GoIs
<1>3. g \in Works /\ m \in ModuleStates
  BY <1>0 DEF TypeOK
<1>4. /\ g.pc = "shots" /\ g'.pc = g.pc /\ g'.sent = g.sent /\ g'.ordered = g.ordered + 1
      /\ g'.seed = g.seed /\ g'.index = g.index /\ g'.cmd = g.cmd /\ g.sent \in Nat /\ g.ordered \in Nat
      /\ m'.head = m.head /\ m'.enable = m.enable /\ m'.job = m.job /\ m'.gemm_ct = m.gemm_ct
  BY <1>1, <1>2, <1>3 DEF Works, Shooting, ModuleStates
<1> DEFINE n == OutLines(cmd[g.cmd].kind)
<1>5. n \in Nat
  BY LinesOf
<1>6. g.ordered < n /\ ~(g.ordered + 1 = n)
  BY <1>1, <1>2, <1>4 DEF Shooting, AllOrdered
<1>7. OutLines(cmd'[g'.cmd].kind) = n
  BY <1>1, <1>4
<1> HIDE DEF n
<1>8. ~GDone
  BY <1>4, <1>5, <1>6 DEF GDone, n
<1>9. ~GDone'
  BY <1>4, <1>5, <1>6, <1>7 DEF GDone
<1> QED BY <1>1, <1>2, <1>4, <1>8, <1>9

LEMMA ResultArrive == ASSUME IInv, ArriveSteps PROVE ResultInv'
<1>0. /\ TypeOK /\ ModuleInv /\ AskedInv /\ StartInv /\ QuietInv /\ IndexInv /\ StatusInv
      /\ CleanPast /\ CleanHead /\ CleanAll /\ Running
  BY ResultParts DEF IInv, ModuleInv
<1>1. Pop /\ Shifted /\ UNCHANGED <<script, slot, res, cmd, ended, h>>
  BY ArriveKeeps
<1>2. Live' = Live
  BY <1>1 DEF Live
<1>3. CleanAll'
  BY <1>0, <1>1, <1>2, ArriveStarting DEF CleanAll, Clean
<1>4. m.head \in Nat
  BY <1>0, Numbers
<1>5. CASE NextSlot
  <2>1. m.enable /\ m'.head = m.head + 1 /\ g' = g /\ Recording
    BY <1>0, <1>5, NextSlotIs
  <2>2. GDone /\ GDone'
    BY <1>1, <2>1 DEF Recording, GDone
  <2>3. \A c \in Live : c > m.head => Clean(c)
    BY <1>0, <2>1 DEF CleanPast
  <2>4. \A c \in Live : c > m.head + 1 \/ c = m.head + 1 => c > m.head
    BY <1>4 DEF Live
  <2>5. CleanPast' /\ CleanHead'
    BY <1>1, <1>2, <2>1, <2>3, <2>4 DEF CleanPast, CleanHead, Clean
  <2>6. Running'
    BY <2>2 DEF Running
  <2> QED BY <1>3, <2>5, <2>6, ResultPartsNext
<1>6. CASE StartQueue
  <2>1. ~m.enable /\ Starts(Msg) /\ Stopped /\ g' = g
    BY <1>0, <1>6, StartQueueIs
  <2>2. Starting
    BY <1>1, <2>1 DEF Starting, Shifted
  <2>3. \A c \in Live : Clean(c)
    BY <1>0, <2>2 DEF CleanAll
  <2>4. GDone'
    BY <1>1, <2>1 DEF Stopped, GDone
  <2> QED BY <1>1, <1>2, <1>3, <2>3, <2>4, ResultPartsNext DEF CleanPast, CleanHead, Clean, Running
<1>7. CASE StopQueue
  <2>1. ~m'.enable /\ g' = Idle
    BY <1>0, <1>7, StopQueueIs
  <2>2. GDone'
    BY <2>1 DEF GDone, Idle
  <2> QED BY <1>3, <2>1, <2>2, ResultPartsNext DEF CleanPast, CleanHead, Running
<1>8. CASE StartGemm
  <2>1. /\ m.enable /\ m'.enable /\ m'.head = m.head /\ m.head \in Live /\ ~GDone' /\ Clean(m.head)
        /\ g'.sent = 0 /\ g'.seed = cmd[m.head].seed /\ g'.index = m.gemm_ct
        /\ m.gemm_ct \in Nat /\ cmd[m.head].due = "done"
        /\ \A l \in wire' : l.op # "ItoMWr"
    BY <1>8, StartGemmIs
  <2>2. CleanPast' /\ CleanHead'
    BY <1>0, <1>1, <1>2, <2>1 DEF CleanPast, CleanHead, Clean
  <2>3. DOMAIN res[m.head] \subseteq 1 .. 2
    <3>1. m.head \in 0 .. h.next - 1 /\ CmdKinds
      BY <1>0, <2>1, Numbers, CmdParts DEF IInv
    <3>2. DOMAIN res[m.head] = 1 .. OutLines(cmd[m.head].kind)
      BY <3>1 DEF CmdKinds
    <3> QED BY <3>2, LinesOf
  <2>4. \A i \in DOMAIN res[m.head] : ~(i <= g'.sent)
    BY <2>1, <2>3
  <2>5. Running'
    BY <1>1, <1>2, <2>1, <2>4 DEF Running, Clean
  <2> QED BY <1>3, <2>2, <2>5, ResultPartsNext
<1>9. CASE Operands
  <2>1. /\ g.pc = "operands" /\ g'.pc = "shots" /\ g'.sent = g.sent
        /\ g'.seed = g.seed /\ g'.index = g.index /\ m' = m /\ wire' = wire
        /\ ~GDone /\ ~GDone'
    BY <1>9, OperandsIs
  <2>2. CleanPast' /\ CleanHead'
    BY <1>0, <1>1, <1>2, <2>1 DEF CleanPast, CleanHead, Clean
  <2>3. Running'
    BY <1>0, <1>1, <1>2, <2>1 DEF Running
  <2> QED BY <1>3, <2>2, <2>3, ResultPartsNext
<1>10. CASE OneOrdered
  <2>1. /\ g.pc = "shots" /\ g'.pc = g.pc /\ g'.sent = g.sent
        /\ g'.seed = g.seed /\ g'.index = g.index /\ wire' = wire
        /\ m'.head = m.head /\ m'.enable = m.enable /\ m'.job = m.job
        /\ ~GDone /\ ~GDone'
    BY <1>10, OneOrderedIs
  <2>2. CleanPast' /\ CleanHead'
    BY <1>0, <1>1, <1>2, <2>1 DEF CleanPast, CleanHead, Clean
  <2>3. Running'
    BY <1>0, <1>1, <1>2, <2>1 DEF Running
  <2> QED BY <1>3, <2>2, <2>3, ResultPartsNext
<1>11. CASE LastOrdered
  <2>1. PICK x \in Records("ItoMWr") : wire' = wire \cup {x} /\ m.enable /\ m'.head = m.head /\ GDone' /\ m'.enable
    BY <1>11, LastOrderedIs
  <2>2. Errand(x, m'.job, 0)
    BY <2>1, ErrandIs
  <2>3. Out(0)'
    BY <2>1, <2>2 DEF Out, Runs
  <2>4. CleanPast'
    BY <1>0, <1>1, <1>2, <2>1 DEF CleanPast, Clean
  <2> QED BY <1>3, <2>1, <2>3, <2>4, ResultPartsNext DEF CleanHead, Running
<1>12. CASE g' = g /\ ~NextSlot /\ ~StartQueue /\ ~LastOrdered /\ ~StopQueue
  <2>1. m'.enable => m.enable /\ m'.head = m.head
    BY <1>12, ArriveMoves
  <2>2. GDone' <=> GDone
    BY <1>1, <1>12 DEF GDone
  <2>3. m'.enable => (Out(0) => Out(0)')
    BY <1>12, RecordStays
  <2>4. CleanPast' /\ CleanHead'
    BY <1>0, <1>1, <1>2, <1>12, <2>1, <2>2, <2>3 DEF CleanPast, CleanHead, Clean
  <2>5. Running'
    <3> SUFFICES ASSUME ~GDone PROVE Running'
      BY <2>2 DEF Running
    <3>1. ~TakeFlr
      <4> SUFFICES ASSUME TakeFlr PROVE FALSE
        OBVIOUS
      <4>1. m.wedged
        BY <1>0, TakeFlrIs
      <4> QED BY <1>0, <4>1 DEF ModuleInv, StageInv, Stopped, Waiting, Wedged, Fetching, Loading, Shooting, Recording
    <3>2. m'.head = m.head
      BY <1>12, <3>1, ArriveKeeps
    <3>3. ~\E s \in Failed : EndsEarly(s)
      BY EndsEarlyIs
    <3>4. wire \subseteq wire' /\ \A l \in wire' : l \in wire \/ l.op = "RdCurr"
      BY <1>12, <3>3, WireGrows
    <3>5. \A l \in wire \cup wire' : l.op = "ItoMWr" => (l \in wire <=> l \in wire')
      BY <3>4
    <3>6. wire' \subseteq Lines
      BY <1>0, ArriveTypes DEF ModuleInv, TypeOK
    <3>7. DOMAIN res[m.head] \subseteq {1, 2}
      <4>1. m.head \in 0 .. h.next - 1 /\ CmdKinds
        BY <1>0, Numbers, CmdParts DEF IInv, Running
      <4>2. DOMAIN res[m.head] = 1 .. OutLines(cmd[m.head].kind)
        BY <4>1 DEF CmdKinds
      <4>3. 1 .. OutLines(cmd[m.head].kind) \subseteq {1, 2}
        BY LinesOf
      <4> QED BY <4>2, <4>3
    <3>8. \A i \in DOMAIN res[m.head] : (\E l \in wire' : Errand(l, m'.job, i)) <=> (\E l \in wire : Errand(l, m.job, i))
      BY <1>0, <3>5, <3>6, <3>7, OnWire
    <3> QED BY <1>0, <1>1, <1>2, <1>12, <3>2, <3>4, <3>8 DEF Running
  <2> QED BY <1>3, <2>4, <2>5, ResultPartsNext
<1> QED BY <1>5, <1>6, <1>7, <1>8, <1>9, <1>10, <1>11, <1>12, WorkKept

\* The command that is running has at most two lines of results.
LEMMA RunningLines ==
  ASSUME IInv, NEW c \in Live
  PROVE  DOMAIN res[c] \subseteq {1, 2}
<1>1. c \in 0 .. h.next - 1 /\ CmdKinds
  BY Numbers, CmdParts DEF IInv
<1>2. DOMAIN res[c] = 1 .. OutLines(cmd[c].kind)
  BY <1>1 DEF CmdKinds
<1>3. 1 .. OutLines(cmd[c].kind) \subseteq {1, 2}
  BY LinesOf
<1> QED BY <1>2, <1>3

LEMMA ResultShot == ASSUME IInv, Shot PROVE ResultInv'
<1>0. TypeOK /\ ErrandInv /\ CleanPast /\ CleanHead /\ CleanAll /\ Running
  BY ResultParts DEF IInv
<1>1. PICK x \in Results("ItoMWr") :
           /\ wire' = wire \cup {x} /\ x.line = g.sent + 1 /\ x.val = <<g.seed, g.index>> /\ x.line \in 1 .. 2
           /\ m.head \in Live /\ m.enable /\ Shooting /\ ~GDone
           /\ m'.enable = m.enable /\ m'.head = m.head /\ m'.job = m.job
           /\ g'.pc = g.pc /\ g'.sent = g.sent + 1 /\ g'.ordered = g.ordered
           /\ g'.seed = g.seed /\ g'.index = g.index
           /\ g.sent \in Nat /\ g.ordered \in Nat
           /\ UNCHANGED <<script, io, up, slot, res, cmd, ended, h>>
  BY ShotIs
<1>2. Live' = Live
  BY <1>1 DEF Live
<1>3. g.pc = "shots" /\ m.inflight = g.sent - g.ordered
  BY <1>1 DEF Shooting
<1>4. m.inflight >= 0
  BY <1>0 DEF ErrandInv, One
<1>5. g'.ordered # g'.sent
  BY <1>1, <1>3, <1>4
<1>6. ~GDone'
  BY <1>1, <1>3, <1>5 DEF GDone
<1>7. CleanPast' /\ CleanHead' /\ CleanAll'
  BY <1>0, <1>1, <1>2, <1>3, <1>6 DEF CleanPast, CleanHead, CleanAll, Clean, Starting
<1>8. \A i : Errand(x, m.job, i) <=> i = g.sent + 1
  BY <1>1, ErrandIs
<1>9. DOMAIN res[m.head] \subseteq {1, 2}
  BY <1>1, RunningLines
<1>10. ASSUME NEW i \in DOMAIN res[m.head]
       PROVE  IF i <= g'.sent /\ ~\E l \in wire' : Errand(l, m'.job, i)
              THEN res[m.head][i] = <<g.seed, g.index>> ELSE res[m.head][i] = Sentinel
  <2>1. IF i <= g.sent /\ ~\E l \in wire : Errand(l, m.job, i)
        THEN res[m.head][i] = <<g.seed, g.index>> ELSE res[m.head][i] = Sentinel
    BY <1>0, <1>1 DEF Running
  <2>2. i \in Nat
    BY <1>9
  <2>3. CASE i = g.sent + 1
    <3>1. \E l \in wire' : Errand(l, m'.job, i)
      BY <1>1, <1>8, <2>3
    <3>2. ~(i <= g.sent)
      BY <1>1, <2>3
    <3> QED BY <2>1, <3>1, <3>2
  <2>4. CASE i # g.sent + 1
    <3>1. i <= g'.sent <=> i <= g.sent
      BY <1>1, <2>2, <2>4
    <3>2. (\E l \in wire' : Errand(l, m'.job, i)) <=> (\E l \in wire : Errand(l, m.job, i))
      BY <1>1, <1>8, <2>4
    <3> QED BY <2>1, <3>1, <3>2
  <2> QED BY <2>3, <2>4
<1>11. Running'
  BY <1>0, <1>1, <1>2, <1>10 DEF Running
<1> QED BY <1>7, <1>11, ResultPartsNext

LEMMA ResultLand == ASSUME IInv, NEW l \in wire, Land(l) \/ AtHost(l) PROVE ResultInv'
<1>0. TypeOK /\ IndexInv /\ StatusInv /\ CleanPast /\ CleanHead /\ CleanAll /\ Running
  BY ResultParts DEF IInv
<1>1. /\ m' = m /\ g' = g /\ h' = h /\ cmd' = cmd /\ wire' = wire \ {l}
      /\ \A i \in DOMAIN io : i \in DOMAIN io' /\ io'[i] = io[i]
      /\ Len(io) + 1 \in DOMAIN io'
  BY <1>0, LineReaches
<1>2. Live' = Live
  BY <1>1 DEF Live
<1>3. Starting' <=> Starting
  BY <1>0, RecordNow
<1>4. GDone' <=> GDone
  BY <1>1 DEF GDone
<1>5. CASE AtHost(l)
  <2>1. l.op = "RdCurr" /\ slot' = slot /\ res' = res
    BY <1>5, ReadLands
  <2>2. Out(0) => Out(0)'
    <3>1. ~Errand(l, m.job, 0)
      BY <2>1 DEF Errand
    <3> QED BY <1>1, <3>1 DEF Out, Runs
  <2>3. CleanPast' /\ CleanHead' /\ CleanAll'
    BY <1>0, <1>1, <1>2, <1>3, <1>4, <2>1, <2>2 DEF CleanPast, CleanHead, CleanAll, Clean
  <2>4. Running'
    <3> SUFFICES ASSUME ~GDone PROVE Running'
      BY <1>4 DEF Running
    <3>1. m.head \in Live
      BY <1>0 DEF Running
    <3>2. wire' \subseteq Lines /\ \A n \in wire \cup wire' : n.op = "ItoMWr" => (n \in wire <=> n \in wire')
      BY <1>0, <1>1, <2>1 DEF TypeOK
    <3>3. \A i \in DOMAIN res[m.head] : (\E n \in wire' : Errand(n, m'.job, i)) <=> (\E n \in wire : Errand(n, m.job, i))
      BY <1>0, <3>1, <3>2, OnWire, RunningLines
    <3> QED BY <1>0, <1>1, <1>2, <1>4, <2>1, <3>3 DEF Running
  <2> QED BY <2>3, <2>4, ResultPartsNext
<1>6. CASE Land(l) /\ l.what = "rec"
  <2>1. res' = res /\ IsRecord(At(1)) /\ l.op = "ItoMWr"
    BY <1>6, RecordLands
  <2>2. GDone
    BY <1>6, <2>1, WritesOut
  <2>3. Out(0)'
    <3>1. io'[Len(io) + 1] = At(1)
      BY DEF At
    <3>2. Errand(io'[Len(io) + 1], m'.job, 0)
      BY <2>1, <3>1 DEF Errand, IsRecord
    <3> QED BY <1>1, <3>2 DEF Out, Runs
  <2>4. CleanPast' /\ CleanHead' /\ CleanAll'
    BY <1>0, <1>1, <1>2, <1>3, <2>1, <2>3 DEF CleanPast, CleanHead, CleanAll, Clean
  <2> QED BY <1>4, <2>2, <2>4, ResultPartsNext DEF Running
<1>7. CASE Land(l) /\ l.what = "res"
  <2>1. /\ l.op = "ItoMWr" /\ l.cmd \in Live /\ l.line \in DOMAIN res[l.cmd] /\ l.line \in 1 .. 2
        /\ res'[l.cmd][l.line] = l.val
        /\ DOMAIN res'[l.cmd] = DOMAIN res[l.cmd]
        /\ \A i \in DOMAIN res[l.cmd] : i # l.line => res'[l.cmd][i] = res[l.cmd][i]
        /\ \A c \in Cmds : c # l.cmd => res'[c] = res[c]
        /\ (m.enable => l.cmd = m.head /\ Shooting /\ l.line <= g.sent)
        /\ \A n \in wire : n.op = "ItoMWr" => n.what = "res" /\ (n.line = l.line => n = l)
    BY <1>7, ResultLands
  <2>2. ~Starting /\ (~m.enable => GDone) /\ l \in Results("ItoMWr")
    BY <1>7, <2>1, WritesOut
  <2>3. m.enable => ~GDone /\ g.pc = "shots"
    <3>1. Shooting => g.ordered # g.sent \/ g.sent # OutLines(cmd[g.cmd].kind)
      <4> DEFINE n == OutLines(cmd[g.cmd].kind)
      <4>1. Shooting => g.ordered < n
        BY DEF Shooting
      <4>2. n \in Nat
        BY LinesOf
      <4> HIDE DEF n
      <4>3. Shooting => g.ordered # n
        BY <4>1, <4>2
      <4> QED BY <4>3 DEF n
    <3> QED BY <2>1, <3>1 DEF GDone, Shooting
  <2>4. \A c \in Live : c \in Cmds
    BY <1>0, LiveSlots
  <2>5. CleanPast'
    <3> SUFFICES ASSUME m.enable, NEW c \in Live, c > m.head PROVE Clean(c)'
      BY <1>1, <1>2 DEF CleanPast
    <3>1. c # l.cmd
      <4>1. c \in Int /\ m.head \in Int
        BY <1>0, Numbers DEF Live
      <4> QED BY <2>1, <4>1
    <3>2. res'[c] = res[c] /\ Clean(c)
      BY <1>0, <2>1, <2>4, <3>1 DEF CleanPast
    <3> QED BY <3>2 DEF Clean
  <2>6. CleanHead'
    BY <1>1, <1>4, <2>3 DEF CleanHead
  <2>7. CleanAll'
    BY <1>3, <2>2 DEF CleanAll
  <2>8. Running'
    <3> SUFFICES ASSUME ~GDone PROVE Running'
      BY <1>4 DEF Running
    <3>1. /\ l.cmd = m.head /\ l.line <= g.sent /\ m.head \in Live
          /\ l.val = <<g.seed, g.index>>
      BY <1>0, <2>1, <2>2 DEF Running
    <3>2. \A k : Errand(l, m.job, k) <=> k = l.line
      BY <2>2, ErrandIs
    <3>3. ASSUME NEW i \in DOMAIN res[m.head]
          PROVE  IF i <= g.sent /\ ~\E n \in wire' : Errand(n, m.job, i)
                 THEN res'[m.head][i] = <<g.seed, g.index>> ELSE res'[m.head][i] = Sentinel
      <4>1. IF i <= g.sent /\ ~\E n \in wire : Errand(n, m.job, i)
            THEN res[m.head][i] = <<g.seed, g.index>> ELSE res[m.head][i] = Sentinel
        BY <1>0 DEF Running
      <4>2. CASE i = l.line
        <5>1. ~\E n \in wire' : Errand(n, m.job, i)
          <6> SUFFICES ASSUME NEW n \in wire', Errand(n, m.job, i) PROVE FALSE
            OBVIOUS
          <6>1. n \in wire /\ n # l /\ n \in Lines /\ i \in 1 .. 2
            BY <1>0, <1>1, <2>1, <4>2 DEF TypeOK
          <6>2. n.op = "ItoMWr"
            BY <6>1, LineShape, ErrandIs DEF Reads
          <6>3. n.what = "res"
            BY <2>1, <6>1, <6>2
          <6>4. n.line = i
            BY <6>1, <6>2, <6>3 DEF Errand
          <6> QED BY <2>1, <4>2, <6>1, <6>2, <6>4
        <5> QED BY <2>1, <3>1, <4>2, <5>1
      <4>3. CASE i # l.line
        <5>1. (\E n \in wire' : Errand(n, m.job, i)) <=> (\E n \in wire : Errand(n, m.job, i))
          BY <1>1, <3>2, <4>3
        <5>2. res'[m.head][i] = res[m.head][i]
          BY <2>1, <3>1, <4>3
        <5> QED BY <4>1, <5>1, <5>2
      <4> QED BY <4>2, <4>3
    <3> QED BY <1>0, <1>1, <1>2, <2>1, <3>1, <3>3 DEF Running
  <2> QED BY <2>5, <2>6, <2>7, <2>8, ResultPartsNext
<1>8. Land(l) => l.what \in {"rec", "res"}
  BY WritesOut DEF Land
<1> QED BY <1>5, <1>6, <1>7, <1>8

\* The host leaves the module's work as it is.
LEMMA HostWork ==
  ASSUME IInv, HostNext
  PROVE  /\ GDone' <=> GDone
         /\ Out(0)' <=> Out(0)
<1>0. TypeOK /\ ModuleInv
  BY DEF IInv, ModuleInv
<1>1. HostSent /\ SameCmds
  BY <1>0, HostSentLemma, HostCmds
<1>2. g.pc # "idle" => cmd'[g.cmd] = cmd[g.cmd]
  BY <1>0, <1>1 DEF ModuleInv, StageInv, SameCmds
<1>3. GDone' <=> GDone
  BY <1>1, <1>2 DEF GDone, HostSent
<1>4. \A i \in DOMAIN io' : i \in DOMAIN io \/ ~Errand(io'[i], m'.job, 0)
  BY <1>1 DEF HostSent, Errand
<1>5. \A i \in DOMAIN io : i \in DOMAIN io' /\ io'[i] = io[i]
  BY <1>1 DEF HostSent
<1>6. Out(0)' <=> Out(0)
  BY <1>1, <1>4, <1>5 DEF Out, Runs, HostSent
<1> QED BY <1>3, <1>6

LEMMA ResultHost == ASSUME IInv, HostNext PROVE ResultInv'
<1>0. TypeOK /\ ModuleInv /\ IndexInv /\ CleanPast /\ CleanHead /\ CleanAll /\ Running
  BY ResultParts DEF IInv, ModuleInv
<1>1. m' = m /\ wire' = wire /\ g' = g
  BY <1>0, HostRecords
<1>2. (GDone' <=> GDone) /\ (Out(0)' <=> Out(0))
  BY HostWork
<1>3. CASE Plain \/ SetSeed
  <2>1. slot' = slot /\ res' = res /\ cmd' = cmd /\ h'.next = h.next /\ h'.hhead = h.hhead
    BY <1>0, <1>3, PlainIs, PlainHostIs DEF SameCommands, SameIdx
  <2>2. Live' = Live
    BY <2>1 DEF Live
  <2>3. Starting' => Starting
    <3>1. ~HeadBack /\ ~AfterReset
      BY <1>0, <1>3, RestartIs, PlainIs, PlainHostIs DEF Plain, HeadBack, AfterReset, StatusBack, Ring, IrqOff, Drain, Drained, TakeMsi,
         Awaited, DrainTimeout, Teardown, SetSeed, SameIdx, Disable
    <3> QED BY SMTT(60), <3>1, HostStarting
  <2>4. CleanPast' /\ CleanHead' /\ CleanAll'
    BY <1>0, <1>1, <1>2, <2>1, <2>2, <2>3 DEF CleanPast, CleanHead, CleanAll, Clean
  <2>5. Running'
    BY <1>0, <1>1, <1>2, <2>1, <2>2 DEF Running
  <2> QED BY <2>4, <2>5, ResultPartsNext
<1>4. CASE Publish \/ PublishIrq
  <2>1. Stored
    BY <1>0, <1>4, StoredIs
  <2>2. /\ \A c \in 0 .. h.next - 1 : cmd'[c] = cmd[c] /\ res'[c] = res[c]
        /\ Live' = Live \cup {h.next} /\ Live \subseteq 0 .. h.next - 1
    BY <1>0, <2>1, StoredKeeps
  <2>n. PICK next : next = h.next
    OBVIOUS
  <2>3. (\A c \in Live : Clean(c)' <=> Clean(c)) /\ Clean(next)' /\ Working
    <3>1. res'[next] = [i \in 1 .. OutLines(Command.kind) |-> Sentinel] /\ Working
      BY <2>1, <2>n DEF Stored
    <3> QED BY <2>2, <3>1 DEF Clean
  <2>4. CleanPast' /\ CleanHead'
    <3>1. m.head \in Live' => m.head \in Live \/ m.head = next
      BY <2>2, <2>n
    <3>2. CleanPast'
      BY <1>0, <1>1, <2>2, <2>n, <2>3 DEF CleanPast
    <3>3. CleanHead'
      <4> SUFFICES ASSUME m.enable, ~Out(0), g.pc # "shots" \/ GDone, m.head \in Live'
                   PROVE  \A i \in DOMAIN res'[m.head] : res'[m.head][i] = Sentinel
        BY <1>1, <1>2 DEF CleanHead, Clean
      <4> QED BY ZenonT(60), <1>0, <2>2, <2>3, <3>1 DEF CleanHead, Clean
    <3> QED BY <3>2, <3>3
  <2>5. CleanAll'
    <3>1. Starting' => Starting
      BY <1>1, <2>3, WorkingStarts DEF Starting
    <3> QED BY <1>0, <2>2, <2>3, <2>n, <3>1 DEF CleanAll
  <2>6. Running'
    <3> SUFFICES ASSUME ~GDone PROVE Running'
      BY <1>2 DEF Running
    <3>1. m.head \in Live
      BY <1>0 DEF Running
    <3>2. cmd'[m.head] = cmd[m.head] /\ res'[m.head] = res[m.head] /\ m.head \in Live'
      BY <2>2, <3>1
    <3> QED BY <1>0, <1>1, <1>2, <3>2 DEF Running
  <2> QED BY <2>4, <2>5, <2>6, ResultPartsNext
<1>5. CASE TryEnd
  <2>1. /\ slot' = slot /\ res' = res /\ cmd' = cmd /\ h'.next = h.next /\ h'.hhead = h.hhead + 1 /\ io' = io
    BY <1>0, <1>5, TryEndIs
  <2>2. Live' = Live \ {h.hhead}
    <3>1. Live' = (h.hhead + 1) .. (h.next - 1)
      BY <2>1 DEF Live
    <3>2. (h.hhead + 1) .. (h.next - 1) = (h.hhead .. h.next - 1) \ {h.hhead}
      BY <1>0, Numbers
    <3> QED BY <3>1, <3>2 DEF Live
  <2>3. ~GDone => m.head # h.hhead
    <3>1. m.enable /\ (h.hhead = m.head => RecordBack)
      BY <1>5, EndedIs DEF RecordBack
    <3>2. RecordBack => GDone
      BY <1>0, <3>1, RecordOut, RecordMeans DEF RecordBack, Recording
    <3> QED BY <3>1, <3>2
  <2>4. CleanPast' /\ CleanHead' /\ CleanAll'
    BY <1>0, <1>1, <1>2, <2>1, <2>2 DEF CleanPast, CleanHead, CleanAll, Clean, Starting
  <2>5. Running'
    BY <1>0, <1>1, <1>2, <2>1, <2>2, <2>3 DEF Running
  <2> QED BY <2>4, <2>5, ResultPartsNext
<1>6. CASE HeadBack \/ AfterReset
  <2>1. Live' = {} /\ ~m.enable /\ GDone
    BY <1>6, RestartMeans
  <2> QED BY <1>1, <1>2, <2>1, ResultPartsNext DEF CleanPast, CleanHead, CleanAll, Running
<1> QED BY <1>3, <1>4, <1>5, <1>6 DEF HostNext, Plain

LEMMA ResultStep == ASSUME IInv, [Next]_vars PROVE ResultInv'
<1>1. CASE UNCHANGED vars
  <2>1. UNCHANGED <<m, g, io, wire, slot, res, cmd, h>>
    BY <1>1 DEF vars
  <2>2. CleanPast /\ CleanHead /\ CleanAll /\ Running
    BY ResultParts DEF IInv
  <2>3. (GDone' <=> GDone) /\ (Out(0)' <=> Out(0)) /\ (Starting' <=> Starting) /\ Live' = Live
    BY <2>1 DEF GDone, Out, Runs, Starting, Live
  <2> QED BY <2>1, <2>2, <2>3, ResultPartsNext DEF CleanPast, CleanHead, CleanAll, Running, Clean
<1> QED BY <1>1, Steps, ResultArrive, ResultShot, ResultLand, ResultHost

-----------------------------------------------------------------------------
(* How the commands end. *)

\* The number of indices of a run that starts at a tells which they are.
LEMMA RunOf ==
  ASSUME NEW a \in Int, NEW b \in Int, NEW B \in SUBSET (a .. b), \A i \in B : \A j \in a .. i : j \in B
  PROVE  Cardinality(B) \in Nat /\ \A i \in Int : i >= a => (i < a + Cardinality(B) <=> i \in B)
<1>1. IsFiniteSet(B) /\ Cardinality(B) \in Nat
  <2>1. IsFiniteSet(a .. b)
    BY FS_Interval
  <2>2. IsFiniteSet(B)
    BY <2>1, FS_Subset
  <2> QED BY <2>2, FS_CardinalityType
<1>2. ASSUME NEW i \in Int, i >= a, i \in B PROVE i < a + Cardinality(B)
  <2>1. a .. i \subseteq B
    BY <1>2
  <2>2. Cardinality(a .. i) <= Cardinality(B)
    BY <1>1, <2>1, FS_Subset
  <2>3. Cardinality(a .. i) = i - a + 1
    BY <1>2, FS_Interval
  <2> QED BY <1>1, <1>2, <2>2, <2>3
<1>3. ASSUME NEW i \in Int, i >= a, i \notin B PROVE ~(i < a + Cardinality(B))
  <2>1. B \subseteq a .. (i - 1)
    <3> SUFFICES ASSUME NEW j \in B PROVE j \in a .. (i - 1)
      OBVIOUS
    <3>1. j \in Int /\ a <= j /\ i \notin a .. j
      BY <1>3
    <3> QED BY <1>3, <3>1
  <2>2. IsFiniteSet(a .. (i - 1))
    BY FS_Interval
  <2>3. Cardinality(B) <= Cardinality(a .. (i - 1))
    BY <2>1, <2>2, FS_Subset
  <2>4. Cardinality(a .. (i - 1)) = IF a > i - 1 THEN 0 ELSE (i - 1) - a + 1
    BY FS_Interval
  <2> QED BY <1>1, <1>3, <2>3, <2>4
<1> QED BY <1>1, <1>2, <1>3

\* What a teardown or a reset makes of a command the host still waited for.
EndsLost(c)  == ended'[c].status = "lost" /\ ended'[c].cmd = c
EndsAsIs(c) == ended'[c] = slot[SlotOf(c)] /\ Status(c) # Pending /\ c < m.head

LEMMA RestartEnds ==
  ASSUME IInv, HeadBack \/ AfterReset
  PROVE  /\ \A c \in 0 .. h.hhead - 1 : ended'[c] = ended[c]
         /\ AfterReset => \A c \in Live : EndsLost(c)
         /\ HeadBack => \A c \in Live : EndsAsIs(c) \/ (EndsLost(c) /\ (c >= m.head \/ \E j \in h.hhead .. c : Status(j) = Pending))
<1>0. TypeOK /\ IndexInv /\ AskedInv /\ CmdSlots
  BY CmdParts DEF IInv
<1>n. /\ h.hhead \in Nat /\ h.next \in Nat /\ m.head \in Nat /\ NumCmds \in Nat /\ h.next <= NumCmds
      /\ h.hhead <= h.next /\ Live \subseteq Cmds /\ 0 .. h.hhead - 1 \subseteq Cmds
  <2>1. /\ h.hhead \in Nat /\ h.next \in Nat /\ m.head \in Nat /\ NumCmds \in Nat /\ h.next <= NumCmds
        /\ h.hhead <= h.rung /\ h.rung <= h.next /\ h.rung \in Nat
    BY <1>0, Numbers
  <2> QED BY <2>1 DEF Live, Cmds
<1>1. ended' = [i \in Cmds |-> IF i \in h.hhead .. h.next - 1 THEN slot'[SlotOf(i)] ELSE ended[i]]
  <2>1. Complete(h.hhead .. h.next - 1, slot')
    BY <1>0, RestartIs
  <2> QED BY <2>1 DEF Complete
<1>2. \A c \in 0 .. h.hhead - 1 : ended'[c] = ended[c]
  <2>1. \A c \in 0 .. h.hhead - 1 : c \notin h.hhead .. h.next - 1 /\ c \in Cmds
    BY <1>n
  <2> QED BY <1>1, <2>1
<1>3. \A c \in Live : ended'[c] = slot'[SlotOf(c)]
  BY <1>n, <1>1 DEF Live
<1>4. \A c \in Live : slot[SlotOf(c)].cmd = c /\ slot[SlotOf(c)] \in SlotLines /\ SlotOf(c) \in DOMAIN slot
  <2>1. \A c \in Live : SlotOf(c) \in DOMAIN slot
    BY <1>0, LiveSlots
  <2> QED BY <1>0, <2>1 DEF CmdSlots, TypeOK
<1>5. ASSUME NEW from \in Int, from >= h.hhead, EndLost(from), NEW c \in Live
      PROVE  /\ c >= from => EndsLost(c)
             /\ ~(c >= from) => ended'[c] = slot[SlotOf(c)]
  <2>1. slot' = [s \in DOMAIN slot |-> IF \E i \in from .. h.next - 1 : SlotOf(i) = s
                                        THEN [slot[s] EXCEPT !.status = "lost"] ELSE slot[s]]
    BY <1>5 DEF EndLost
  <2>2. slot'[SlotOf(c)] = IF \E i \in from .. h.next - 1 : SlotOf(i) = SlotOf(c)
                            THEN [slot[SlotOf(c)] EXCEPT !.status = "lost"] ELSE slot[SlotOf(c)]
    BY <1>4, <2>1
  <2>3. from .. h.next - 1 \subseteq Live
    BY <1>n, <1>5 DEF Live
  <2>4. (\E i \in from .. h.next - 1 : SlotOf(i) = SlotOf(c)) => c \in from .. h.next - 1
    BY <1>0, <2>3, LiveSlots
  <2>5. c \in from .. h.next - 1 <=> c >= from
    BY <1>n, <1>5 DEF Live
  <2>6. c >= from => slot'[SlotOf(c)] = [slot[SlotOf(c)] EXCEPT !.status = "lost"]
    BY <2>2, <2>5
  <2>7. ~(c >= from) => slot'[SlotOf(c)] = slot[SlotOf(c)]
    BY <2>2, <2>4, <2>5
  <2>8. [slot[SlotOf(c)] EXCEPT !.status = "lost"].status = "lost" /\ [slot[SlotOf(c)] EXCEPT !.status = "lost"].cmd = c
    BY <1>4 DEF SlotLines
  <2> QED BY <1>3, <2>6, <2>7, <2>8 DEF EndsLost
<1>6. CASE AfterReset
  <2>1. EndLost(h.hhead) /\ ~HeadBack
    BY <1>0, <1>6, RestartIs
  <2>2. \A c \in Live : c >= h.hhead
    BY <1>n DEF Live
  <2> QED BY <1>2, <1>5, <1>n, <1>6, <2>1, <2>2
<1>7. CASE HeadBack
  <2>1. h.pc = "head" /\ up # <<>> /\ Head(up).op = "HEAD" /\ ~AfterReset
    BY <1>0, <1>7, RestartIs
  <2>2. Head(up).val = m.head
    <3>1. Head(up) = up[1] /\ 1 \in DOMAIN up
      BY <1>0, <2>1 DEF TypeOK
    <3> QED BY <1>0, <2>1, <3>1 DEF AskedInv
  <2> DEFINE B == {i \in h.hhead .. m.head - 1 : \A j \in h.hhead .. i : Status(j) # Pending}
  <2>3. EndLost(h.hhead + Cardinality(B))
    BY <1>7, <2>2 DEF HeadBack
  <2>4. \A i \in B : \A j \in h.hhead .. i : j \in B
    BY <1>n
  <2>5. Cardinality(B) \in Nat /\ \A i \in Int : i >= h.hhead => (i < h.hhead + Cardinality(B) <=> i \in B)
    <3>1. B \in SUBSET (h.hhead .. m.head - 1) /\ h.hhead \in Int /\ m.head - 1 \in Int
      BY <1>n
    <3> HIDE DEF B
    <3> QED BY <2>4, <3>1, RunOf
  <2> DEFINE from == h.hhead + Cardinality(B)
  <2>6. from \in Int /\ from >= h.hhead
    BY <1>n, <2>5
  <2>7. ASSUME NEW c \in Live
        PROVE  EndsAsIs(c) \/ (EndsLost(c) /\ (c >= m.head \/ \E j \in h.hhead .. c : Status(j) = Pending))
    <3>1. c \in Int /\ c >= h.hhead
      BY <1>n DEF Live
    <3>2. CASE c \in B
      <4>1. c < from
        BY <2>5, <3>1, <3>2
      <4>2. ended'[c] = slot[SlotOf(c)]
        <5> HIDE DEF from
        <5>1. ~(c >= from)
          BY <2>6, <3>1, <4>1
        <5> QED BY <1>5, <2>3, <2>6, <5>1 DEF from
      <4>3. Status(c) # Pending /\ c < m.head
        BY <1>n, <3>2
      <4> QED BY <4>2, <4>3 DEF EndsAsIs
    <3>3. CASE c \notin B
      <4>1. ~(c < from)
        BY <2>5, <3>1, <3>3
      <4>2. EndsLost(c)
        <5> HIDE DEF from
        <5>1. c >= from
          BY <2>6, <3>1, <4>1
        <5> QED BY <1>5, <2>3, <2>6, <5>1 DEF from
      <4>3. c >= m.head \/ \E j \in h.hhead .. c : Status(j) = Pending
        BY <1>n, <3>1, <3>3
      <4> QED BY <4>2, <4>3
    <3> QED BY <3>2, <3>3
  <2> QED BY <1>2, <2>1, <2>7
<1> QED BY <1>6, <1>7

\* The oldest command ends as its slot says.
LEMMA TryEndEnds ==
  ASSUME IInv, TryEnd
  PROVE  /\ h.hhead \in Live /\ h.hhead \in Nat /\ ended'[h.hhead] = slot[SlotOf(h.hhead)]
         /\ Status(h.hhead) # Pending /\ Truth(h.hhead, Status(h.hhead), slot[SlotOf(h.hhead)].index)
         /\ \A c \in Cmds : c # h.hhead => ended'[c] = ended[c]
<1>0. TypeOK /\ IndexInv /\ SlotsTrue
  BY StatusParts DEF IInv
<1>1. h.hhead \in Live /\ h.hhead \in Cmds /\ h.hhead \in Nat
  BY <1>0, EndedIs, LiveSlots
<1>2. Complete({h.hhead}, slot) /\ Status(h.hhead) # Pending
  BY <1>0, TryEndIs
<1>3. ended' = [i \in Cmds |-> IF i \in {h.hhead} THEN slot[SlotOf(i)] ELSE ended[i]]
  BY <1>2 DEF Complete
<1>4. ended'[h.hhead] = slot[SlotOf(h.hhead)] /\ \A c \in Cmds : c # h.hhead => ended'[c] = ended[c]
  BY <1>1, <1>3
<1> QED BY <1>0, <1>1, <1>2, <1>4 DEF SlotsTrue

EndTrue(c) ==
  /\ ended[c].cmd = c
  /\ \/ Truth(c, ended[c].status, ended[c].index)
     \/ ended[c].status = "lost" /\ h.timeouts + h.downs > 0
EndsTrue == \A c \in EndedCmds : EndTrue(c)
FailsSeen == ~Working => h.timeouts + h.downs > 0

LEMMA EndedParts == EndedInv <=> EndsTrue /\ FailsSeen
  BY DEF EndedInv, EndsTrue, EndTrue, FailsSeen
LEMMA EndedPartsNext == EndedInv' <=> EndsTrue' /\ FailsSeen'
  BY DEF EndedInv, EndsTrue, EndTrue, FailsSeen

LEMMA EndedHost == ASSUME IInv, HostNext PROVE EndedInv'
<1>0. TypeOK /\ IndexInv /\ EndsTrue /\ FailsSeen /\ CmdSlots /\ SlotsTrue
  BY EndedParts, CmdParts, StatusParts DEF IInv
<1>n. /\ h.hhead \in Nat /\ h.next \in Nat /\ h.hhead <= h.next /\ EndedCmds \subseteq 0 .. h.next - 1
      /\ EndedCmds = 0 .. h.hhead - 1 /\ EndedCmds \subseteq Cmds
  <2>1. h.hhead \in Nat /\ h.next \in Nat /\ h.hhead <= h.rung /\ h.rung <= h.next /\ h.rung \in Nat
        /\ NumCmds \in Nat /\ h.next <= NumCmds
    BY <1>0, Numbers
  <2> QED BY <2>1 DEF EndedCmds, Cmds
<1>1. CASE Plain
  <2>1. /\ cmd' = cmd /\ res' = res /\ ended' = ended /\ h'.hhead = h.hhead
        /\ h.timeouts + h.downs > 0 => h'.timeouts + h'.downs > 0
        /\ h'.pc \in {"status", "head", "flr"} => h.pc \in {"status", "head", "flr"} \/ h'.timeouts + h'.downs > 0
    BY <1>0, <1>1, PlainIs DEF SameCommands
  <2>2. EndsTrue'
    BY <1>0, <2>1 DEF EndsTrue, EndTrue, EndedCmds, Truth, Right, Clean
  <2>3. FailsSeen'
    <3>1. h'.pc \in {"script", "drain", "await", "status", "head", "flr"}
      BY <1>0, HostTypes DEF TypeOK, HostStates
    <3> QED BY <1>0, <2>1, <3>1 DEF FailsSeen, Working
  <2> QED BY <2>2, <2>3, EndedPartsNext
<1>2. CASE SetSeed
  <2>1. /\ cmd' = cmd /\ res' = res /\ ended' = ended /\ h'.hhead = h.hhead
        /\ h'.timeouts = h.timeouts /\ h'.downs = h.downs /\ h'.pc = h.pc
    BY <1>0, <1>2, PlainHostIs DEF SameIdx, SameFails, SamePc
  <2> QED BY <1>0, <2>1, EndedPartsNext DEF EndsTrue, EndTrue, EndedCmds, Truth, Right, Clean, FailsSeen, Working
<1>3. CASE Publish \/ PublishIrq
  <2>1. Stored
    BY <1>0, <1>3, StoredIs
  <2>2. /\ ended' = ended /\ h'.hhead = h.hhead /\ h'.pc \in {"script", "await"}
        /\ h'.timeouts = h.timeouts /\ h'.downs = h.downs
        /\ \A c \in EndedCmds : cmd'[c] = cmd[c] /\ res'[c] = res[c]
    BY <1>0, <1>n, <2>1, StoredKeeps DEF Stored, SameFails
  <2>3. EndedCmds' = EndedCmds
    BY <2>2 DEF EndedCmds
  <2>4. EndsTrue'
    <3> SUFFICES ASSUME NEW c \in EndedCmds PROVE EndTrue(c)'
      BY <2>3 DEF EndsTrue
    <3>1. EndTrue(c) /\ cmd'[c] = cmd[c] /\ res'[c] = res[c]
      BY <1>0, <2>2 DEF EndsTrue
    <3> QED BY <2>2, <3>1 DEF EndTrue, Truth, Right, Clean
  <2> QED BY <2>2, <2>4, EndedPartsNext DEF FailsSeen, Working
<1>4. CASE TryEnd
  <2>1. /\ cmd' = cmd /\ res' = res /\ h'.hhead = h.hhead + 1 /\ slot' = slot
        /\ h'.timeouts = h.timeouts /\ h'.downs = h.downs /\ h'.pc = h.pc
    BY <1>0, <1>4, TryEndIs DEF SameFails, SamePc
  <2>2. /\ h.hhead \in Live /\ ended'[h.hhead] = slot[SlotOf(h.hhead)]
        /\ Truth(h.hhead, Status(h.hhead), slot[SlotOf(h.hhead)].index)
        /\ \A c \in Cmds : c # h.hhead => ended'[c] = ended[c]
    BY <1>4, TryEndEnds
  <2>3. EndedCmds' = EndedCmds \cup {h.hhead} /\ h.hhead \notin EndedCmds
    <3>1. EndedCmds' = 0 .. (h.hhead + 1) - 1
      BY <2>1 DEF EndedCmds
    <3>2. 0 .. (h.hhead + 1) - 1 = (0 .. h.hhead - 1) \cup {h.hhead} /\ h.hhead \notin 0 .. h.hhead - 1
      BY <1>n
    <3> QED BY <1>n, <3>1, <3>2
  <2>4. EndsTrue'
    <3> SUFFICES ASSUME NEW c \in EndedCmds \cup {h.hhead} PROVE EndTrue(c)'
      BY <2>3 DEF EndsTrue
    <3>1. CASE c \in EndedCmds
      <4>1. EndTrue(c) /\ ended'[c] = ended[c]
        BY <1>0, <1>n, <2>2, <2>3, <3>1 DEF EndsTrue
      <4> QED BY <2>1, <4>1 DEF EndTrue, Truth, Right, Clean
    <3>2. CASE c = h.hhead
      <4>1. ended'[c].cmd = c
        BY <1>0, <2>2, <3>2 DEF CmdSlots
      <4>2. Truth(c, ended'[c].status, ended'[c].index)
        BY <2>2, <3>2 DEF Status
      <4> QED BY <2>1, <4>1, <4>2 DEF EndTrue, Truth, Right, Clean
    <3> QED BY <3>1, <3>2
  <2> QED BY <1>0, <2>1, <2>4, EndedPartsNext DEF FailsSeen, Working
<1>5. CASE HeadBack \/ AfterReset
  <2>1. cmd' = cmd /\ res' = res /\ h'.hhead = h.next /\ ~Working
    BY <1>5, RestartMeans
  <2>2. h'.timeouts = h.timeouts /\ h'.downs = h.downs /\ h'.pc = "script"
    BY <1>0, <1>5, RestartIs DEF SameFails
  <2>3. h.timeouts + h.downs > 0
    BY <1>0, <2>1 DEF FailsSeen
  <2>4. /\ \A c \in 0 .. h.hhead - 1 : ended'[c] = ended[c]
        /\ \A c \in Live : EndsAsIs(c) \/ EndsLost(c)
    BY <1>5, RestartEnds
  <2>5. EndedCmds' = EndedCmds \cup Live
    <3>1. EndedCmds' = 0 .. h.next - 1
      BY <2>1 DEF EndedCmds
    <3>2. 0 .. h.next - 1 = (0 .. h.hhead - 1) \cup (h.hhead .. h.next - 1)
      BY <1>n
    <3> QED BY <3>1, <3>2 DEF EndedCmds, Live
  <2>6. EndsTrue'
    <3> SUFFICES ASSUME NEW c \in EndedCmds \cup Live PROVE EndTrue(c)'
      BY <2>5 DEF EndsTrue
    <3>1. CASE c \in EndedCmds
      <4>1. EndTrue(c) /\ ended'[c] = ended[c]
        BY <1>0, <1>n, <2>4, <3>1 DEF EndsTrue
      <4> QED BY <2>1, <2>2, <4>1 DEF EndTrue, Truth, Right, Clean
    <3>2. CASE c \in Live /\ EndsAsIs(c)
      <4>1. ended'[c] = slot[SlotOf(c)] /\ slot[SlotOf(c)].cmd = c /\ Truth(c, Status(c), slot[SlotOf(c)].index)
        BY <1>0, <3>2 DEF CmdSlots, SlotsTrue, EndsAsIs
      <4>2. Truth(c, ended'[c].status, ended'[c].index)
        BY <4>1 DEF Status
      <4> QED BY <2>1, <4>1, <4>2 DEF EndTrue, Truth, Right, Clean
    <3>3. CASE EndsLost(c)
      BY <2>2, <2>3, <3>3 DEF EndTrue, EndsLost
    <3> QED BY <2>4, <3>1, <3>2, <3>3
  <2> QED BY <2>2, <2>6, EndedPartsNext DEF FailsSeen, Working
<1> QED BY <1>1, <1>2, <1>3, <1>4, <1>5 DEF HostNext, Plain

LEMMA EndedStep == ASSUME IInv, [Next]_vars PROVE EndedInv'
<1>0. TypeOK /\ IndexInv /\ EndsTrue /\ FailsSeen
  BY EndedParts DEF IInv
<1>1. CASE UNCHANGED <<cmd, ended, res, h>>
  BY <1>0, <1>1, EndedPartsNext DEF EndsTrue, EndTrue, EndedCmds, Truth, Right, Clean, FailsSeen, Working
<1>2. UNCHANGED vars \/ Shot \/ ArriveSteps => UNCHANGED <<cmd, ended, res, h>>
  BY ArriveKeeps DEF vars, Shot
<1>3. ASSUME NEW l \in wire, Land(l) \/ AtHost(l) PROVE EndedInv'
  <2>1. h' = h /\ cmd' = cmd /\ ended' = ended
    BY <1>0, <1>3, LineReaches
  <2>2. \A c \in EndedCmds : res'[c] = res[c]
    <3>1. AtHost(l) \/ (Land(l) /\ l.what = "rec") => res' = res
      BY RecordLands, ReadLands
    <3>2. CASE Land(l) /\ l.what = "res"
      <4>1. l.cmd \in Live /\ \A c \in Cmds : c # l.cmd => res'[c] = res[c]
        BY <3>2, ResultLands
      <4>2. \A c \in EndedCmds : c \in Cmds /\ c \notin Live
        <5>1. /\ h.hhead \in Nat /\ h.next \in Nat /\ h.hhead <= h.rung /\ h.rung <= h.next /\ h.rung \in Nat
              /\ NumCmds \in Nat /\ h.next <= NumCmds
          BY <1>0, Numbers
        <5> QED BY <5>1 DEF EndedCmds, Cmds, Live
      <4> QED BY <4>1, <4>2
    <3>3. Land(l) => l.what \in {"rec", "res"}
      BY WritesOut DEF Land
    <3> QED BY <1>3, <3>1, <3>2, <3>3
  <2>3. EndsTrue'
    <3> SUFFICES ASSUME NEW c \in EndedCmds PROVE EndTrue(c)'
      BY <2>1 DEF EndsTrue, EndedCmds
    <3>1. EndTrue(c) /\ res'[c] = res[c]
      BY <1>0, <2>2 DEF EndsTrue
    <3> QED BY <2>1, <3>1 DEF EndTrue, Truth, Right, Clean
  <2> QED BY <1>0, <2>1, <2>3, EndedPartsNext DEF FailsSeen, Working
<1> QED BY <1>1, <1>2, <1>3, EndedHost, Steps

-----------------------------------------------------------------------------
(* The indices of the GEMMs. *)

SeedOut == \E i \in DOMAIN io : IsWrite(io[i], "SEED")

\* The parts of CountInv.
Epochs == \A c \in 0 .. h.next - 1 : cmd[c].epoch <= h.epoch
InOrder ==
  \A c \in 0 .. h.next - 1 : \A n, t, e :
    DoneSo(c) /\ n = IndexOf(c) /\ t = cmd[c].tears /\ e = cmd[c].epoch => MayFollow(n, t, c, e)
OwnIndex == ~GDone => g.index = m.gemm_ct - 1
LineIndex ==
  \A l \in wire : l.op = "ItoMWr" =>
    l.idx = m.head /\ (l.what = "rec" /\ l.status = "done" => l.index = m.gemm_ct - 1)
TornAt ==
  Torn => \A c \in Live : (c < m.head => Status(c) # Pending) /\ (c > m.head => Status(c) = Pending)
NextIndex ==
  \A n, t, c, e :
    ~SeedOut /\ n = m.gemm_ct - One(Started) /\ t = h.tears + Slack /\ c = h.next /\ e = h.epoch
      => MayFollow(n, t, c, e)
NoneYet == SeedOut => \A c \in 0 .. h.next - 1 : cmd[c].epoch = h.epoch => ~DoneSo(c)

LEMMA CountParts ==
  CountInv <=> /\ Epochs /\ InOrder /\ OwnIndex /\ LineIndex /\ TornAt
               /\ h.pc # "flr" => NextIndex /\ NoneYet
<1>1. (\A c \in 0 .. h.next - 1 : DoneSo(c) => MayFollow(IndexOf(c), cmd[c].tears, c, cmd[c].epoch)) <=> InOrder
  BY DEF InOrder
<1>2. (IF \E i \in DOMAIN io : IsWrite(io[i], "SEED")
       THEN \A c \in 0 .. h.next - 1 : cmd[c].epoch = h.epoch => ~DoneSo(c)
       ELSE MayFollow(m.gemm_ct - One(Started), h.tears + Slack, h.next, h.epoch)) <=> NextIndex /\ NoneYet
  BY DEF NextIndex, NoneYet, SeedOut
<1> QED BY <1>1, <1>2 DEF CountInv, Epochs, OwnIndex, LineIndex, TornAt

LEMMA CountPartsNext ==
  CountInv' <=> /\ Epochs' /\ InOrder' /\ OwnIndex' /\ LineIndex' /\ TornAt'
                /\ h'.pc # "flr" => NextIndex' /\ NoneYet'
<1>1. (\A c \in 0 .. h.next - 1 : DoneSo(c) => MayFollow(IndexOf(c), cmd[c].tears, c, cmd[c].epoch))' <=> InOrder'
  BY DEF InOrder, MayFollow
<1>2. (IF \E i \in DOMAIN io : IsWrite(io[i], "SEED")
       THEN \A c \in 0 .. h.next - 1 : cmd[c].epoch = h.epoch => ~DoneSo(c)
       ELSE MayFollow(m.gemm_ct - One(Started), h.tears + Slack, h.next, h.epoch))' <=> NextIndex' /\ NoneYet'
  BY DEF NextIndex, NoneYet, SeedOut, MayFollow
<1> QED BY <1>1, <1>2 DEF CountInv, Epochs, OwnIndex, LineIndex, TornAt

\* Command b ended done in epoch e.
DoneIn(b, e) == DoneSo(b) /\ cmd[b].epoch = e

\* Command b is the last below c to have.
LastIn(b, c, e) == b \in 0 .. c - 1 /\ DoneIn(b, e) /\ \A d \in 0 .. c - 1 : DoneIn(d, e) => d <= b

LEMMA FollowIs ==
  ASSUME NEW n, NEW t, NEW c, NEW e
  PROVE  MayFollow(n, t, c, e) <=>
           \/ (\A b \in 0 .. c - 1 : ~DoneIn(b, e)) /\ n \in 0 .. t
           \/ \E b \in 0 .. c - 1 : LastIn(b, c, e) /\ n - IndexOf(b) \in 1 .. 1 + t - cmd[b].tears
  BY DEF MayFollow, DoneIn, LastIn

LEMMA FollowIsNext ==
  ASSUME NEW n, NEW t, NEW c, NEW e
  PROVE  MayFollow(n, t, c, e)' <=>
           \/ (\A b \in 0 .. c - 1 : ~DoneIn(b, e)') /\ n \in 0 .. t
           \/ \E b \in 0 .. c - 1 : LastIn(b, c, e)' /\ n - IndexOf(b)' \in 1 .. 1 + t - cmd'[b].tears
  BY DEF MayFollow, DoneIn, LastIn

\* The same commands have ended done, and u allows for k indices more than t did.
LEMMA FollowKept ==
  ASSUME NEW n \in Int, NEW t \in Int, NEW c, NEW e, NEW k \in Nat, NEW u \in Int, NEW d, u >= t + k,
         \A b : b \in 0 .. c - 1 /\ DoneIn(b, e) <=> b \in 0 .. d - 1 /\ DoneIn(b, e)',
         \A b \in 0 .. c - 1 : DoneIn(b, e) =>
           /\ IndexOf(b)' = IndexOf(b) /\ cmd'[b].tears = cmd[b].tears
           /\ IndexOf(b) \in Int /\ cmd[b].tears \in Int,
         MayFollow(n, t, c, e)
  PROVE  MayFollow(n + k, u, d, e)'
<1>1. CASE (\A b \in 0 .. c - 1 : ~DoneIn(b, e)) /\ n \in 0 .. t
  <2>1. n + k \in 0 .. u
    BY <1>1
  <2>2. \A b \in 0 .. d - 1 : ~DoneIn(b, e)'
    BY <1>1
  <2> QED BY <2>1, <2>2, FollowIsNext
<1>2. ASSUME NEW b \in 0 .. c - 1, LastIn(b, c, e), n - IndexOf(b) \in 1 .. 1 + t - cmd[b].tears
      PROVE  MayFollow(n + k, u, d, e)'
  <2>1. DoneIn(b, e)
    BY <1>2 DEF LastIn
  <2>2. /\ b \in 0 .. d - 1 /\ DoneIn(b, e)' /\ IndexOf(b)' = IndexOf(b) /\ cmd'[b].tears = cmd[b].tears
        /\ IndexOf(b) \in Int /\ cmd[b].tears \in Int
    BY <2>1
  <2>3. LastIn(b, d, e)'
    <3>1. \A x \in 0 .. d - 1 : DoneIn(x, e)' => x <= b
      BY <1>2 DEF LastIn
    <3> QED BY <2>2, <3>1 DEF LastIn
  <2>4. n + k - IndexOf(b)' \in 1 .. 1 + u - cmd'[b].tears
    BY <1>2, <2>2
  <2> QED BY <2>2, <2>3, <2>4, FollowIsNext
<1> QED BY <1>1, <1>2, FollowIs

\* What the commands' indices are made of.
LEMMA IndexTyped ==
  ASSUME TypeOK, IndexInv
  PROVE  /\ \A b \in 0 .. h.next - 1 : IndexOf(b) \in Int /\ cmd[b].tears \in Nat /\ cmd[b].epoch \in Nat
         /\ h.tears \in Nat /\ h.epoch \in Nat /\ m.gemm_ct \in Nat
<1>1. /\ h.next \in Nat /\ h.hhead \in Nat /\ 0 .. h.next - 1 \subseteq Cmds
  BY Numbers
<1>2. ASSUME NEW b \in 0 .. h.next - 1 PROVE IndexOf(b) \in Int
  <2>1. b \in Cmds /\ ended[b] \in SlotLines
    BY <1>1 DEF TypeOK
  <2>2. slot[SlotOf(b)] \in SlotLines
    <3>1. SlotOf(b) \in 0 .. RingSize - 1
      BY SlotRange
    <3> QED BY <3>1 DEF TypeOK
  <2> QED BY <2>1, <2>2 DEF IndexOf, SlotLines
<1>3. \A b \in 0 .. h.next - 1 : cmd[b] \in Published
  BY <1>1 DEF TypeOK
<1>4. h \in HostStates /\ m \in ModuleStates
  BY DEF TypeOK
<1> QED BY <1>2, <1>3, <1>4 DEF Published, HostStates, ModuleStates

\* The step ends no command done, and none that was done otherwise.
SameDone ==
  /\ \A b \in 0 .. h.next - 1 :
       /\ DoneSo(b)' <=> DoneSo(b)
       /\ DoneSo(b) => IndexOf(b)' = IndexOf(b)
       /\ cmd'[b].tears = cmd[b].tears /\ cmd'[b].epoch = cmd[b].epoch
  /\ \A b \in 0 .. h'.next - 1 : DoneSo(b)' => b \in 0 .. h.next - 1
  /\ h'.next \in Nat /\ h'.next >= h.next

LEMMA InOrderSame ==
  ASSUME IInv, SameDone
  PROVE  InOrder'
<1>0. TypeOK /\ IndexInv /\ InOrder
  BY CountParts DEF IInv
<1>n. h.next \in Nat
  BY <1>0, Numbers
<1> SUFFICES ASSUME NEW c \in 0 .. h'.next - 1, NEW n, NEW t, NEW e,
                    DoneSo(c)' /\ n = IndexOf(c)' /\ t = cmd'[c].tears /\ e = cmd'[c].epoch
             PROVE  MayFollow(n, t, c, e)'
  BY DEF InOrder
<1>1. c \in 0 .. h.next - 1
  BY DEF SameDone
<1>2. DoneSo(c) /\ n = IndexOf(c) /\ t = cmd[c].tears /\ e = cmd[c].epoch
  BY <1>1 DEF SameDone
<1>3. MayFollow(n, t, c, e) /\ n \in Int /\ t \in Int
  BY <1>0, <1>1, <1>2, IndexTyped DEF InOrder
<1>4. 0 .. c - 1 \subseteq 0 .. h.next - 1
  BY <1>1, <1>n
<1>5. \A b \in 0 .. c - 1 : DoneIn(b, e) <=> DoneIn(b, e)'
  BY <1>4 DEF SameDone, DoneIn
<1>6. \A b \in 0 .. c - 1 : DoneIn(b, e) =>
           /\ IndexOf(b)' = IndexOf(b) /\ cmd'[b].tears = cmd[b].tears
           /\ IndexOf(b) \in Int /\ cmd[b].tears \in Int
  BY <1>0, <1>4, IndexTyped DEF SameDone, DoneIn
<1>7. PICK k \in Nat : k = 0
  OBVIOUS
<1>8. t >= t + k /\ n + k = n
  BY <1>3, <1>7
<1>9. \A b : b \in 0 .. c - 1 /\ DoneIn(b, e) <=> b \in 0 .. c - 1 /\ DoneIn(b, e)'
  BY <1>5
<1>10. MayFollow(n + k, t, c, e)'
  BY <1>3, <1>6, <1>8, <1>9, FollowKept
<1> QED BY <1>8, <1>10

LEMMA NextSame ==
  ASSUME IInv, SameDone, h'.epoch = h.epoch, h.pc # "flr", SeedOut' <=> SeedOut, NEW k \in Nat,
         m'.gemm_ct - One(Started') = m.gemm_ct - One(Started) + k,
         h'.tears + Slack' \in Int, h'.tears + Slack' >= h.tears + Slack + k
  PROVE  NextIndex' /\ NoneYet'
<1>0. TypeOK /\ IndexInv /\ NextIndex /\ NoneYet
  BY CountParts DEF IInv
<1>n. h.next \in Nat /\ h.tears \in Nat /\ h.epoch \in Nat /\ m.gemm_ct \in Nat
  BY <1>0, Numbers, IndexTyped
<1>s. One(Started) \in Nat /\ Slack \in Nat
  BY DEF One, Slack
<1>1. NoneYet'
  BY <1>0 DEF NoneYet, SameDone
<1>2. NextIndex'
  <2> SUFFICES ASSUME NEW n, NEW t, NEW c, NEW e, ~SeedOut', n = m'.gemm_ct - One(Started'), t = h'.tears + Slack',
                      c = h'.next, e = h'.epoch
               PROVE  MayFollow(n, t, c, e)'
    BY DEF NextIndex
  <2>1. PICK n0, t0, c0 : n0 = m.gemm_ct - One(Started) /\ t0 = h.tears + Slack /\ c0 = h.next
    OBVIOUS
  <2>2. MayFollow(n0, t0, c0, e) /\ n0 \in Int /\ t0 \in Int /\ t \in Int /\ t >= t0 + k /\ n = n0 + k
    BY <1>0, <1>n, <1>s, <2>1 DEF NextIndex
  <2>3. \A b : b \in 0 .. c0 - 1 /\ DoneIn(b, e) <=> b \in 0 .. c - 1 /\ DoneIn(b, e)'
    <3>1. 0 .. c0 - 1 \subseteq 0 .. c - 1
      BY <1>n, <2>1 DEF SameDone
    <3> QED BY <2>1, <3>1 DEF SameDone, DoneIn
  <2>4. \A b \in 0 .. c0 - 1 : DoneIn(b, e) =>
           /\ IndexOf(b)' = IndexOf(b) /\ cmd'[b].tears = cmd[b].tears
           /\ IndexOf(b) \in Int /\ cmd[b].tears \in Int
    BY <1>0, <2>1, IndexTyped DEF SameDone, DoneIn
  <2>5. MayFollow(n0 + k, t, c, e)'
    BY <2>2, <2>3, <2>4, FollowKept
  <2> QED BY <2>2, <2>5
<1> QED BY <1>1, <1>2

-----------------------------------------------------------------------------
(* The indices: what arrives at the module. *)

\* The arrivals that change the number of the next GEMM.
LEMMA GemmKept ==
  ASSUME IInv, ArriveSteps
  PROVE  m'.gemm_ct = m.gemm_ct \/ TakeSeed \/ TakeFlr \/ StartGemm
<1>0. TypeOK /\ ModuleInv /\ AskedInv /\ StartInv /\ QuietInv /\ IndexInv /\ StatusInv /\ OrderInv
  BY DEF IInv, ModuleInv
<1>t. m \in ModuleStates
  BY <1>0 DEF TypeOK
<1>1. CASE Ignored \/ SameQueue \/ Answer \/ (\E s \in Failed : EndsEarly(s)) \/ Operands \/ OneOrdered \/ LastOrdered
  BY <1>1, <1>t DEF Ignored, SameQueue, Answer, EndsEarly, Operands, OneOrdered, LastOrdered, ModuleStates
<1>2. CASE SetRing \/ SetIrqAt \/ Wedge \/ TailOff
  BY <1>0, <1>2, RegisterIs
<1>3. CASE StartQueue \/ StopQueue \/ TailOn \/ Dropped \/ NextSlot
  BY <1>0, <1>3, StartQueueIs, StopQueueIs, TailOnIs, DroppedIs, NextSlotIs
<1>4. ~TailBad
  BY <1>0, NoTailBad
<1> QED BY <1>1, <1>2, <1>3, <1>4 DEF ArriveSteps

\* No arrival ends a command as the host sees it.
LEMMA ArriveSame ==
  ASSUME IInv, ArriveSteps
  PROVE  /\ SameDone /\ h' = h /\ Live' = Live
         /\ \A c : (DoneSo(c)' <=> DoneSo(c)) /\ Status(c)' = Status(c)
<1>1. UNCHANGED <<script, slot, res, cmd, ended, h>>
  BY ArriveKeeps
<1>2. h.next \in Nat
  BY Numbers DEF IInv
<1>3. \A c : /\ DoneSo(c)' <=> DoneSo(c)
             /\ Status(c)' = Status(c) /\ IndexOf(c)' = IndexOf(c)
  BY <1>1 DEF DoneSo, IndexOf, Status
<1> QED BY <1>1, <1>2, <1>3 DEF SameDone, Live

\* The seed arrives at a module that has nothing to do.
LEMMA TakeSeedIs ==
  ASSUME IInv, TakeSeed
  PROVE  /\ GDone /\ g' = g /\ wire' = wire /\ m'.gemm_ct = 0 /\ m'.head = m.head /\ m'.enable = m.enable
         /\ \A l \in wire : l.op # "ItoMWr"
<1>0. TypeOK /\ ModuleInv /\ AskedInv /\ StartInv /\ QuietInv /\ IndexInv /\ SeedInv
  BY DEF IInv, ModuleInv
<1>1. g' = g /\ wire' = wire /\ m'.gemm_ct = 0 /\ m'.head = m.head /\ m'.enable = m.enable
  BY <1>0, RegisterIs DEF TakeSeed
<1>2. Pop /\ IsWrite(Msg, "SEED") /\ Msg = io[1] /\ 1 \in DOMAIN io
  BY <1>0, PopShifts DEF TakeSeed, Shifted
<1>3. SeedFirst(1)
  BY <1>0, <1>2, SeedParts DEF SeedAll
<1>4. ~\E j \in DOMAIN io : IsRecord(io[j])
  <2>1. \A j \in 2 .. Len(io) : ~IsRecord(io[j])
    BY <1>3 DEF SeedFirst
  <2>2. ~IsRecord(io[1])
    BY <1>2 DEF IsRecord, IsWrite
  <2>3. \A j \in DOMAIN io : j = 1 \/ j \in 2 .. Len(io)
    BY <1>0 DEF TypeOK
  <2> QED BY <2>1, <2>2, <2>3
<1>5. CASE m.enable
  <2>1. m.tail <= m.head
    <3> DEFINE a == One(\E j \in DOMAIN io : IsRecord(io[j]))
    <3>1. m.tail <= m.head + a
      BY <1>3, <1>5 DEF SeedFirst
    <3>2. a = 0
      BY <1>4 DEF One
    <3> HIDE DEF a
    <3>3. m.head \in Nat /\ m.tail \in Nat
      BY <1>0, Numbers
    <3> QED BY <3>1, <3>2, <3>3
  <2>2. ~m.busy
    <3>1. m.head \in Nat /\ m.tail \in Nat /\ m.head <= m.tail
      BY <1>0, <1>5, Numbers
    <3>2. m.busy <=> m.head # m.tail
      BY <1>0, <1>5, IndexParts DEF Enabled
    <3> QED BY <2>1, <3>1, <3>2
  <2>3. GDone /\ m.inflight = 0
    BY <1>0, <1>5, <2>2 DEF ModuleInv, StageInv, Stopped, Waiting, Wedged, Fetching, Loading, Shooting, Recording
  <2> QED BY <1>1, <2>3, WritesOut
<1>6. CASE ~m.enable
  <2>1. GDone
    BY <1>0, <1>6 DEF ModuleInv, StageInv, Stopped, Waiting, Wedged, Fetching, Loading, Shooting, Recording
  <2>2. Working \/ Stopping
    BY <1>0, <1>2, WriteMeans DEF IsWrite
  <2>3. ~m.enabled
    BY <1>0, <1>6, <2>2 DEF StartInv
  <2> QED BY <1>1, <1>6, <2>1, <2>3, WritesOut
<1> QED BY <1>5, <1>6

LEMMA OwnIndexArrive ==
  ASSUME IInv, ArriveSteps
  PROVE  OwnIndex'
<1>0. TypeOK /\ ModuleInv /\ AskedInv /\ QuietInv /\ OwnIndex
  BY CountParts DEF IInv, ModuleInv
<1>1. cmd' = cmd
  BY ArriveKeeps
<1>2. CASE StartGemm
  BY <1>2, StartGemmIs DEF OwnIndex
<1>3. CASE StopQueue
  BY <1>0, <1>3, StopQueueIs DEF OwnIndex, GDone, Idle
<1>4. CASE Operands
  BY <1>0, <1>4, OperandsIs DEF OwnIndex
<1>5. CASE OneOrdered
  BY <1>0, <1>5, OneOrderedIs DEF OwnIndex
<1>6. CASE LastOrdered
  BY <1>6, LastOrderedIs DEF OwnIndex
<1>7. CASE g' = g /\ ~StartGemm
  <2>1. GDone' <=> GDone
    BY <1>1, <1>7 DEF GDone
  <2>2. CASE m'.gemm_ct = m.gemm_ct
    BY <1>0, <1>7, <2>1, <2>2 DEF OwnIndex
  <2>3. CASE TakeSeed
    BY <2>1, <2>3, TakeSeedIs DEF OwnIndex
  <2>4. CASE TakeFlr
    <3>1. m.wedged
      BY <1>0, <2>4, TakeFlrIs
    <3>2. GDone
      BY <1>0, <3>1 DEF ModuleInv, StageInv, Stopped, Waiting, Wedged, Fetching, Loading, Shooting, Recording
    <3> QED BY <2>1, <3>2 DEF OwnIndex
  <2> QED BY <1>7, <2>2, <2>3, <2>4, GemmKept
<1> QED BY <1>2, <1>3, <1>4, <1>5, <1>6, <1>7, WorkKept

LEMMA LineIndexArrive ==
  ASSUME IInv, ArriveSteps
  PROVE  LineIndex'
<1>0. TypeOK /\ ModuleInv /\ AskedInv /\ QuietInv /\ LineIndex /\ OwnIndex
  BY CountParts DEF IInv, ModuleInv
<1>1. CASE NextSlot \/ StartQueue
  BY <1>1, NothingWritten DEF LineIndex
<1>2. CASE StartGemm
  BY <1>2, StartGemmIs DEF LineIndex
<1>3. CASE TakeSeed
  BY <1>3, TakeSeedIs DEF LineIndex
<1>4. CASE TakeFlr
  BY <1>0, <1>4, TakeFlrIs DEF LineIndex
<1>5. ASSUME NEW s \in Failed, EndsEarly(s) PROVE LineIndex'
  <2>1. PICK x \in Records("ItoMWr") :
           /\ wire' = wire \cup {x} /\ x.idx = m.head /\ x.status = s /\ m'.head = m.head
           /\ \A l \in wire : l.op # "ItoMWr"
    BY <1>5, EndsEarlyIs
  <2>2. s # "done"
    BY DEF Failed
  <2> QED BY <2>1, <2>2 DEF LineIndex
<1>6. CASE LastOrdered
  <2>1. PICK x \in Records("ItoMWr") :
           /\ wire' = wire \cup {x} /\ x.idx = m.head /\ x.index = g.index /\ m'.head = m.head
           /\ ~GDone /\ m'.gemm_ct = m.gemm_ct
           /\ \A l \in wire : l.op # "ItoMWr"
    BY <1>6, LastOrderedIs
  <2> QED BY <1>0, <2>1 DEF LineIndex, OwnIndex
<1>7. CASE /\ ~NextSlot /\ ~StartQueue /\ ~StartGemm /\ ~TakeSeed /\ ~TakeFlr /\ ~LastOrdered
           /\ ~\E s \in Failed : EndsEarly(s)
  <2>1. m'.head = m.head /\ m'.gemm_ct = m.gemm_ct
    BY <1>7, ArriveKeeps, GemmKept
  <2>2. \A l \in wire' : l \in wire \/ l.op = "RdCurr"
    BY <1>7, WireGrows
  <2> QED BY <1>0, <2>1, <2>2 DEF LineIndex
<1> QED BY <1>1, <1>2, <1>3, <1>4, <1>5, <1>6, <1>7

\* A teardown drops what the module is on when the disable arrives, and not before.
LEMMA ArriveTorn ==
  ASSUME IInv, ArriveSteps
  PROVE  /\ Torn => Torn' /\ m'.head = m.head
         /\ Torn' => (Torn \/ StopQueue) /\ m'.head = m.head
<1>0. TypeOK /\ ModuleInv /\ AskedInv /\ QuietInv /\ StartInv /\ IndexInv /\ StatusInv
  BY DEF IInv, ModuleInv
<1>1. Pop /\ Shifted /\ h' = h
  BY ArriveKeeps
<1>2. h.pc \in {"status", "head"} => ~TakeFlr
  BY <1>0, TakeFlrIs
<1>3. /\ NextSlot => m.enable /\ m'.enable
      /\ StartQueue => ~m.enable /\ m'.enable /\ Starts(Msg)
      /\ StopQueue => m.enable
  BY <1>0, NextSlotIs, StartQueueIs, StopQueueIs
<1>4. Msg = io[1] /\ 1 \in DOMAIN io
  BY <1>1 DEF Shifted
<1>5. ASSUME Torn PROVE Torn' /\ m'.head = m.head
  <2>1. ~m.enable /\ ~Starting /\ h.pc \in {"status", "head"}
    BY <1>5 DEF Torn
  <2>2. ~StartQueue
    BY <1>3, <1>4, <2>1 DEF Starting
  <2>3. m'.enable = m.enable /\ m'.head = m.head
    BY <1>2, <1>3, <2>1, <2>2, ArriveKeeps
  <2>4. ~Starting'
    BY <2>1, ArriveStarting
  <2> QED BY <1>1, <2>1, <2>3, <2>4 DEF Torn
<1>6. ASSUME Torn' PROVE (Torn \/ StopQueue) /\ m'.head = m.head
  <2>1. ~m'.enable /\ ~Starting' /\ h.pc \in {"status", "head"}
    BY <1>1, <1>6 DEF Torn
  <2>2. m'.head = m.head
    BY <1>2, <1>3, <2>1, ArriveKeeps
  <2>3. CASE ~StopQueue
    <3>1. ~m.enable
      BY <1>2, <1>3, <2>1, <2>3, ArriveKeeps
    <3>2. ASSUME Starting PROVE FALSE
      <4>1. PICK i \in DOMAIN io : Starts(io[i])
        BY <3>2 DEF Starting
      <4>2. CASE i # 1
        BY <1>1, <2>1, <4>1, <4>2 DEF Shifted, Starting
      <4>3. CASE i = 1
        <5>1. Starts(Msg)
          BY <1>4, <4>1, <4>3
        <5>2. ~m.wedged
          BY <1>0, <3>1 DEF ModuleInv, StageInv, Stopped, Waiting, Wedged, Fetching, Loading, Shooting, Recording
        <5>3. StartQueue
          BY <3>1, <5>1, <5>2
             DEF ArriveSteps, Ignored, StartQueue, StopQueue, SameQueue, TailOff, TailOn, TailBad,
                 SetRing, SetIrqAt, TakeSeed, Answer, Wedge, EndsEarly, StartGemm, Operands, Dropped, TakeFlr,
                 NextSlot, OneOrdered, LastOrdered, IsDescriptor, IsWrite, Stops, Starts, IsRecord
        <5> QED BY <1>3, <2>1, <5>3
      <4> QED BY <4>2, <4>3
    <3> QED BY <2>1, <2>2, <3>1, <3>2 DEF Torn
  <2> QED BY <2>2, <2>3
<1> QED BY <1>5, <1>6

LEMMA TornAtArrive ==
  ASSUME IInv, ArriveSteps
  PROVE  TornAt'
<1>0. TypeOK /\ ModuleInv /\ IndexInv /\ StatusInv /\ TornAt /\ PendingPast
  BY CountParts, StatusParts DEF IInv, ModuleInv
<1>1. Live' = Live /\ \A c : Status(c)' = Status(c)
  BY ArriveSame
<1>2. CASE ~Torn'
  BY <1>2 DEF TornAt
<1>3. CASE Torn' /\ Torn
  BY <1>0, <1>1, <1>3, ArriveTorn DEF TornAt
<1>4. CASE Torn' /\ StopQueue
  <2>1. m.enable /\ m'.head = m.head
    BY <1>0, <1>4, StopQueueIs
  <2>2. m.head \in Nat /\ \A c \in Live : c \in Nat
    BY <1>0, Numbers, LiveSlots
  <2>3. \A c \in Live : (c < m.head => Status(c) # Pending) /\ (c > m.head => Status(c) = Pending)
    BY <1>0, <2>1, <2>2 DEF PendingPast
  <2> QED BY <1>1, <2>1, <2>3 DEF TornAt
<1> QED BY <1>2, <1>3, <1>4, ArriveTorn

\* The seed is on its way until it is taken.
LEMMA SeedOutArrive ==
  ASSUME IInv, ArriveSteps
  PROVE  /\ SeedOut' => SeedOut
         /\ ~TakeSeed => (SeedOut' <=> SeedOut)
         /\ TakeSeed => SeedOut
<1>0. TypeOK /\ SeedInv
  BY DEF IInv
<1>1. Shifted
  BY ArriveKeeps
<1>2. SeedOut' => SeedOut
  BY <1>1 DEF SeedOut, Shifted
<1>3. ASSUME SeedOut, ~TakeSeed PROVE SeedOut'
  <2>1. PICK i \in DOMAIN io : IsWrite(io[i], "SEED")
    BY <1>3 DEF SeedOut
  <2>2. i # 1
    <3> SUFFICES ASSUME i = 1 PROVE FALSE
      OBVIOUS
    <3>1. IsWrite(Msg, "SEED")
      BY <1>1, <2>1 DEF Shifted
    <3>2. ~m.wedged
      BY <1>0, <2>1, SeedParts DEF SeedAll, SeedFirst
    <3> QED BY <1>3, <3>1, <3>2, RegTaken
  <2> QED BY <1>1, <2>1, <2>2 DEF SeedOut, Shifted
<1>4. TakeSeed => SeedOut
  BY <1>1 DEF TakeSeed, SeedOut, Shifted
<1> QED BY <1>2, <1>3, <1>4

\* One GEMM started is counted once.
LEMMA StartedArrive ==
  ASSUME IInv, ArriveSteps, ~TakeSeed, ~TakeFlr, ~(StopQueue /\ ~GDone)
  PROVE  /\ m'.gemm_ct - One(Started') = m.gemm_ct - One(Started)
         /\ ~m.enable => (Started' <=> Started)
<1>0. TypeOK /\ ModuleInv /\ AskedInv /\ QuietInv
  BY DEF IInv, ModuleInv
<1>1. cmd' = cmd /\ wire \subseteq wire'
  BY ArriveKeeps, WireGrows
<1>2. m.gemm_ct \in Nat
  <2>1. m \in ModuleStates
    BY <1>0 DEF TypeOK
  <2> QED BY <2>1 DEF ModuleStates
<1>3. CASE StartGemm
  <2>1. ~Started /\ Started' /\ m'.gemm_ct = m.gemm_ct + 1 /\ m.enable
    BY <1>1, <1>3, StartGemmIs DEF Started
  <2> DEFINE a == One(Started)
             b == One(Started')
  <2>2. a = 0 /\ b = 1
    BY <2>1 DEF One
  <2> HIDE DEF a, b
  <2>3. m'.gemm_ct - b = m.gemm_ct - a
    BY <1>2, <2>1, <2>2
  <2> QED BY <2>1, <2>3 DEF a, b
<1>4. CASE LastOrdered
  <2>1. PICK x \in Records("ItoMWr") :
           /\ wire' = wire \cup {x} /\ x.status = "done" /\ ~GDone /\ m'.gemm_ct = m.gemm_ct /\ m.enable
    BY <1>4, LastOrderedIs
  <2>2. x.op = "ItoMWr" /\ x.what = "rec" /\ x \in wire'
    BY <2>1 DEF Records
  <2>3. Started /\ Started'
    BY <2>1, <2>2 DEF Started
  <2> QED BY <2>1, <2>3 DEF One
<1>5. CASE Operands \/ OneOrdered
  <2>1. Started /\ Started' /\ m'.gemm_ct = m.gemm_ct /\ m.enable
    BY <1>5, OperandsIs, OneOrderedIs DEF Started
  <2> QED BY <2>1 DEF One
<1>6. ASSUME NEW s \in Failed, EndsEarly(s)
      PROVE  m'.gemm_ct - One(Started') = m.gemm_ct - One(Started) /\ m.enable
  <2>1. PICK x \in Records("ItoMWr") :
           /\ wire' = wire \cup {x} /\ x.status = s /\ g' = g /\ m'.gemm_ct = m.gemm_ct /\ m.enable /\ GDone
           /\ \A l \in wire : l.op # "ItoMWr"
    BY <1>6, EndsEarlyIs
  <2>2. s # "done"
    BY DEF Failed
  <2>3. GDone'
    BY <1>1, <2>1 DEF GDone
  <2>4. ~Started /\ ~Started'
    BY <2>1, <2>2, <2>3 DEF Started
  <2> QED BY <2>1, <2>4 DEF One
<1>7. CASE StopQueue
  <2>1. GDone /\ GDone' /\ wire' = wire /\ m'.gemm_ct = m.gemm_ct /\ m.enable
    BY <1>0, <1>7, StopQueueIs DEF GDone, Idle
  <2>2. Started' <=> Started
    BY <2>1 DEF Started
  <2> QED BY <2>1, <2>2 DEF One
<1>8. CASE /\ ~StartGemm /\ ~LastOrdered /\ ~Operands /\ ~OneOrdered /\ ~StopQueue
           /\ ~\E s \in Failed : EndsEarly(s)
  <2>1. g' = g /\ m'.gemm_ct = m.gemm_ct
    BY <1>8, WorkKept, GemmKept
  <2>2. \A l \in wire' : l \in wire \/ l.op = "RdCurr"
    BY <1>8, WireGrows
  <2>3. GDone' <=> GDone
    BY <1>1, <2>1 DEF GDone
  <2>4. Started' <=> Started
    BY <1>1, <2>2, <2>3 DEF Started
  <2> QED BY <2>1, <2>4 DEF One
<1> QED BY <1>3, <1>4, <1>5, <1>6, <1>7, <1>8

\* A running GEMM is dropped: its index is used up.
LEMMA DropsGemm ==
  ASSUME IInv, StopQueue, ~GDone, h.pc # "flr"
  PROVE  /\ m'.gemm_ct = m.gemm_ct /\ One(Started) = 1 /\ One(Started') = 0
         /\ Slack = 0 /\ Slack' = 1
<1>0. TypeOK /\ ModuleInv /\ AskedInv /\ QuietInv /\ StatusInv /\ IndexInv /\ ResultInv /\ Running /\ PendingPast
  BY ResultParts, StatusParts DEF IInv, ModuleInv
<1>a. ArriveSteps
  BY DEF ArriveSteps
<1>1. /\ Pop /\ Stops(Msg) /\ wire' = wire /\ g' = Idle /\ m.enable /\ ~m'.enable
      /\ m'.gemm_ct = m.gemm_ct /\ m'.head = m.head
  BY <1>0, StopQueueIs
<1>2. GDone'
  BY <1>1 DEF GDone, Idle
<1>3. ~Out(0)
  BY <1>0 DEF ModuleInv, StageInv, ErrandInv, Stopped, Waiting, Wedged, Fetching, Loading, Shooting, Recording,
              One
<1>4. \A l \in wire : ~(l.op = "ItoMWr" /\ l.what = "rec")
  <2> SUFFICES ASSUME NEW l \in wire, l.op = "ItoMWr", l.what = "rec" PROVE FALSE
    OBVIOUS
  <2> QED BY <1>3, WritesOut
<1>5. Started /\ ~Started'
  BY <1>1, <1>2, <1>4 DEF Started
<1>6. ~DoneSo(m.head)
  <2>1. m.head \in Live /\ m.head \in Nat /\ h.hhead \in Nat
    BY <1>0, Numbers DEF Running
  <2>2. ~RecordBack
    BY <1>3, RecordOut DEF RecordBack
  <2>3. Status(m.head) = Pending
    BY <1>0, <1>1, <2>1, <2>2 DEF PendingPast
  <2>4. ~(m.head < h.hhead)
    BY <2>1 DEF Live
  <2> QED BY <2>3, <2>4 DEF DoneSo, Pending
<1>7. ~DoneSo(m.head)'
  <2>1. PICK c : c = m.head
    OBVIOUS
  <2>2. ~DoneSo(c)'
    BY <1>a, <1>6, <2>1, ArriveSame
  <2> QED BY <1>1, <2>1, <2>2
<1>8. h' = h /\ h.pc \in {"status", "head"}
  <2>1. Msg = io[1] /\ 1 \in DOMAIN io
    BY <1>0, <1>1, PopShifts DEF Shifted
  <2>2. ~Working
    BY <1>0, <1>1, <2>1 DEF AskedInv
  <2>3. h \in HostStates
    BY <1>0 DEF TypeOK
  <2> QED BY <1>1, <2>2, <2>3 DEF Working, HostStates, Pop
<1>9. Torn'
  <2>1. ~Starting'
    BY <1>a, <1>1, ArriveStarting
  <2> QED BY <1>1, <1>8, <2>1 DEF Torn
<1>10. ~Torn
  BY <1>1 DEF Torn
<1> QED BY <1>1, <1>5, <1>7, <1>9, <1>10 DEF Slack, One

LEMMA NextIndexArrive ==
  ASSUME IInv, ArriveSteps, h.pc # "flr"
  PROVE  NextIndex' /\ NoneYet'
<1>0. TypeOK /\ ModuleInv /\ AskedInv /\ QuietInv /\ IndexInv /\ NoneYet
  BY CountParts DEF IInv, ModuleInv
<1>1. SameDone /\ h' = h /\ \A c : DoneSo(c)' <=> DoneSo(c)
  BY ArriveSame
<1>2. h.tears \in Nat /\ m.gemm_ct \in Nat /\ Slack \in Nat /\ Slack' \in Nat /\ One(Started) \in Nat
  BY <1>0, IndexTyped DEF Slack, One
<1>3. ~TakeFlr
  BY <1>0, TakeFlrIs
<1>4. CASE TakeSeed
  <2>1. SeedOut
    BY <1>4, SeedOutArrive
  <2>2. \A c \in 0 .. h.next - 1 : cmd[c].epoch = h.epoch => ~DoneSo(c)
    BY <1>0, <2>1 DEF NoneYet
  <2>3. cmd' = cmd
    BY ArriveKeeps
  <2>4. NoneYet'
    BY <1>1, <2>2, <2>3 DEF NoneYet
  <2>5. One(Started') = 0 /\ m'.gemm_ct = 0
    <3>1. GDone /\ g' = g /\ wire' = wire /\ m'.gemm_ct = 0 /\ \A l \in wire : l.op # "ItoMWr"
      BY <1>4, TakeSeedIs
    <3>2. GDone'
      BY <2>3, <3>1 DEF GDone
    <3>3. ~Started'
      BY <3>1, <3>2 DEF Started
    <3> QED BY <3>1, <3>3 DEF One
  <2>6. NextIndex'
    <3> SUFFICES ASSUME NEW n, NEW t, NEW c, NEW e, n = m'.gemm_ct - One(Started'), t = h'.tears + Slack',
                      c = h'.next, e = h'.epoch
                 PROVE  MayFollow(n, t, c, e)'
      BY DEF NextIndex
    <3>1. n = 0 /\ t \in Nat
      BY <1>1, <1>2, <2>5
    <3>2. \A b \in 0 .. c - 1 : ~DoneIn(b, e)'
      BY <1>1, <2>2, <2>3 DEF DoneIn
    <3>3. n \in 0 .. t
      BY <3>1
    <3> QED BY <3>2, <3>3, FollowIsNext
  <2> QED BY <2>4, <2>6
<1>5. CASE StopQueue /\ ~GDone
  <2>1. /\ m'.gemm_ct = m.gemm_ct /\ One(Started) = 1 /\ One(Started') = 0
        /\ Slack = 0 /\ Slack' = 1
    BY <1>5, DropsGemm
  <2>2. ~TakeSeed
    BY <1>5 DEF StopQueue, TakeSeed, Stops, IsWrite
  <2>3. SeedOut' <=> SeedOut
    BY <2>2, SeedOutArrive
  <2>4. PICK k \in Nat : k = 1
    OBVIOUS
  <2>5. /\ m'.gemm_ct - One(Started') = m.gemm_ct - One(Started) + k
        /\ h'.tears + Slack' \in Int /\ h'.tears + Slack' >= h.tears + Slack + k
    BY <1>1, <1>2, <2>1, <2>4
  <2>6. h'.epoch = h.epoch
    BY <1>1
  <2> QED BY <1>1, <2>3, <2>5, <2>6, NextSame
<1>6. CASE ~TakeSeed /\ ~(StopQueue /\ ~GDone)
  <2>1. /\ m'.gemm_ct - One(Started') = m.gemm_ct - One(Started)
        /\ ~m.enable => (Started' <=> Started)
    BY <1>3, <1>6, StartedArrive
  <2>2. SeedOut' <=> SeedOut
    BY <1>6, SeedOutArrive
  <2>3. Slack' >= Slack
    <3>1. CASE Torn /\ ~Started /\ ~DoneSo(m.head)
      <4>1. Torn' /\ m'.head = m.head /\ ~Started'
        BY <2>1, <3>1, ArriveTorn DEF Torn
      <4>2. PICK c : c = m.head
        OBVIOUS
      <4>3. ~DoneSo(c)'
        BY <1>1, <3>1, <4>2
      <4>4. ~DoneSo(m.head)'
        BY <4>1, <4>2, <4>3
      <4> QED BY <1>2, <4>1, <4>4 DEF Slack, One
    <3>2. CASE ~(Torn /\ ~Started /\ ~DoneSo(m.head))
      <4>1. Slack = 0
        BY <3>2 DEF Slack, One
      <4> QED BY <1>2, <4>1
    <3> QED BY <3>1, <3>2
  <2>4. PICK k \in Nat : k = 0
    OBVIOUS
  <2>5. /\ m'.gemm_ct - One(Started') = m.gemm_ct - One(Started) + k
        /\ h'.tears + Slack' \in Int /\ h'.tears + Slack' >= h.tears + Slack + k
    BY <1>1, <1>2, <2>1, <2>3, <2>4
  <2>6. h'.epoch = h.epoch
    BY <1>1
  <2> QED BY <1>1, <2>2, <2>5, <2>6, NextSame
<1> QED BY <1>4, <1>5, <1>6

LEMMA CountArrive ==
  ASSUME IInv, ArriveSteps
  PROVE  CountInv'
<1>1. Epochs
  BY CountParts DEF IInv
<1>2. h' = h /\ cmd' = cmd
  BY ArriveKeeps
<1>3. Epochs'
  BY <1>1, <1>2 DEF Epochs
<1>4. InOrder'
  BY ArriveSame, InOrderSame
<1>5. h'.pc # "flr" => NextIndex' /\ NoneYet'
  BY <1>2, NextIndexArrive
<1> QED BY <1>3, <1>4, <1>5, OwnIndexArrive, LineIndexArrive, TornAtArrive, CountPartsNext

-----------------------------------------------------------------------------
(* The indices: results and records on their way. *)

\* What the host knows of its commands is as it was.
LEMMA SameSlots ==
  ASSUME IInv, UNCHANGED <<slot, cmd, ended>>, h'.next = h.next, h'.hhead = h.hhead
  PROVE  /\ SameDone /\ Live' = Live
         /\ \A c : (DoneSo(c)' <=> DoneSo(c)) /\ Status(c)' = Status(c)
<1>1. h.next \in Nat
  BY Numbers DEF IInv
<1>2. \A c : /\ DoneSo(c)' <=> DoneSo(c)
             /\ Status(c)' = Status(c) /\ IndexOf(c)' = IndexOf(c)
  BY DEF DoneSo, IndexOf, Status
<1> QED BY <1>1, <1>2 DEF SameDone, Live

\* So is what the module is to give as the next index.
LEMMA SameNext ==
  ASSUME IInv, SameDone, h'.epoch = h.epoch, h'.tears = h.tears, h.pc # "flr", SeedOut' <=> SeedOut,
         m'.gemm_ct = m.gemm_ct, Started' <=> Started, Slack' >= Slack
  PROVE  NextIndex' /\ NoneYet'
<1>1. h.tears \in Nat /\ m.gemm_ct \in Nat /\ Slack \in Nat /\ Slack' \in Nat
  BY IndexTyped DEF Slack, One, IInv
<1> DEFINE a == One(Started)
           b == One(Started')
<1>2. a = b /\ a \in Nat
  BY DEF One
<1> HIDE DEF a, b
<1>3. PICK k \in Nat : k = 0
  OBVIOUS
<1>4. m'.gemm_ct - b = m.gemm_ct - a + k
  BY <1>1, <1>2, <1>3
<1>5. h'.tears + Slack' \in Int /\ h'.tears + Slack' >= h.tears + Slack + k
  BY <1>1, <1>3
<1> QED BY <1>4, <1>5, NextSame DEF a, b

LEMMA CountShot == ASSUME IInv, Shot PROVE CountInv'
<1>0. TypeOK /\ Epochs /\ OwnIndex /\ LineIndex /\ (h.pc # "flr" => NextIndex /\ NoneYet)
  BY CountParts DEF IInv
<1>1. PICK x \in Results("ItoMWr") :
           /\ wire' = wire \cup {x} /\ x.idx = m.head
           /\ m.enable /\ Shooting /\ ~GDone
           /\ m'.enable = m.enable /\ m'.head = m.head /\ m'.gemm_ct = m.gemm_ct
           /\ g'.pc = g.pc /\ g'.sent = g.sent + 1 /\ g'.ordered = g.ordered /\ g'.cmd = g.cmd
           /\ g'.index = g.index
           /\ UNCHANGED <<script, io, up, slot, res, cmd, ended, h>>
  BY ShotIs
<1>2. x.what = "res"
  BY DEF Results
<1>3. SameDone
  BY <1>1, SameSlots
<1>4. ~Torn /\ ~Torn'
  BY <1>1 DEF Torn
<1>5. ~GDone'
  <2>1. g.ordered < OutLines(cmd[g.cmd].kind) /\ g.ordered \in Nat
    <3>1. g \in Works
      BY <1>0 DEF TypeOK
    <3> QED BY <1>1, <3>1 DEF Shooting, Works
  <2>2. OutLines(cmd[g.cmd].kind) \in 1 .. 2
    BY LinesOf
  <2>3. g'.ordered # OutLines(cmd[g.cmd].kind)
    BY <1>1, <2>1, <2>2
  <2>4. g'.pc = "shots"
    BY <1>1 DEF Shooting
  <2> QED BY <1>1, <2>3, <2>4 DEF GDone
<1>6. Epochs' /\ OwnIndex' /\ LineIndex' /\ TornAt'
  BY <1>0, <1>1, <1>2, <1>4 DEF Epochs, OwnIndex, LineIndex, TornAt
<1>7. h'.pc # "flr" => NextIndex' /\ NoneYet'
  <2>1. Slack = 0 /\ Slack' = 0
    BY <1>4 DEF Slack, One
  <2>2. Slack' >= Slack
    BY <2>1
  <2>3. Started /\ Started'
    BY <1>1, <1>5 DEF Started
  <2>4. SeedOut' <=> SeedOut
    BY <1>1 DEF SeedOut
  <2> QED BY <1>1, <1>3, <2>2, <2>3, <2>4, SameNext
<1> QED BY <1>3, <1>6, <1>7, InOrderSame, CountPartsNext

\* A line that is no record reaches the host.
LEMMA CountLine ==
  ASSUME IInv, NEW l \in wire, Land(l) \/ AtHost(l), ~(Land(l) /\ l.what = "rec")
  PROVE  CountInv'
<1>0. TypeOK /\ Epochs /\ OwnIndex /\ LineIndex /\ TornAt
  BY CountParts DEF IInv
<1>1. UNCHANGED <<m, g, up, h, cmd, script, ended>> /\ wire' = wire \ {l}
  BY <1>0, LineReaches
<1>2. slot' = slot /\ (l.op = "ItoMWr" => l.what # "rec")
  <2>1. CASE AtHost(l)
    BY <2>1, ReadLands
  <2>2. CASE Land(l) /\ l.what # "rec"
    BY <2>2 DEF Land
  <2> QED BY <2>1, <2>2
<1>3. SameDone /\ Live' = Live /\ \A c : (DoneSo(c)' <=> DoneSo(c)) /\ Status(c)' = Status(c)
  BY <1>1, <1>2, SameSlots
<1>4. GDone' <=> GDone
  BY <1>1 DEF GDone
<1>5. Started' <=> Started
  BY <1>1, <1>2, <1>4 DEF Started
<1>6. Torn' <=> Torn
  BY <1>0, <1>1, RecordNow DEF Torn
<1>7. SeedOut' <=> SeedOut
  BY <1>0, LineReaches DEF SeedOut, IsWrite
<1>8. Slack' >= Slack
  <2>1. PICK c : c = m.head
    OBVIOUS
  <2>2. DoneSo(c)' <=> DoneSo(c)
    BY <1>3
  <2>3. DoneSo(m.head)' <=> DoneSo(m.head)
    BY <1>1, <2>1, <2>2
  <2> QED BY <1>5, <1>6, <2>3 DEF Slack, One
<1>9. Epochs' /\ OwnIndex' /\ LineIndex' /\ TornAt'
  BY <1>0, <1>1, <1>3, <1>4, <1>6 DEF Epochs, OwnIndex, LineIndex, TornAt
<1>10. h'.pc # "flr" => NextIndex' /\ NoneYet'
  BY <1>1, <1>3, <1>5, <1>7, <1>8, SameNext
<1> QED BY <1>3, <1>9, <1>10, InOrderSame, CountPartsNext

\* The record of the command at PTQ_HEAD lands: the commands after it are pending, and
\* no seed is on its way.
LEMMA RecordIs ==
  ASSUME IInv, NEW l \in wire, Land(l), l.what = "rec"
  PROVE  /\ l.cmd = m.head /\ m.head \in Live /\ m.head \in Nat /\ h.pc # "flr"
         /\ \A c \in Live : c > m.head => Status(c) = Pending
         /\ \A c \in 0 .. h.next - 1 : c # m.head => (DoneSo(c)' <=> DoneSo(c)) /\ IndexOf(c)' = IndexOf(c)
         /\ IndexOf(m.head)' = l.index /\ (DoneSo(m.head)' <=> l.status = "done") /\ ~DoneSo(m.head)
         /\ GDone /\ GDone' /\ ~Started' /\ (Started <=> l.status = "done")
         /\ ~SeedOut /\ ~SeedOut' /\ (Torn' <=> Torn)
         /\ l.status = "done" => l.index = m.gemm_ct - 1
         /\ UNCHANGED <<m, h, cmd, ended>> /\ wire' \subseteq wire
<1>0. TypeOK /\ ModuleInv /\ IndexInv /\ AskedInv /\ StartInv /\ QuietInv /\ StatusInv /\ SeedInv /\ LineIndex /\ TornAt /\ PendingPast
  BY CountParts, StatusParts DEF IInv, ModuleInv
<1>1. /\ l.op = "ItoMWr" /\ l.cmd \in Live /\ l.cmd = l.idx /\ l.cmd \in Nat
      /\ slot'[SlotOf(l.cmd)] = [cmd |-> l.cmd, status |-> l.status, index |-> l.index]
      /\ \A c \in Live : c # l.cmd => slot'[SlotOf(c)] = slot[SlotOf(c)]
      /\ UNCHANGED <<m, g, up, h, cmd, script, ended>> /\ wire' = wire \ {l}
      /\ \A i \in DOMAIN io : ~IsRecord(io[i])
      /\ \A n \in wire : n.op = "ItoMWr" => n = l
      /\ Status(l.cmd) = Pending
  BY RecordLands
<1>2. GDone /\ Out(0) /\ ~Starting /\ (~m.enable => m.enabled)
  BY <1>1, WritesOut
<1>3. l.cmd = m.head /\ (l.status = "done" => l.index = m.gemm_ct - 1)
  BY <1>0, <1>1 DEF LineIndex
<1>4. h.pc # "flr"
  BY <1>0 DEF QuietInv
<1>n. h.next \in Nat /\ h.hhead \in Nat /\ m.head \in Nat
  BY <1>0, Numbers
<1>5. Torn' <=> Torn
  BY <1>0, <1>1, RecordNow DEF Torn
<1>6. \A c \in Live : c > m.head => Status(c) = Pending
  <2>1. CASE m.enable
    BY <1>0, <1>n, <2>1 DEF PendingPast
  <2>2. CASE ~m.enable
    <3>1. ~Working
      BY <1>2, <2>2, WorkingStarts
    <3>2. h \in HostStates
      BY <1>0 DEF TypeOK
    <3>3. h.pc \in {"status", "head"}
      BY <1>4, <3>1, <3>2 DEF Working, HostStates
    <3>4. Torn
      BY <1>2, <2>2, <3>3 DEF Torn
    <3> QED BY <1>0, <3>4 DEF TornAt
  <2> QED BY <2>1, <2>2
<1>7. ASSUME NEW c \in 0 .. h.next - 1, c # m.head
      PROVE  (DoneSo(c)' <=> DoneSo(c)) /\ IndexOf(c)' = IndexOf(c)
  <2>1. CASE c < h.hhead
    BY <1>1, <2>1 DEF DoneSo, IndexOf
  <2>2. CASE ~(c < h.hhead)
    <3>1. c \in Live
      BY <1>n, <2>2 DEF Live
    <3>2. slot'[SlotOf(c)] = slot[SlotOf(c)]
      BY <1>1, <1>3, <1>7, <3>1
    <3> QED BY <1>1, <2>2, <3>2 DEF DoneSo, IndexOf, Status
  <2> QED BY <2>1, <2>2
<1>8. IndexOf(m.head)' = l.index /\ (DoneSo(m.head)' <=> l.status = "done") /\ ~DoneSo(m.head)
  <2>1. ~(m.head < h.hhead) /\ m.head \in 0 .. h.next - 1
    BY <1>1, <1>3, <1>n DEF Live
  <2>2. slot'[SlotOf(m.head)].status = l.status /\ slot'[SlotOf(m.head)].index = l.index
    BY <1>1, <1>3
  <2>3. ~DoneSo(m.head)
    BY <1>1, <1>3, <2>1 DEF DoneSo, Pending
  <2> QED BY <1>1, <2>1, <2>2, <2>3 DEF DoneSo, IndexOf, Status
<1>9. GDone'
  BY <1>1, <1>2 DEF GDone
<1>10. ~Started' /\ (Started <=> l.status = "done")
  BY <1>1, <1>2, <1>9 DEF Started
<1>11. ~SeedOut
  <2> SUFFICES ASSUME NEW i \in DOMAIN io, IsWrite(io[i], "SEED") PROVE FALSE
    BY DEF SeedOut
  <2>1. CASE m.enable
    <3>1. m.head < m.tail /\ m.tail \in Nat
      BY <1>0, <1>2, <2>1, RecordMeans, Numbers
    <3> DEFINE a == One(\E j \in DOMAIN io : IsRecord(io[j]))
    <3>2. m.tail <= m.head + a
      BY <1>0, <2>1, SeedParts DEF SeedAll, SeedFirst
    <3>3. a = 0
      BY <1>1 DEF One
    <3> HIDE DEF a
    <3> QED BY <1>n, <3>1, <3>2, <3>3
  <2>2. CASE ~m.enable
    <3>1. Working \/ Stopping
      BY <1>0, WriteMeans DEF IsWrite
    <3> QED BY <1>0, <1>2, <2>2, <3>1 DEF StartInv
  <2> QED BY <2>1, <2>2
<1>12. ~SeedOut'
  BY <1>0, <1>11, LineReaches DEF SeedOut, IsWrite
<1> QED BY <1>1, <1>2, <1>3, <1>4, <1>5, <1>6, <1>7, <1>8, <1>9, <1>10, <1>11, <1>12

\* Those before it have not changed: what it may follow, and what the next may.
LEMMA CountRecord ==
  ASSUME IInv, NEW l \in wire, Land(l), l.what = "rec"
  PROVE  CountInv'
<1>0. TypeOK /\ IndexInv /\ CmdInv /\ CmdSlots /\ Epochs /\ InOrder /\ OwnIndex /\ LineIndex /\ TornAt
  BY CountParts, CmdParts DEF IInv
<1>1. PICK q : q = m.head
  OBVIOUS
<1>2. /\ q \in Live /\ q \in Nat /\ h.pc # "flr"
      /\ \A c \in Live : c > q => Status(c) = Pending
      /\ \A c \in 0 .. h.next - 1 : c # q => (DoneSo(c)' <=> DoneSo(c)) /\ IndexOf(c)' = IndexOf(c)
      /\ ~DoneSo(q) /\ (Torn' <=> Torn)
      /\ GDone /\ GDone' /\ ~Started' /\ (Started <=> l.status = "done")
      /\ ~SeedOut /\ ~SeedOut'
      /\ l.status = "done" => l.index = m.gemm_ct - 1
      /\ UNCHANGED <<m, h, cmd, ended>> /\ wire' \subseteq wire
  BY <1>1, RecordIs
<1>3. IndexOf(q)' = l.index /\ (DoneSo(q)' <=> l.status = "done")
  <2>1. IndexOf(m.head)' = l.index /\ (DoneSo(m.head)' <=> l.status = "done") /\ m' = m
    BY RecordIs
  <2> QED BY <1>1, <2>1
<1>n. /\ h.next \in Nat /\ h.hhead \in Nat /\ q \in 0 .. h.next - 1 /\ m.gemm_ct \in Nat /\ h.tears \in Nat
      /\ \A b \in 0 .. h.next - 1 : IndexOf(b) \in Int /\ cmd[b].tears \in Nat
  BY <1>0, <1>2, IndexTyped, Numbers DEF Live
<1>4. \A c \in 0 .. h.next - 1 : c > q => ~DoneSo(c) /\ ~DoneSo(c)'
  <2> SUFFICES ASSUME NEW c \in 0 .. h.next - 1, c > q PROVE ~DoneSo(c)
    BY <1>2, <1>n
  <2>1. c \in Live /\ ~(c < h.hhead)
    BY <1>2, <1>n DEF Live
  <2> QED BY <1>2, <2>1 DEF DoneSo, Pending
<1>5. TornAt'
  <2> SUFFICES ASSUME Torn', NEW c \in Live, c # q PROVE Status(c)' = Status(c)
    BY <1>0, <1>1, <1>2, <1>n DEF TornAt, Live
  <2>1. slot'[SlotOf(c)] = slot[SlotOf(c)]
    BY ZenonT(60), <1>1, <1>2, RecordLands, RecordIs
  <2> QED BY <2>1 DEF Status
<1>6. Epochs' /\ OwnIndex' /\ LineIndex'
  BY <1>0, <1>2 DEF Epochs, OwnIndex, LineIndex
<1>7. CASE l.status # "done"
  <2>1. SameDone
    BY <1>2, <1>3, <1>7, <1>n DEF SameDone
  <2>2. Started' <=> Started
    BY <1>2, <1>7
  <2>3. Slack' >= Slack
    <3>1. ~DoneSo(m.head)'
      BY <1>1, <1>2, <1>3, <1>7
    <3> QED BY <1>2, <2>2, <3>1 DEF Slack, One
  <2>4. NextIndex' /\ NoneYet'
    BY <1>2, <2>1, <2>2, <2>3, SameNext
  <2> QED BY <1>5, <1>6, <2>1, <2>4, InOrderSame, CountPartsNext
<1>8. CASE l.status = "done"
  <2>1. PICK e, t, n, c0 : e = h.epoch /\ t = h.tears /\ n = m.gemm_ct - 1 /\ c0 = h.next
    OBVIOUS
  <2>2. cmd[q].epoch = e /\ cmd[q].tears = t /\ t \in Int /\ n \in Int
    BY <1>0, <1>2, <1>n, <2>1 DEF CmdSlots
  <2>3. MayFollow(n, t, c0, e)
    <3>1. NextIndex
      BY <1>2, CountParts DEF IInv
    <3> DEFINE a == One(Started)
               b == Slack
    <3>2. a = 1 /\ b = 0
      BY <1>2, <1>8 DEF One, Slack
    <3> HIDE DEF a, b
    <3>3. n = m.gemm_ct - a /\ t = h.tears + b
      BY <1>n, <2>1, <3>2
    <3> QED BY <1>2, <2>1, <3>1, <3>3 DEF NextIndex, a, b
  <2>4. PICK k \in Nat : k = 0
    OBVIOUS
  <2>5. t >= t + k /\ n + k = n
    BY <2>2, <2>4
  <2>6. ASSUME NEW c \in 0 .. h.next - 1, c < q \/ c = q, NEW x
        PROVE  /\ \A b \in 0 .. c - 1 : (DoneIn(b, x)' <=> DoneIn(b, x)) /\ IndexOf(b)' = IndexOf(b) /\ cmd'[b].tears = cmd[b].tears
               /\ \A b \in 0 .. c - 1 : IndexOf(b) \in Int /\ cmd[b].tears \in Int
    <3>1. \A b \in 0 .. c - 1 : b \in 0 .. h.next - 1 /\ b # q
      BY <1>n, <2>6
    <3> QED BY <1>2, <1>n, <3>1 DEF DoneIn
  <2>7. MayFollow(n, t, q, e)'
    <3>1. \A b : b \in 0 .. c0 - 1 /\ DoneIn(b, e) <=> b \in 0 .. q - 1 /\ DoneIn(b, e)'
      <4> SUFFICES ASSUME NEW b \in Int PROVE b \in 0 .. c0 - 1 /\ DoneIn(b, e) <=> b \in 0 .. q - 1 /\ DoneIn(b, e)'
        OBVIOUS
      <4>1. b \in 0 .. q - 1 => (DoneIn(b, e)' <=> DoneIn(b, e)) /\ b \in 0 .. c0 - 1
        BY <1>n, <2>1, <2>6
      <4>2. b \in 0 .. c0 - 1 /\ b \notin 0 .. q - 1 => ~DoneIn(b, e)
        <5>1. b \in 0 .. c0 - 1 /\ b \notin 0 .. q - 1 => b = q \/ (b > q /\ b \in 0 .. h.next - 1)
          BY <1>n, <2>1
        <5> QED BY <1>2, <1>4, <5>1 DEF DoneIn
      <4> QED BY <4>1, <4>2
    <3>2. \A b \in 0 .. c0 - 1 : DoneIn(b, e) =>
           /\ IndexOf(b)' = IndexOf(b) /\ cmd'[b].tears = cmd[b].tears
           /\ IndexOf(b) \in Int /\ cmd[b].tears \in Int
      <4> SUFFICES ASSUME NEW b \in 0 .. h.next - 1, DoneIn(b, e)
                   PROVE  /\ IndexOf(b)' = IndexOf(b) /\ cmd'[b].tears = cmd[b].tears
                          /\ IndexOf(b) \in Int /\ cmd[b].tears \in Int
        BY <2>1
      <4>1. b # q
        BY <1>2 DEF DoneIn
      <4> QED BY <1>2, <1>n, <4>1
    <3>3. MayFollow(n + k, t, q, e)'
      BY <2>2, <2>3, <2>5, <3>1, <3>2, FollowKept
    <3> QED BY <2>5, <3>3
  <2>8. InOrder'
    <3> SUFFICES ASSUME NEW c \in 0 .. h.next - 1, NEW i, NEW u, NEW x,
                        DoneSo(c)' /\ i = IndexOf(c)' /\ u = cmd[c].tears /\ x = cmd[c].epoch
                 PROVE  MayFollow(i, u, c, x)'
      BY <1>2 DEF InOrder
    <3>1. c = q \/ c < q
      BY <1>4, <1>n
    <3>2. CASE c = q
      BY <1>2, <1>3, <1>8, <2>1, <2>2, <2>7, <3>2
    <3>3. CASE c < q
      <4>1. c # q
        BY <1>n, <3>3
      <4>2. DoneSo(c) /\ i = IndexOf(c) /\ i \in Int /\ u \in Int
        BY <1>2, <1>n, <4>1
      <4>3. MayFollow(i, u, c, x)
        BY <1>0, <4>2 DEF InOrder
      <4>4. u >= u + k /\ i + k = i
        BY <2>4, <4>2
      <4>5. \A b : b \in 0 .. c - 1 /\ DoneIn(b, x) <=> b \in 0 .. c - 1 /\ DoneIn(b, x)'
        BY <2>6, <3>3
      <4>6. \A b \in 0 .. c - 1 : DoneIn(b, x) =>
             /\ IndexOf(b)' = IndexOf(b) /\ cmd'[b].tears = cmd[b].tears
             /\ IndexOf(b) \in Int /\ cmd[b].tears \in Int
        BY <2>6, <3>3
      <4>7. MayFollow(i + k, u, c, x)'
        BY <4>2, <4>3, <4>4, <4>5, <4>6, FollowKept
      <4> QED BY <4>4, <4>7
    <3> QED BY <3>1, <3>2, <3>3
  <2>9. NextIndex'
    <3> SUFFICES ASSUME NEW i, NEW u, NEW x, NEW y, i = m.gemm_ct - One(Started'), u = h.tears + Slack',
                        x = h.next, y = h.epoch
                 PROVE  MayFollow(i, u, x, y)'
      BY <1>2 DEF NextIndex
    <3> DEFINE a == One(Started')
               b == Slack'
    <3>1. a = 0 /\ b \in Nat
      BY <1>2 DEF One, Slack
    <3> HIDE DEF a, b
    <3>2. i = m.gemm_ct /\ u \in Int /\ u >= t
      <4>1. i = m.gemm_ct - a /\ u = h.tears + b
        BY DEF a, b
      <4> QED BY <1>n, <2>1, <3>1, <4>1
    <3>3. LastIn(q, x, y)'
      <4>1. \A d \in 0 .. x - 1 : DoneIn(d, y)' => d <= q
        <5> SUFFICES ASSUME NEW d \in 0 .. h.next - 1, DoneIn(d, y)', ~(d <= q) PROVE FALSE
          OBVIOUS
        <5>1. d > q
          BY <1>n
        <5> QED BY <1>4, <5>1 DEF DoneIn
      <4>2. DoneIn(q, y)'
        BY <1>2, <1>3, <1>8, <2>1, <2>2 DEF DoneIn
      <4> QED BY <1>n, <4>1, <4>2 DEF LastIn
    <3>4. i - IndexOf(q)' \in 1 .. 1 + u - cmd'[q].tears
      <4>1. i - IndexOf(q)' = 1
        BY <1>2, <1>3, <1>8, <1>n, <3>2
      <4>2. cmd'[q].tears = t
        BY <1>2, <2>2
      <4> QED BY <2>2, <3>2, <4>1, <4>2
    <3> QED BY <1>n, <3>3, <3>4, FollowIsNext
  <2>10. NoneYet'
    BY <1>2 DEF NoneYet
  <2> QED BY <1>5, <1>6, <2>8, <2>9, <2>10, CountPartsNext
<1> QED BY <1>7, <1>8

LEMMA CountLand == ASSUME IInv, NEW l \in wire, Land(l) \/ AtHost(l) PROVE CountInv'
  BY CountLine, CountRecord

-----------------------------------------------------------------------------
(* The indices: the steps of the host. *)

\* The module's own count is not the host's concern.
LEMMA CountOwn ==
  ASSUME IInv, HostNext
  PROVE  OwnIndex' /\ LineIndex' /\ (Started' <=> Started) /\ m' = m
<1>1. OwnIndex /\ LineIndex /\ TypeOK
  BY CountParts DEF IInv
<1>2. m' = m /\ wire' = wire /\ g' = g
  BY <1>1, HostRecords
<1>3. GDone' <=> GDone
  BY HostWork
<1> QED BY <1>1, <1>2, <1>3 DEF OwnIndex, LineIndex, Started

\* No step of these sends a seed, nor takes the host out of a teardown but for a reset.
LEMMA PlainMeans ==
  ASSUME IInv, Plain
  PROVE  /\ HostNext /\ h.pc # "flr"
         /\ SeedOut' <=> SeedOut
         /\ Torn' => Torn
         /\ Torn => Torn' \/ h'.pc = "flr"
<1>0. TypeOK /\ AskedInv /\ QuietInv
  BY DEF IInv
<1>1. HostNext
  BY DEF Plain, HostNext
<1>2. HostSent
  BY <1>0, <1>1, HostSentLemma
<1>3. h.pc # "flr" /\ (h.pc \in {"status", "head"} => h'.pc \in {"status", "head", "flr"})
  <2>1. CASE TakeMsi
    <3>1. up # <<>> /\ h'.pc = h.pc
      BY <1>0, <2>1, PlainHostIs DEF SamePc
    <3> QED BY <1>0, <3>1 DEF QuietInv
  <2>2. CASE Ring \/ IrqOff \/ Drain \/ Drained \/ Awaited
    BY <1>0, <2>2, PlainHostIs
  <2>3. CASE DrainTimeout \/ Teardown
    BY <1>0, <2>3, DisableIs
  <2>4. CASE StatusBack
    BY <1>0, <2>4, StatusBackIs
  <2> QED BY <2>1, <2>2, <2>3, <2>4 DEF Plain
<1>4. SeedOut' <=> SeedOut
  <2>1. SeedOut => SeedOut'
    BY <1>2 DEF HostSent, SeedOut
  <2>2. ASSUME NEW j \in DOMAIN io', IsWrite(io'[j], "SEED") PROVE SeedOut
    <3>1. CASE j \in DOMAIN io
      BY <1>2, <2>2, <3>1 DEF HostSent, SeedOut
    <3>2. CASE j \notin DOMAIN io
      <4>1. CASE Drain \/ Drained \/ TakeMsi \/ Awaited
        BY <1>0, <3>2, <4>1, HostSends
      <4>2. CASE Ring \/ IrqOff \/ DrainTimeout \/ Teardown \/ StatusBack
        BY <1>0, <2>2, <3>2, <4>2, Fresh DEF IsWrite, IsReg, IsCtrl, IsRead
      <4> QED BY <4>1, <4>2 DEF Plain
    <3> QED BY <3>1, <3>2
  <2> QED BY <2>1, <2>2 DEF SeedOut
<1>5. Starting' <=> Starting
  <2>1. Starting => Starting'
    BY <1>2 DEF HostSent, Starting
  <2>2. ~HeadBack /\ ~AfterReset
    <3>1. HeadBack \/ AfterReset => h.pc \in {"head", "flr"} /\ h'.pc = "script"
      BY <1>0, RestartIs
    <3> QED BY <1>3, <3>1
  <2> QED BY <1>1, <2>1, <2>2, HostStarting
<1>6. m' = m
  BY <1>2 DEF HostSent
<1>7. ASSUME Torn' PROVE Torn
  <2>1. ~m.enable /\ ~Starting /\ h'.pc \in {"status", "head"}
    BY <1>5, <1>6, <1>7 DEF Torn
  <2>2. ~Working
    BY <2>1, WorkingStarts
  <2>3. h \in HostStates
    BY <1>0 DEF TypeOK
  <2> QED BY <1>3, <2>1, <2>2, <2>3 DEF Torn, Working, HostStates
<1>8. Torn => Torn' \/ h'.pc = "flr"
  BY <1>3, <1>5, <1>6 DEF Torn
<1> QED BY <1>1, <1>3, <1>4, <1>7, <1>8

LEMMA CountPlain == ASSUME IInv, Plain PROVE CountInv'
<1>0. TypeOK /\ Epochs /\ TornAt
  BY CountParts DEF IInv
<1>1. /\ HostNext /\ h.pc # "flr" /\ (SeedOut' <=> SeedOut) /\ (Torn' => Torn)
      /\ Torn => Torn' \/ h'.pc = "flr"
  BY PlainMeans
<1>2. /\ UNCHANGED <<slot, cmd, ended, m>> /\ h'.next = h.next /\ h'.hhead = h.hhead
      /\ h'.epoch = h.epoch /\ h'.tears = h.tears
  BY <1>0, PlainIs DEF SameCommands, SameConf
<1>3. SameDone /\ Live' = Live /\ \A c : (DoneSo(c)' <=> DoneSo(c)) /\ Status(c)' = Status(c)
  BY <1>2, SameSlots
<1>4. OwnIndex' /\ LineIndex' /\ (Started' <=> Started)
  BY <1>1, CountOwn
<1>5. Epochs' /\ TornAt'
  BY <1>0, <1>1, <1>2, <1>3 DEF Epochs, TornAt
<1>6. ASSUME h'.pc # "flr" PROVE NextIndex' /\ NoneYet'
  <2>1. PICK c : c = m.head
    OBVIOUS
  <2>2. DoneSo(c)' <=> DoneSo(c)
    BY <1>3
  <2>3. DoneSo(m.head)' <=> DoneSo(m.head)
    BY <1>2, <2>1, <2>2
  <2>4. Slack' >= Slack
    BY <1>1, <1>4, <1>6, <2>3 DEF Slack, One
  <2> QED BY <1>1, <1>2, <1>3, <1>4, <2>4, SameNext
<1> QED BY <1>3, <1>4, <1>5, <1>6, InOrderSame, CountPartsNext

LEMMA CountSetSeed == ASSUME IInv, SetSeed PROVE CountInv'
<1>0. TypeOK /\ IndexInv /\ Epochs
  BY CountParts DEF IInv
<1>1. HostNext
  BY DEF HostNext
<1>2. /\ UNCHANGED <<slot, cmd, ended>> /\ h'.next = h.next /\ h'.hhead = h.hhead
      /\ h'.epoch = h.epoch + 1 /\ h'.pc = "script"
  BY <1>0, PlainHostIs DEF SameIdx, SamePc
<1>3. h.epoch \in Nat /\ h.next \in Nat /\ \A c \in 0 .. h.next - 1 : cmd[c].epoch \in Nat
  BY <1>0, IndexTyped, Numbers
<1>4. SameDone
  BY <1>2, SameSlots
<1>5. OwnIndex' /\ LineIndex'
  BY <1>1, CountOwn
<1>6. Epochs' /\ TornAt' /\ NoneYet'
  BY <1>0, <1>2, <1>3 DEF Epochs, TornAt, Torn, NoneYet
<1>7. SeedOut'
  <2>1. Keeps(1) /\ IsReg(At(1), "SEED", h.seed + 1)
    BY <1>0, Sends
  <2>2. Len(io) + 1 \in DOMAIN io' /\ io'[Len(io) + 1] = At(1)
    BY <2>1 DEF Keeps, At
  <2> QED BY <2>1, <2>2 DEF SeedOut, IsReg, IsWrite
<1>8. NextIndex'
  BY <1>7 DEF NextIndex
<1> QED BY <1>4, <1>5, <1>6, <1>8, InOrderSame, CountPartsNext

\* A command is published, or one ends as its slot says: none is done that was not.
LEMMA CountHead ==
  ASSUME IInv, HostNext, SameDone, Epochs', h'.epoch = h.epoch, h'.tears = h.tears, Working,
         h'.pc \notin {"status", "head"}, SeedOut' <=> SeedOut
  PROVE  CountInv'
<1>1. OwnIndex' /\ LineIndex' /\ (Started' <=> Started) /\ m' = m
  BY CountOwn
<1>2. ~Torn /\ ~Torn'
  BY DEF Torn, Working
<1>3. Slack = 0 /\ Slack' = 0
  BY <1>2 DEF Slack, One
<1>4. Slack' >= Slack
  BY <1>3
<1>5. h.pc # "flr"
  BY DEF Working
<1>6. NextIndex' /\ NoneYet'
  BY <1>1, <1>4, <1>5, SameNext
<1>7. TornAt'
  BY <1>2 DEF TornAt
<1> QED BY <1>1, <1>6, <1>7, InOrderSame, CountPartsNext

LEMMA CountStored == ASSUME IInv, Publish \/ PublishIrq PROVE CountInv'
<1>0. TypeOK /\ IndexInv /\ Epochs
  BY CountParts DEF IInv
<1>1. HostNext /\ Stored
  BY <1>0, StoredIs DEF HostNext
<1>n. h.next \in Nat /\ h.hhead \in Nat /\ h.hhead <= h.next /\ h.epoch \in Nat
  BY <1>0, Numbers, IndexTyped
<1>2. /\ \A c \in Live : slot'[SlotOf(c)] = slot[SlotOf(c)]
      /\ \A c \in 0 .. h.next - 1 : cmd'[c] = cmd[c]
      /\ h'.next = h.next + 1 /\ h'.hhead = h.hhead /\ ended' = ended
  BY <1>0, <1>1, StoredKeeps DEF Stored
<1>3. \A b \in 0 .. h.next - 1 : (DoneSo(b)' <=> DoneSo(b)) /\ IndexOf(b)' = IndexOf(b)
  <2> SUFFICES ASSUME NEW b \in 0 .. h.next - 1
               PROVE  (DoneSo(b)' <=> DoneSo(b)) /\ IndexOf(b)' = IndexOf(b)
    OBVIOUS
  <2>1. b \in 0 .. h'.next - 1
    BY <1>2, <1>n
  <2>2. b < h.hhead \/ b \in Live
    BY <1>n DEF Live
  <2> QED BY <1>2, <2>1, <2>2 DEF DoneSo, IndexOf, Status
<1>4. PICK next : next = h.next
  OBVIOUS
<1>5. ~DoneSo(next)'
  <2>1. slot'[SlotOf(next)].status = Pending
    BY <1>1, <1>4 DEF Stored
  <2>2. ~(next < h'.hhead)
    BY <1>2, <1>4, <1>n
  <2> QED BY <2>1, <2>2 DEF DoneSo, Status, Pending
<1>6. \A b \in 0 .. h'.next - 1 : b \in 0 .. h.next - 1 \/ b = next
  BY <1>2, <1>4, <1>n
<1>7. SameDone
  BY <1>2, <1>3, <1>5, <1>6, <1>n DEF SameDone
<1>8. /\ h'.epoch = h.epoch /\ h'.tears = h.tears /\ Working /\ h'.pc \in {"script", "await"}
      /\ cmd'[next].epoch = h.epoch
  BY <1>1, <1>4 DEF Stored, SameConf
<1>9. Epochs'
  BY <1>0, <1>2, <1>6, <1>8, <1>n DEF Epochs
<1>10. SeedOut' <=> SeedOut
  <2>1. CASE Publish
    BY <1>0, <2>1, HostSends DEF SeedOut
  <2>2. CASE PublishIrq
    <3>1. HostSent
      BY <1>0, <1>1, HostSentLemma
    <3>2. SeedOut => SeedOut'
      BY <3>1 DEF HostSent, SeedOut
    <3>3. ASSUME NEW j \in DOMAIN io', IsWrite(io'[j], "SEED") PROVE SeedOut
      <4>1. CASE j \in DOMAIN io
        BY <3>1, <3>3, <4>1 DEF HostSent, SeedOut
      <4>2. CASE j \notin DOMAIN io
        BY <1>0, <2>2, <3>3, <4>2, Fresh DEF IsWrite, IsReg, IsCtrl
      <4> QED BY <4>1, <4>2
    <3> QED BY <3>2, <3>3 DEF SeedOut
  <2> QED BY <2>1, <2>2
<1> QED BY <1>1, <1>7, <1>8, <1>9, <1>10, CountHead

LEMMA CountTryEnd == ASSUME IInv, TryEnd PROVE CountInv'
<1>0. TypeOK /\ IndexInv /\ Epochs
  BY CountParts DEF IInv
<1>1. HostNext
  BY DEF HostNext
<1>2. /\ h.pc \in {"drain", "script"} /\ h'.pc = h.pc /\ h'.epoch = h.epoch /\ h'.tears = h.tears
      /\ h'.next = h.next /\ h'.hhead = h.hhead + 1 /\ UNCHANGED <<io, slot, cmd>>
  BY <1>0, TryEndIs DEF SamePc, SameConf
<1>n. h.next \in Nat /\ h.hhead \in Nat /\ 0 .. h.next - 1 \subseteq Cmds
  BY <1>0, Numbers
<1>3. PICK q : q = h.hhead
  OBVIOUS
<1>4. ended'[q] = slot[SlotOf(q)] /\ \A c \in Cmds : c # q => ended'[c] = ended[c]
  BY <1>3, TryEndEnds
<1>5. \A b \in 0 .. h.next - 1 : (DoneSo(b)' <=> DoneSo(b)) /\ IndexOf(b)' = IndexOf(b)
  <2> SUFFICES ASSUME NEW b \in 0 .. h.next - 1
               PROVE  (DoneSo(b)' <=> DoneSo(b)) /\ IndexOf(b)' = IndexOf(b)
    OBVIOUS
  <2>1. CASE b = q
    <3>1. b < h'.hhead /\ ~(b < h.hhead)
      BY <1>2, <1>3, <1>n, <2>1
    <3> QED BY <1>2, <1>4, <2>1, <3>1 DEF DoneSo, IndexOf, Status
  <2>2. CASE b < q
    <3>1. b < h'.hhead /\ b < h.hhead /\ b # q
      BY <1>2, <1>3, <1>n, <2>2
    <3> QED BY <1>2, <1>4, <1>n, <3>1 DEF DoneSo, IndexOf
  <2>3. CASE b > q
    <3>1. ~(b < h'.hhead) /\ ~(b < h.hhead)
      BY <1>2, <1>3, <1>n, <2>3
    <3> QED BY <1>2, <3>1 DEF DoneSo, IndexOf, Status
  <2> QED BY <1>3, <1>n, <2>1, <2>2, <2>3
<1>6. SameDone
  BY <1>2, <1>5, <1>n DEF SameDone
<1>7. Epochs' /\ (SeedOut' <=> SeedOut) /\ Working
  BY <1>0, <1>2 DEF Epochs, SeedOut, Working
<1> QED BY <1>1, <1>2, <1>6, <1>7, CountHead

\* Those done after the step were done before it, and none of those before them has changed.
LEMMA InOrderPrefix ==
  ASSUME IInv, NEW p \in Nat, p <= h.next, h'.next = h.next, cmd' = cmd,
         \A b \in 0 .. p - 1 : (DoneSo(b)' <=> DoneSo(b)) /\ (DoneSo(b) => IndexOf(b)' = IndexOf(b)),
         \A c \in 0 .. h.next - 1 : DoneSo(c)' => c < p
  PROVE  InOrder'
<1>0. TypeOK /\ IndexInv /\ InOrder
  BY CountParts DEF IInv
<1>n. h.next \in Nat /\ \A b \in 0 .. h.next - 1 : IndexOf(b) \in Int /\ cmd[b].tears \in Nat
  BY <1>0, Numbers, IndexTyped
<1> SUFFICES ASSUME NEW c \in 0 .. h.next - 1, NEW n, NEW t, NEW e,
                    DoneSo(c)' /\ n = IndexOf(c)' /\ t = cmd[c].tears /\ e = cmd[c].epoch
             PROVE  MayFollow(n, t, c, e)'
  BY DEF InOrder
<1>1. c < p /\ c \in 0 .. p - 1
  BY <1>n
<1>2. DoneSo(c) /\ n = IndexOf(c) /\ n \in Int /\ t \in Int
  BY <1>1, <1>n
<1>3. MayFollow(n, t, c, e)
  BY <1>0, <1>2 DEF InOrder
<1>4. \A b \in 0 .. c - 1 : b \in 0 .. p - 1 /\ b \in 0 .. h.next - 1
  BY <1>1, <1>n
<1>5. PICK k \in Nat : k = 0
  OBVIOUS
<1>6. t >= t + k /\ n + k = n
  BY <1>2, <1>5
<1>7. \A b : b \in 0 .. c - 1 /\ DoneIn(b, e) <=> b \in 0 .. c - 1 /\ DoneIn(b, e)'
  BY <1>4 DEF DoneIn
<1>8. \A b \in 0 .. c - 1 : DoneIn(b, e) =>
         /\ IndexOf(b)' = IndexOf(b) /\ cmd'[b].tears = cmd[b].tears
         /\ IndexOf(b) \in Int /\ cmd[b].tears \in Int
  BY <1>4, <1>n DEF DoneIn
<1>9. MayFollow(n + k, t, c, e)'
  BY <1>2, <1>3, <1>6, <1>7, <1>8, FollowKept
<1> QED BY <1>6, <1>9

LEMMA CountAfterReset == ASSUME IInv, AfterReset PROVE CountInv'
<1>0. TypeOK /\ IndexInv /\ Epochs
  BY CountParts DEF IInv
<1>1. HostNext
  BY DEF HostNext
<1>2. /\ h'.next = h.next /\ h'.hhead = h.next /\ h'.epoch = h.epoch + 1 /\ h'.pc = "script" /\ cmd' = cmd
  BY <1>0, RestartIs
<1>n. /\ h.next \in Nat /\ h.hhead \in Nat /\ h.hhead <= h.next /\ h.epoch \in Nat
      /\ \A c \in 0 .. h.next - 1 : cmd[c].epoch \in Nat
  BY <1>0, Numbers, IndexTyped
<1>3. /\ \A c \in 0 .. h.hhead - 1 : ended'[c] = ended[c]
      /\ \A c \in Live : ended'[c].status = "lost"
  BY RestartEnds DEF EndsLost
<1>4. \A b \in 0 .. h.hhead - 1 : (DoneSo(b)' <=> DoneSo(b)) /\ IndexOf(b)' = IndexOf(b)
  <2> SUFFICES ASSUME NEW b \in 0 .. h.hhead - 1
               PROVE  (DoneSo(b)' <=> DoneSo(b)) /\ IndexOf(b)' = IndexOf(b)
    OBVIOUS
  <2>1. b < h.hhead /\ b < h'.hhead /\ b \in 0 .. h.next - 1
    BY <1>2, <1>n
  <2> QED BY <1>2, <1>3, <2>1 DEF DoneSo, IndexOf
<1>5. \A c \in 0 .. h.next - 1 : DoneSo(c)' => c < h.hhead
  <2> SUFFICES ASSUME NEW c \in 0 .. h.next - 1, ~(c < h.hhead) PROVE ~DoneSo(c)'
    OBVIOUS
  <2>1. c \in Live /\ c < h'.hhead
    BY <1>2, <1>n DEF Live
  <2> QED BY <1>3, <2>1 DEF DoneSo
<1>6. InOrder'
  BY <1>2, <1>4, <1>5, <1>n, InOrderPrefix
<1>7. OwnIndex' /\ LineIndex'
  BY <1>1, CountOwn
<1>8. Epochs' /\ TornAt' /\ NoneYet'
  BY <1>0, <1>2, <1>n DEF Epochs, TornAt, Torn, NoneYet
<1>9. SeedOut'
  <2>1. Keeps(4) /\ IsReg(At(2), "SEED", h.seed)
    BY <1>0, Sends
  <2>2. Len(io) + 2 \in DOMAIN io' /\ io'[Len(io) + 2] = At(2)
    BY <2>1 DEF Keeps, At
  <2> QED BY <2>1, <2>2 DEF SeedOut, IsReg, IsWrite
<1>10. NextIndex'
  BY <1>9 DEF NextIndex
<1> QED BY <1>6, <1>7, <1>8, <1>10, CountPartsNext

\* What a teardown does: those behind PTQ_HEAD end as they are, the others are lost, and
\* of these only the one at PTQ_HEAD may have been done.
LEMMA HeadBackIs ==
  ASSUME IInv, HeadBack
  PROVE  /\ Torn /\ ~Started /\ ~SeedOut /\ ~SeedOut' /\ h.pc = "head" /\ Slack' = 0 /\ Slack \in {0, 1}
         /\ h'.next = h.next /\ h'.hhead = h.next /\ h'.epoch = h.epoch /\ h'.tears = h.tears + 1
         /\ h'.pc = "script" /\ cmd' = cmd /\ m' = m
         /\ \A c \in 0 .. h.next - 1 : c \notin Live \/ c < m.head =>
              (DoneSo(c)' <=> DoneSo(c)) /\ IndexOf(c)' = IndexOf(c)
         /\ \A c \in Live : c >= m.head => ~DoneSo(c)'
         /\ \A c \in Live : c > m.head => ~DoneSo(c)
<1>0. TypeOK /\ IndexInv /\ AskedInv /\ TornAt
  BY CountParts DEF IInv
<1>1. HostNext
  BY DEF HostNext
<1>2. /\ h.pc = "head" /\ h'.pc = "script" /\ h'.epoch = h.epoch /\ h'.tears = h.tears + 1
      /\ h'.next = h.next /\ h'.hhead = h.next /\ cmd' = cmd /\ m' = m
  BY <1>0, RestartIs
<1>3. ~m.enable /\ GDone /\ \A l \in wire : l.op # "ItoMWr"
  BY RestartMeans
<1>4. \A i \in DOMAIN io : io[i].op # "write"
  BY <1>0, <1>2 DEF AskedInv
<1>5. ~SeedOut /\ ~Starting
  BY <1>4 DEF SeedOut, Starting, Starts, IsWrite
<1>6. Torn /\ ~Started
  BY <1>2, <1>3, <1>5 DEF Torn, Started
<1>7. Slack' = 0 /\ Slack \in {0, 1}
  BY <1>2 DEF Slack, One, Torn
<1>8. ~SeedOut'
  <2> SUFFICES ASSUME NEW j \in DOMAIN io', IsWrite(io'[j], "SEED") PROVE FALSE
    BY DEF SeedOut
  <2>1. HostSent
    BY <1>0, <1>1, HostSentLemma
  <2>2. j \notin DOMAIN io
    BY <1>5, <2>1 DEF HostSent, SeedOut
  <2> QED BY <1>0, <2>2, Fresh DEF IsWrite, IsReg, IsCtrl
<1>n. h.next \in Nat /\ h.hhead \in Nat /\ m.head \in Nat /\ h.hhead <= h.next
  BY <1>0, Numbers
<1>9. /\ \A c \in 0 .. h.hhead - 1 : ended'[c] = ended[c]
      /\ \A c \in Live : EndsAsIs(c) \/ (EndsLost(c) /\ (c >= m.head \/ \E j \in h.hhead .. c : Status(j) = Pending))
  BY RestartEnds
<1>10. \A c \in Live : c >= m.head => ~DoneSo(c)'
  <2> SUFFICES ASSUME NEW c \in Live, c >= m.head PROVE ~DoneSo(c)'
    OBVIOUS
  <2>1. ~EndsAsIs(c)
    BY <1>n DEF EndsAsIs, Live
  <2>2. ended'[c].status = "lost" /\ c < h'.hhead
    BY <1>2, <1>9, <1>n, <2>1 DEF EndsLost, Live
  <2> QED BY <2>2 DEF DoneSo
<1>11. \A c \in Live : c > m.head => ~DoneSo(c)
  <2> SUFFICES ASSUME NEW c \in Live, c > m.head PROVE ~DoneSo(c)
    OBVIOUS
  <2>1. Status(c) = Pending /\ ~(c < h.hhead)
    BY <1>0, <1>6, <1>n DEF TornAt, Live
  <2> QED BY <2>1 DEF DoneSo, Pending
<1>12. ASSUME NEW c \in 0 .. h.next - 1, c \notin Live \/ c < m.head
       PROVE  (DoneSo(c)' <=> DoneSo(c)) /\ IndexOf(c)' = IndexOf(c)
  <2>0. c < h'.hhead
    BY <1>2, <1>n
  <2>1. CASE c < h.hhead
    BY <1>2, <1>9, <1>n, <2>0, <2>1 DEF DoneSo, IndexOf
  <2>2. CASE ~(c < h.hhead)
    <3>1. c \in Live /\ c < m.head
      BY <1>12, <1>n, <2>2 DEF Live
    <3>2. \A j \in h.hhead .. c : j \in Live /\ j < m.head
      BY <1>n, <3>1 DEF Live
    <3>3. \A j \in h.hhead .. c : Status(j) # Pending
      BY <1>0, <1>6, <3>2 DEF TornAt
    <3>4. EndsAsIs(c)
      BY <1>9, <1>n, <3>1, <3>3 DEF Live
    <3> QED BY <1>2, <2>0, <2>2, <3>4 DEF DoneSo, IndexOf, EndsAsIs, Status
  <2> QED BY <2>1, <2>2
<1> QED BY <1>2, <1>5, <1>6, <1>7, <1>8, <1>10, <1>11, <1>12

LEMMA CountHeadBack == ASSUME IInv, HeadBack PROVE CountInv'
<1>0. TypeOK /\ IndexInv /\ CmdInv /\ CmdSlots /\ Epochs /\ InOrder
  BY CountParts, CmdParts DEF IInv
<1>1. HostNext
  BY DEF HostNext
<1>2. PICK q : q = m.head
  OBVIOUS
<1>3. /\ Torn /\ ~Started /\ ~SeedOut /\ ~SeedOut' /\ h.pc = "head" /\ Slack' = 0 /\ Slack \in {0, 1}
      /\ h'.next = h.next /\ h'.hhead = h.next /\ h'.epoch = h.epoch /\ h'.tears = h.tears + 1
      /\ h'.pc = "script" /\ cmd' = cmd /\ m' = m
      /\ \A c \in 0 .. h.next - 1 : c \notin Live \/ c < q =>
           (DoneSo(c)' <=> DoneSo(c)) /\ IndexOf(c)' = IndexOf(c)
      /\ \A c \in Live : c >= q => ~DoneSo(c)'
      /\ \A c \in Live : c > q => ~DoneSo(c)
  BY <1>2, HeadBackIs
<1>n. /\ h.next \in Nat /\ h.hhead \in Nat /\ q \in Nat /\ h.hhead <= h.next /\ m.gemm_ct \in Nat /\ h.tears \in Nat
      /\ \A b \in 0 .. h.next - 1 : IndexOf(b) \in Int /\ cmd[b].tears \in Nat
  BY <1>0, <1>2, Numbers, IndexTyped
<1>4. NextIndex
  BY <1>3, CountParts DEF IInv
<1>5. OwnIndex' /\ LineIndex' /\ (Started' <=> Started)
  BY <1>1, CountOwn
<1>6. Epochs' /\ TornAt' /\ NoneYet'
  BY <1>0, <1>3 DEF Epochs, TornAt, Torn, NoneYet
<1>7. CASE ~(q \in Live /\ DoneSo(q))
  <2>1. \A b \in 0 .. h.next - 1 : (DoneSo(b)' <=> DoneSo(b)) /\ (DoneSo(b) => IndexOf(b)' = IndexOf(b))
    <3> SUFFICES ASSUME NEW b \in 0 .. h.next - 1
                 PROVE  (DoneSo(b)' <=> DoneSo(b)) /\ (DoneSo(b) => IndexOf(b)' = IndexOf(b))
      OBVIOUS
    <3>1. CASE b \notin Live \/ b < q
      BY <1>3, <3>1
    <3>2. CASE b \in Live /\ b = q
      BY <1>3, <1>7, <1>n, <3>2
    <3>3. CASE b \in Live /\ b > q
      BY <1>3, <1>n, <3>3
    <3> QED BY <1>n, <3>1, <3>2, <3>3
  <2>2. SameDone
    BY <1>3, <1>n, <2>1 DEF SameDone
  <2>3. NextIndex'
    <3> DEFINE a == One(Started)
               b == One(Started')
    <3>1. a = b /\ a \in Nat
      BY <1>5 DEF One
    <3> HIDE DEF a, b
    <3>2. PICK k \in Nat : k = 0
      OBVIOUS
    <3>3. m'.gemm_ct - b = m.gemm_ct - a + k
      BY <1>3, <1>n, <3>1, <3>2
    <3>4. h'.tears + Slack' \in Int /\ h'.tears + Slack' >= h.tears + Slack + k
      BY <1>3, <1>n, <3>2
    <3> QED BY <1>3, <2>2, <3>3, <3>4, NextSame DEF a, b
  <2> QED BY <1>5, <1>6, <2>2, <2>3, InOrderSame, CountPartsNext
<1>8. CASE q \in Live /\ DoneSo(q)
  <2>1. q \in 0 .. h.next - 1 /\ h.hhead <= q
    BY <1>8, <1>n DEF Live
  <2>2. InOrder'
    <3>1. \A b \in 0 .. q - 1 : (DoneSo(b)' <=> DoneSo(b)) /\ (DoneSo(b) => IndexOf(b)' = IndexOf(b))
      BY <1>3, <1>n, <2>1
    <3>2. \A c \in 0 .. h.next - 1 : DoneSo(c)' => c < q
      <4> SUFFICES ASSUME NEW c \in 0 .. h.next - 1, ~(c < q) PROVE ~DoneSo(c)'
        OBVIOUS
      <4>1. c \in Live /\ c >= q
        BY <1>n, <2>1 DEF Live
      <4> QED BY <1>3, <4>1
    <3> QED BY <1>3, <1>n, <2>1, <3>1, <3>2, InOrderPrefix
  <2>3. PICK e, t, n : e = h.epoch /\ t = h.tears /\ n = IndexOf(q)
    OBVIOUS
  <2>4. cmd[q].epoch = e /\ cmd[q].tears = t /\ n \in Int /\ t \in Int
    BY <1>0, <1>8, <1>n, <2>1, <2>3 DEF CmdSlots
  <2>5. MayFollow(n, t, q, e)
    BY <1>0, <1>8, <2>1, <2>3, <2>4 DEF InOrder
  <2>6. m.gemm_ct = n + 1
    <3> DEFINE a == One(Started)
               b == Slack
    <3>1. a = 0 /\ b = 0
      BY <1>2, <1>3, <1>8 DEF One, Slack
    <3> HIDE DEF a, b
    <3>2. PICK n0, t0, c0 : n0 = m.gemm_ct - a /\ t0 = h.tears + b /\ c0 = h.next
      OBVIOUS
    <3>3. MayFollow(n0, t0, c0, e)
      BY <1>3, <1>4, <2>3, <3>2 DEF NextIndex, a, b
    <3>4. DoneIn(q, e) /\ q \in 0 .. c0 - 1
      BY <1>8, <2>1, <2>4, <3>2 DEF DoneIn
    <3>5. PICK d \in 0 .. c0 - 1 : LastIn(d, c0, e) /\ n0 - IndexOf(d) \in 1 .. 1 + t0 - cmd[d].tears
      BY <3>3, <3>4, FollowIs
    <3>6. d = q
      <4>1. q <= d /\ DoneIn(d, e)
        BY <3>4, <3>5 DEF LastIn
      <4>2. ~(d > q)
        <5> SUFFICES ASSUME d > q PROVE FALSE
          OBVIOUS
        <5>1. d \in Live
          BY <1>n, <2>1, <3>2 DEF Live
        <5> QED BY <1>3, <4>1, <5>1 DEF DoneIn
      <4> QED BY <1>n, <3>2, <4>1, <4>2
    <3>7. n0 = m.gemm_ct /\ t0 = t
      BY <1>n, <2>3, <3>1, <3>2
    <3>8. n0 - n \in 1 .. 1 + t - t
      BY <2>3, <2>4, <3>5, <3>6, <3>7
    <3> QED BY <1>n, <2>4, <3>7, <3>8
  <2>7. NextIndex'
    <3> SUFFICES ASSUME NEW i, NEW u, NEW x, NEW y, i = m.gemm_ct - One(Started'), u = h'.tears + Slack',
                        x = h.next, y = e
                 PROVE  MayFollow(i, u, x, y)'
      BY <1>3, <2>3 DEF NextIndex
    <3>1. PICK k \in Nat : k = 1
      OBVIOUS
    <3> DEFINE a == One(Started')
    <3>2. a = 0
      BY <1>3, <1>5 DEF One
    <3> HIDE DEF a
    <3>3. i = n + k
      <4>1. i = m.gemm_ct - a
        BY DEF a
      <4> QED BY <1>n, <2>4, <2>6, <3>1, <3>2, <4>1
    <3>4. u \in Int /\ u >= t + k
      BY <1>3, <1>n, <2>3, <3>1
    <3>5. \A b : b \in 0 .. q - 1 /\ DoneIn(b, y) <=> b \in 0 .. x - 1 /\ DoneIn(b, y)'
      <4> SUFFICES ASSUME NEW b \in Int PROVE b \in 0 .. q - 1 /\ DoneIn(b, y) <=> b \in 0 .. x - 1 /\ DoneIn(b, y)'
        OBVIOUS
      <4>1. b \in 0 .. q - 1 => b \in 0 .. h.next - 1 /\ (DoneIn(b, y)' <=> DoneIn(b, y))
        <5>1. b \in 0 .. q - 1 => b \in 0 .. h.next - 1 /\ b < q
          BY <1>n, <2>1
        <5> QED BY <1>3, <5>1 DEF DoneIn
      <4>2. b \in 0 .. h.next - 1 /\ b \notin 0 .. q - 1 => ~DoneIn(b, y)'
        <5>1. b \in 0 .. h.next - 1 /\ b \notin 0 .. q - 1 => b \in Live /\ b >= q
          BY <1>n, <2>1 DEF Live
        <5> QED BY <1>3, <5>1 DEF DoneIn
      <4> QED BY <4>1, <4>2
    <3>6. \A b \in 0 .. q - 1 : DoneIn(b, y) =>
           /\ IndexOf(b)' = IndexOf(b) /\ cmd'[b].tears = cmd[b].tears
           /\ IndexOf(b) \in Int /\ cmd[b].tears \in Int
      <4>1. \A b \in 0 .. q - 1 : b \in 0 .. h.next - 1 /\ b < q
        BY <1>n, <2>1
      <4> QED BY <1>3, <1>n, <4>1
    <3>7. MayFollow(n + k, u, x, y)'
      BY <2>4, <2>5, <3>4, <3>5, <3>6, FollowKept
    <3> QED BY <3>3, <3>7
  <2> QED BY <1>5, <1>6, <2>2, <2>7, CountPartsNext
<1> QED BY <1>7, <1>8

\* Every index is the module's count, and none is given twice: CountInv is kept.
LEMMA CountStep == ASSUME IInv, [Next]_vars PROVE CountInv'
<1>1. CASE ArriveSteps
  BY <1>1, CountArrive
<1>2. CASE Shot
  BY <1>2, CountShot
<1>3. CASE \E l \in wire : Land(l) \/ AtHost(l)
  BY <1>3, CountLand
<1>4. CASE HostNext
  <2>1. Plain \/ SetSeed \/ Publish \/ PublishIrq \/ TryEnd \/ HeadBack \/ AfterReset
    BY <1>4 DEF HostNext, Plain
  <2> QED BY <2>1, CountPlain, CountSetSeed, CountStored, CountTryEnd, CountHeadBack, CountAfterReset
<1>5. CASE UNCHANGED vars
  <2>1. Epochs /\ OwnIndex /\ LineIndex /\ TornAt
    BY CountParts DEF IInv
  <2>2. UNCHANGED <<m, g, script, io, up, wire, slot, res, cmd, ended, h>>
    BY <1>5 DEF vars
  <2>3. SameDone
    BY <2>2, SameSlots
  <2>4. /\ (GDone' <=> GDone) /\ (Torn' <=> Torn) /\ (Started' <=> Started) /\ (SeedOut' <=> SeedOut)
        /\ Slack' = Slack /\ Slack \in Nat
    BY <2>2 DEF DoneSo, GDone, Torn, Starting, Started, Slack, Status, One, SeedOut
  <2>5. Epochs' /\ OwnIndex' /\ LineIndex' /\ TornAt'
    BY <2>1, <2>2, <2>4 DEF Epochs, OwnIndex, LineIndex, TornAt, Live, Status
  <2>6. Slack' >= Slack
    BY <2>4
  <2>7. h'.pc # "flr" => NextIndex' /\ NoneYet'
    BY <2>2, <2>3, <2>4, <2>6, SameNext
  <2> QED BY <2>3, <2>5, <2>7, InOrderSame, CountPartsNext
<1> QED BY <1>1, <1>2, <1>3, <1>4, <1>5, Steps

-----------------------------------------------------------------------------
(* The beginning. *)

\* The host has written the registers and the enable, in that order, and nothing else.
LEMMA InitIs ==
  ASSUME Init
  PROVE  /\ io \in Seq(Messages) /\ Len(io) = 4 /\ DOMAIN io = 1 .. 4
         /\ IsReg(io[1], "RING", TRUE) /\ IsReg(io[2], "SEED", 1) /\ IsReg(io[3], "TAIL", 0) /\ IsCtrl(io[4], TRUE)
         /\ \A i \in DOMAIN io : i = 1 \/ i = 2 \/ i = 3 \/ i = 4
         /\ \A i \in DOMAIN io : io[i].op = "write"
         /\ up = <<>> /\ DOMAIN up = {} /\ wire = {} /\ m = ResetState(1) /\ g = Idle
         /\ h.pc = "script" /\ h.next = 0 /\ h.hhead = 0 /\ h.rung = 0 /\ h.origin = 0 /\ h.seed = 1
         /\ h.before = "none" /\ h.epoch = 1 /\ h.tears = 0
<1> DEFINE a == W("RING", TRUE)
           b == W("SEED", 1)
           c == W("TAIL", 0)
           d == W("CTRL", [en |-> TRUE, irq |-> FALSE])
<1>1. /\ a \in Messages /\ b \in Messages /\ c \in Messages /\ d \in Messages
      /\ IsReg(b, "SEED", 1) /\ IsReg(c, "TAIL", 0) /\ IsCtrl(d, TRUE)
      /\ a.op = "write" /\ b.op = "write" /\ c.op = "write" /\ d.op = "write"
  <2>1. a \in Messages /\ a.op = "write"
    BY WriteTyped
  <2>2. b \in Messages /\ b.op = "write" /\ IsReg(b, "SEED", 1)
    BY WriteTyped DEF IsReg
  <2>3. c \in Messages /\ c.op = "write" /\ IsReg(c, "TAIL", 0)
    BY WriteTyped DEF IsReg
  <2>4. d \in Messages /\ d.op = "write" /\ IsCtrl(d, TRUE)
    BY WriteTyped DEF IsCtrl
  <2> QED BY <2>1, <2>2, <2>3, <2>4
<1>2. IsReg(a, "RING", TRUE)
  BY DEF IsReg, W
<1>3. io = <<a, b, c, d>>
  BY DEF Init
<1> HIDE DEF a, b, c, d
<1>4. io \in Seq(Messages) /\ Len(io) = 4 /\ DOMAIN io = 1 .. 4 /\ io[1] = a /\ io[2] = b /\ io[3] = c /\ io[4] = d
  BY <1>1, <1>3
<1>5. \A i \in DOMAIN io : i = 1 \/ i = 2 \/ i = 3 \/ i = 4
  BY <1>4
<1>6. /\ up = <<>> /\ wire = {} /\ m = ResetState(1) /\ g = Idle
      /\ h.pc = "script" /\ h.next = 0 /\ h.hhead = 0 /\ h.rung = 0 /\ h.origin = 0 /\ h.seed = 1
      /\ h.before = "none" /\ h.epoch = 1 /\ h.tears = 0
  BY DEF Init
<1>7. DOMAIN up = {}
  BY <1>6
<1> QED BY <1>1, <1>2, <1>4, <1>5, <1>6, <1>7

LEMMA InitTypes == ASSUME Init PROVE TypeOK
<1>1. io \in Seq(Messages) /\ wire \subseteq Lines
  BY InitIs
<1>2. up \in Seq(Answers)
  BY InitIs
<1>3. m \in ModuleStates
  BY DEF Init, ResetState, ModuleStates
<1>4. g \in Works
  BY DEF Init, Idle, Works, None
<1>5. h \in HostStates
  BY DEF Init, HostStates
<1>6. Blank \in SlotLines
  BY DEF Blank, SlotLines, None, Statuses, Pending
<1>7. slot \in [0 .. RingSize - 1 -> SlotLines] /\ ended \in [Cmds -> SlotLines]
  BY <1>6 DEF Init
<1>8. cmd \in [Cmds -> Published] /\ DOMAIN res = Cmds /\ script \in Scripts
  BY DEF Init, Published
<1> QED BY <1>1, <1>2, <1>3, <1>4, <1>5, <1>7, <1>8 DEF TypeOK

LEMMA InitLink ==
  ASSUME Init
  PROVE  OrderInv /\ AskedInv /\ StartInv /\ QuietInv /\ SeedInv /\ MsiInv
<1>0. /\ Len(io) = 4 /\ DOMAIN io = 1 .. 4
      /\ IsReg(io[1], "RING", TRUE) /\ IsReg(io[2], "SEED", 1) /\ IsReg(io[3], "TAIL", 0) /\ IsCtrl(io[4], TRUE)
      /\ \A i \in DOMAIN io : i = 1 \/ i = 2 \/ i = 3 \/ i = 4
      /\ \A i \in DOMAIN io : io[i].op = "write"
      /\ up = <<>> /\ DOMAIN up = {} /\ h.pc = "script" /\ h.origin = 0 /\ h.hhead = 0 /\ h.seed = 1
  BY InitIs
<1>m. /\ m.head = 0 /\ m.tail = 0 /\ ~m.enable /\ ~m.enabled /\ ~m.wedged /\ m.irq_at = 0
  BY InitIs DEF ResetState
<1>1. /\ \A i \in DOMAIN io : ~Stops(io[i]) /\ ~Asks(io[i]) /\ ~IsRecord(io[i]) /\ ~IsWrite(io[i], "IRQ_AT")
      /\ \A i \in DOMAIN io : /\ IsWrite(io[i], "TAIL") => i = 3
                              /\ IsWrite(io[i], "SEED") => i = 2
                              /\ Starts(io[i]) => i = 4
      /\ IsWrite(io[1], "RING") /\ IsWrite(io[2], "SEED") /\ IsWrite(io[3], "TAIL") /\ Starts(io[4])
      /\ io[3].val = 0 /\ io[2].val = 1
  BY <1>0 DEF Stops, Asks, Starts, IsWrite, IsReg, IsCtrl, IsRecord
<1>2. OrderInv
  BY <1>0, <1>1 DEF OrderInv
<1>3. AskedInv
  BY <1>0, <1>1 DEF AskedInv
<1>4. StartInv
  <2>1. StartAt(4)
    <3>1. \A q \in DOMAIN io : IsWrite(io[q], "TAIL") => IF q < 4 THEN io[q].val = h.origin ELSE io[q].val > h.origin
      BY <1>0, <1>1
    <3>2. \A q \in 1 .. 4 - 1 : q \in DOMAIN io /\ q # 4
      BY <1>0
    <3>3. \A q \in 1 .. 4 - 1 : ~Starts(io[q]) /\ ~Stops(io[q]) /\ ~IsWrite(io[q], "IRQ_AT")
      BY <1>1, <3>2
    <3>4. \E q \in 1 .. 4 - 1 : IsWrite(io[q], "TAIL")
      BY <1>1
    <3>5. \E q \in 1 .. 4 - 1 : IsWrite(io[q], "RING")
      BY <1>1
    <3>6. ASSUME NEW q \in 1 .. 4 - 1, IsWrite(io[q], "SEED")
          PROVE  m.head = m.tail /\ \A r \in 1 .. q - 1 : ~IsWrite(io[r], "TAIL")
      <4>1. q = 2
        BY <1>1, <3>2, <3>6
      <4>2. \A r \in 1 .. q - 1 : r = 1
        BY <4>1
      <4>3. ~IsWrite(io[1], "TAIL")
        BY <1>0, <1>1
      <4> QED BY <1>m, <4>2, <4>3
    <3> QED BY <1>1, <3>1, <3>3, <3>4, <3>5, <3>6 DEF StartAt
  <2>2. StartBody
    BY <1>0, <1>m, <2>1 DEF StartBody
  <2> QED BY <2>2, StartInvIs
<1>5. QuietInv
  BY <1>0 DEF QuietInv
<1>6. SeedInv
  <2>1. SeedAll
    <3> SUFFICES ASSUME NEW i \in DOMAIN io, IsWrite(io[i], "SEED") PROVE SeedFirst(i)
      BY DEF SeedAll
    <3>1. i = 2
      BY <1>1
    <3>2. \A j \in 1 .. i - 1 : j = 1
      BY <3>1
    <3>3. ~IsWrite(io[1], "TAIL")
      BY <1>0, <1>1
    <3>4. \A j \in i + 1 .. Len(io) : j \in DOMAIN io
      BY <1>0, <3>1
    <3> QED BY <1>1, <1>m, <3>2, <3>3, <3>4 DEF SeedFirst
  <2>2. SeedLast
    <3>1. \A j \in 2 + 1 .. Len(io) : j \in DOMAIN io /\ j # 2
      BY <1>0
    <3>2. \A j \in 2 + 1 .. Len(io) : ~IsWrite(io[j], "SEED")
      BY <1>1, <3>1
    <3>3. 2 \in DOMAIN io
      BY <1>0
    <3> QED BY <1>0, <1>1, <3>2, <3>3 DEF SeedLast
  <2> QED BY <2>1, <2>2, SeedParts
<1>7. MsiInv
  BY <1>0, <1>1, <1>m DEF MsiInv
<1> QED BY <1>2, <1>3, <1>4, <1>5, <1>6, <1>7

LEMMA InitModule == ASSUME Init PROVE ModuleInv
<1>0. TypeOK /\ wire = {} /\ g = Idle /\ \A i \in DOMAIN io : io[i].op = "write"
  BY InitIs, InitTypes
<1>m. /\ ~m.enable /\ ~m.enabled /\ ~m.wedged /\ ~m.busy /\ ~m.draining /\ m.inflight = 0
  BY InitIs DEF ResetState
<1>1. \A j, k : /\ \A i \in DOMAIN io : ~Errand(io[i], j, k)
                /\ ~Runs(io, wire, j, k)
  BY <1>0, ErrandIs DEF Runs
<1>2. JobInv
  BY <1>0 DEF JobInv
<1>3. ErrandInv
  <2>1. RunsOnce(io, wire, m.job)
    BY <1>0, <1>1 DEF RunsOnce
  <2>2. \A k : ~Out(k)
    BY <1>1 DEF Out
  <2> QED BY <1>m, <2>1, <2>2 DEF ErrandInv, One
<1>4. StageInv
  <2>1. ~Out(3) /\ GDone /\ g.pc = "idle"
    BY <1>0, <1>1 DEF Out, GDone, Idle
  <2>2. Stopped
    BY <1>m, <2>1 DEF Stopped
  <2>3. m.enabled = (m.enable \/ m.draining)
    <3>1. m \in ModuleStates
      BY <1>0 DEF TypeOK
    <3>2. m.enable \in BOOLEAN /\ m.enabled \in BOOLEAN /\ m.draining \in BOOLEAN
      BY <3>1 DEF ModuleStates
    <3> QED BY <1>m, <3>2
  <2> QED BY <1>m, <2>1, <2>2, <2>3 DEF StageInv
<1>5. ReadInv
  BY <1>0 DEF ReadInv
<1> QED BY <1>2, <1>3, <1>4, <1>5 DEF ModuleInv

LEMMA InitHost ==
  ASSUME Init
  PROVE  IndexInv /\ CmdInv /\ StatusInv /\ ResultInv /\ EndedInv /\ CountInv
<1>0. /\ TypeOK /\ wire = {} /\ g = Idle /\ DOMAIN io = 1 .. 4 /\ h.epoch = 1 /\ h.tears = 0
      /\ h.next = 0 /\ h.hhead = 0 /\ h.rung = 0 /\ h.origin = 0 /\ h.pc = "script" /\ h.before = "none"
      /\ IsReg(io[1], "RING", TRUE) /\ IsReg(io[2], "SEED", 1) /\ IsReg(io[3], "TAIL", 0) /\ IsCtrl(io[4], TRUE)
      /\ \A i \in DOMAIN io : i = 1 \/ i = 2 \/ i = 3 \/ i = 4
      /\ \A i \in DOMAIN io : io[i].op = "write"
  BY InitIs, InitTypes
<1>m. m.head = 0 /\ m.tail = 0 /\ ~m.enable /\ ~m.halted
  BY InitIs DEF ResetState
<1>1. Live = {} /\ 0 .. h.next - 1 = {} /\ h.origin .. h.next - 1 = {} /\ EndedCmds = {}
  BY <1>0 DEF Live, EndedCmds
<1>2. NumCmds \in Nat /\ RingSize \in Nat
  BY <1>0, NumCmdsNat, TransportAssumption
<1>3. IndexInv
  <2>1. \A i \in DOMAIN io : IsWrite(io[i], "TAIL") => io[i].val = 0
    BY <1>0 DEF IsWrite, IsReg, IsCtrl
  <2> QED BY <1>0, <1>m, <1>2, <2>1 DEF IndexInv
<1>4. CmdInv
  BY <1>0, <1>1, <1>m DEF CmdInv
<1>g. GDone
  BY <1>0 DEF GDone, Idle
<1>5. StatusInv
  BY <1>0, <1>1, <1>m DEF StatusInv
<1>6. ResultInv
  BY <1>0, <1>1, <1>m, <1>g DEF ResultInv
<1>7. EndedInv
  BY <1>0, <1>1 DEF EndedInv, Working
<1>8. CountInv
  <2>1. SeedOut
    BY <1>0 DEF SeedOut, IsReg, IsWrite
  <2>2. Epochs /\ InOrder /\ OwnIndex /\ LineIndex /\ TornAt /\ NextIndex /\ NoneYet
    BY <1>0, <1>1, <1>g, <2>1 DEF Epochs, InOrder, OwnIndex, LineIndex, TornAt, NextIndex, NoneYet
  <2> QED BY <2>2, CountParts
<1> QED BY <1>3, <1>4, <1>5, <1>6, <1>7, <1>8

LEMMA InitInv == ASSUME Init PROVE IInv
  BY InitTypes, InitLink, InitModule, InitHost DEF IInv, ModuleInv

-----------------------------------------------------------------------------
(* The theorems. *)

\* Whatever the host publishes, rings, tears down or resets, and in whatever order lines
\* cross the link, host and module stay within IInv.
THEOREM BoardInvariance == Spec => []IInv
<1>1. Init => IInv
  BY InitInv
<1>2. IInv /\ [Next]_vars => IInv'
  BY TypeStep, ModuleStep, OrderStep, AskedStep, StartStep, QuietStep, IndexStep, SeedStep, MsiStep,
     CmdStep, StatusStep, ResultStep, EndedStep, CountStep DEF IInv, ModuleInv
<1> QED BY <1>1, <1>2, PTL DEF Spec

\* How a command that has ended did end: what its slot said is true of it, or it is lost.
LEMMA EndedTruly ==
  ASSUME IInv, NEW c \in EndedCmds
  PROVE  /\ ended[c].cmd = c /\ cmd[c].due \in Failed \cup {"done"} /\ c \in 0 .. h.next - 1
         /\ \/ Truth(c, ended[c].status, ended[c].index)
            \/ ended[c].status = "lost" /\ h.timeouts + h.downs > 0
<1>0. TypeOK /\ IndexInv /\ CmdInv /\ EndedInv
  BY DEF IInv
<1>1. h.next \in Nat /\ h.hhead \in Nat /\ h.hhead <= h.next
  BY <1>0, Numbers
<1>2. c \in 0 .. h.next - 1
  BY <1>1 DEF EndedCmds
<1>3. cmd[c].due \in Failed \cup {"done"}
  BY <1>0, <1>2, CmdParts DEF CmdKinds
<1> QED BY <1>0, <1>2, <1>3, EndedParts DEF EndsTrue, EndTrue

\* C1, C2 of pta_board_transport.py: a command ended done has all its results in memory;
\* one that ended refused, not issued or not run has none.
THEOREM BoardResults == Spec => []ResultsMatchStatus
<1>1. ASSUME IInv PROVE ResultsMatchStatus
  <2> SUFFICES ASSUME NEW c \in EndedCmds, NEW i \in DOMAIN res[c]
               PROVE  /\ ended[c].status = "done" => res[c][i] = <<cmd[c].seed, ended[c].index>>
                      /\ ended[c].status \in Failed => res[c][i] = Sentinel
    BY DEF ResultsMatchStatus
  <2>1. Truth(c, ended[c].status, ended[c].index) \/ ended[c].status = "lost"
    BY <1>1, EndedTruly
  <2> QED BY <2>1 DEF Truth, Right, Clean, Failed
<1> QED BY <1>1, BoardInvariance, PTL

\* C3, C7, C10: a command ends as it was due to, or lost in a teardown or a reset.
THEOREM BoardEnds == Spec => []EndsAsDue
<1>1. ASSUME IInv PROVE EndsAsDue
  <2> SUFFICES ASSUME NEW c \in EndedCmds
               PROVE  /\ ended[c].cmd = c
                      /\ ended[c].status \in {cmd[c].due, "lost"}
                      /\ ended[c].status = "lost" => h.timeouts + h.downs > 0
    BY DEF EndsAsDue
  <2>1. /\ ended[c].cmd = c /\ cmd[c].due \in Failed \cup {"done"}
        /\ \/ ended[c].status = cmd[c].due
           \/ ended[c].status = "lost" /\ h.timeouts + h.downs > 0
    BY <1>1, EndedTruly DEF Truth
  <2> QED BY <2>1 DEF Failed
<1> QED BY <1>1, BoardInvariance, PTL

\* C4: the indices of the GEMMs that ended done, under one seed, grow by one, and by one
\* more at most for each teardown between them.
THEOREM BoardIndices == Spec => []IndexOrder
<1>1. ASSUME IInv PROVE IndexOrder
  <2>0. TypeOK /\ IndexInv /\ InOrder
    BY <1>1, CountParts DEF IInv
  <2>n. h.next \in Nat /\ h.hhead \in Nat /\ h.hhead <= h.next
    BY <2>0, Numbers
  <2>1. \A c \in EndedCmds : ended[c].status \in Failed => ended[c].index = None
    <3> SUFFICES ASSUME NEW c \in EndedCmds, ended[c].status \in Failed PROVE ended[c].index = None
      OBVIOUS
    <3>1. Truth(c, ended[c].status, ended[c].index) \/ ended[c].status = "lost"
      BY <1>1, EndedTruly
    <3> QED BY <3>1 DEF Truth, Failed
  <2>2. ASSUME NEW c \in EndedCmds, ended[c].status = "done",
               NEW earlier, earlier = {b \in 0 .. c - 1 : ended[b].status = "done" /\ cmd[b].epoch = cmd[c].epoch}
        PROVE  IF earlier = {} THEN ended[c].index \in 0 .. cmd[c].tears
               ELSE \E b \in earlier :
                      /\ \A d \in earlier : d <= b
                      /\ ended[c].index - ended[b].index \in 1 .. 1 + cmd[c].tears - cmd[b].tears
    <3>1. c \in 0 .. h.next - 1 /\ c < h.hhead
      BY <2>n DEF EndedCmds
    <3>2. DoneSo(c) /\ IndexOf(c) = ended[c].index
      BY <2>2, <3>1 DEF DoneSo, IndexOf
    <3>3. MayFollow(ended[c].index, cmd[c].tears, c, cmd[c].epoch)
      BY <2>0, <3>1, <3>2 DEF InOrder
    <3>4. ASSUME NEW b \in 0 .. c - 1
          PROVE  (DoneSo(b) <=> ended[b].status = "done") /\ IndexOf(b) = ended[b].index
      <4>1. b \in 0 .. h.next - 1 /\ b < h.hhead
        BY <2>n, <3>1
      <4> QED BY <4>1 DEF DoneSo, IndexOf
    <3>5. earlier = {b \in 0 .. c - 1 : DoneSo(b) /\ cmd[b].epoch = cmd[c].epoch}
      BY <2>2, <3>4
    <3>6. \A b \in earlier : b \in 0 .. c - 1
      BY <2>2
    <3>7. \A b \in earlier : IndexOf(b) = ended[b].index
      BY <3>4, <3>6
    <3>8. IF earlier = {} THEN ended[c].index \in 0 .. cmd[c].tears
          ELSE \E b \in earlier :
                 /\ \A d \in earlier : d <= b
                 /\ ended[c].index - IndexOf(b) \in 1 .. 1 + cmd[c].tears - cmd[b].tears
      BY <3>3, <3>5 DEF MayFollow
    <3> QED BY <3>7, <3>8
  <2> QED BY <2>1, <2>2 DEF IndexOrder
<1> QED BY <1>1, BoardInvariance, PTL

\* C5, C6: neither PTQ_HEAD nor an interrupt is ahead of what memory says.
THEOREM BoardNeverAhead == Spec => []NeverAhead
<1>1. ASSUME IInv PROVE NeverAhead
  <2>0. TypeOK /\ IndexInv /\ PendingPast /\ MsiOff /\ MsiOn
    BY <1>1, StatusParts, MsiParts DEF IInv
  <2>n. h.next \in Nat /\ h.hhead \in Nat /\ m.head \in Nat /\ m.head <= h.rung /\ h.rung <= h.next /\ h.rung \in Nat
    BY <2>0, Numbers
  <2>1. ASSUME m.enable, NEW i \in h.hhead .. m.head - 1 PROVE Status(i) # Pending
    <3>1. i \in Live /\ ~(i > m.head) /\ i # m.head
      BY <2>n DEF Live
    <3> QED BY <2>0, <2>1, <3>1 DEF PendingPast
  <2>2. ASSUME NEW n \in 1 .. Len(up), up[n].op = "msi", NEW i \in h.hhead .. h.irq_at - 1
        PROVE  Status(i) # Pending
    <3>1. n \in DOMAIN up
      BY <2>0 DEF TypeOK
    <3>2. up # <<>>
      <4> SUFFICES ASSUME up = <<>> PROVE FALSE
        OBVIOUS
      <4>1. DOMAIN up = {}
        OBVIOUS
      <4> QED BY <3>1, <4>1
    <3>3. h.pc = "await"
      BY <2>0, <2>2, <3>1 DEF MsiOff
    <3>4. h.irq_at = h.next /\ m.enable /\ m.head = h.next
      BY <2>0, <3>2, <3>3 DEF MsiOn, IrqOut
    <3> QED BY <2>1, <3>4
  <2> QED BY <2>1, <2>2 DEF NeverAhead
<1> QED BY <1>1, BoardInvariance, PTL

\* C9: nothing the module has on its way lands on a command the host has ended.
THEOREM BoardEndedUntouched == Spec => []NothingLandsOnEnded
<1>1. ASSUME IInv PROVE NothingLandsOnEnded
  <2>0. TypeOK /\ IndexInv /\ LinesTrue /\ CmdSlots
    BY <1>1, StatusParts, CmdParts DEF IInv
  <2>1. h.next \in Nat /\ h.hhead \in Nat
    BY <2>0, Numbers
  <2>2. \A c \in Live : c \notin EndedCmds
    BY <2>1 DEF Live, EndedCmds
  <2>3. \A l \in wire : l.op = "ItoMWr" => l.cmd \in Live /\ l.cmd = l.idx /\ slot[SlotOf(l.idx)].cmd = l.cmd
    BY <2>0 DEF LinesTrue, LineTrue, CmdSlots
  <2> QED BY <2>2, <2>3 DEF NothingLandsOnEnded
<1> QED BY <1>1, BoardInvariance, PTL

\* C11: the seed reaches the module when it has nothing queued and nothing running.
THEOREM BoardSeedWhenDrained == Spec => []ConfigWhenDrained
<1>1. ASSUME IInv PROVE ConfigWhenDrained
  <2>0. TypeOK /\ ModuleInv /\ AskedInv /\ StartInv /\ QuietInv /\ IndexInv /\ SeedInv
    BY <1>1 DEF IInv, ModuleInv
  <2> SUFFICES ASSUME io # <<>>, IsWrite(Head(io), "SEED") PROVE m.head = m.tail /\ ~m.busy
    BY DEF ConfigWhenDrained, IsWrite
  <2>1. Head(io) = io[1] /\ 1 \in DOMAIN io /\ DOMAIN io = 1 .. Len(io) /\ Len(io) \in Nat
    BY <2>0, Popped DEF TypeOK
  <2>2. SeedFirst(1)
    BY <2>0, <2>1, SeedParts DEF SeedAll
  <2>n. m.head \in Nat /\ m.tail \in Nat
    BY <2>0, Numbers
  <2>3. CASE m.enable
    <3>1. ~\E j \in DOMAIN io : IsRecord(io[j])
      <4>1. ~IsRecord(io[1])
        BY <2>1 DEF IsRecord, IsWrite
      <4>2. \A j \in DOMAIN io : j = 1 \/ j \in 1 + 1 .. Len(io)
        BY <2>1
      <4> QED BY <2>2, <4>1, <4>2 DEF SeedFirst
    <3> DEFINE a == One(\E j \in DOMAIN io : IsRecord(io[j]))
    <3>2. m.tail <= m.head + a
      BY <2>2, <2>3 DEF SeedFirst
    <3>3. a = 0
      BY <3>1 DEF One
    <3> HIDE DEF a
    <3>4. m.head <= m.tail /\ (m.busy <=> m.head # m.tail)
      BY <2>0, <2>3, IndexParts DEF Enabled
    <3> QED BY <2>n, <3>2, <3>3, <3>4
  <2>4. CASE ~m.enable
    <3>1. ~m.busy
      BY <2>0, <2>4 DEF ModuleInv, StageInv, Stopped, Waiting, Wedged, Fetching, Loading, Shooting, Recording
    <3>2. Working \/ Stopping
      BY <2>0, <2>1, WriteMeans DEF IsWrite
    <3>3. PICK p \in DOMAIN io : StartAt(p)
      BY <2>0, <2>4, <3>2, StartInvIs DEF StartBody
    <3>4. p # 1
      BY <2>1, <3>3 DEF StartAt, Starts, IsWrite
    <3>5. 1 \in 1 .. p - 1
      BY <2>1, <3>4
    <3>6. m.head = m.tail
      BY <2>1, <3>3, <3>5 DEF StartAt
    <3> QED BY <3>1, <3>6
  <2> QED BY <2>3, <2>4
<1> QED BY <1>1, BoardInvariance, PTL

\* A wait that runs out is a wait for a module that has stopped answering.
LEMMA TimeoutMeans ==
  ASSUME IInv, DrainTimeout
  PROVE  m.wedged
<1>0. TypeOK /\ IndexInv /\ PendingPast
  BY StatusParts DEF IInv
<1>1. Working /\ h.hhead < h.next /\ Quiet(up) /\ Status(h.hhead) = Pending /\ h.pc = "drain"
  BY <1>0, DisableIs DEF DrainTimeout
<1> SUFFICES ASSUME ~m.wedged PROVE FALSE
  OBVIOUS
<1>2. m.enable /\ m.head = h.rung
  BY <1>1, QuietMeans
<1>3. h.rung = h.next
  BY <1>0, <1>1, IndexParts DEF HostIdx
<1>4. h.next \in Nat /\ h.hhead \in Nat
  BY <1>0, Numbers
<1>5. h.hhead \in Live /\ ~(h.hhead > m.head) /\ h.hhead # m.head
  BY <1>1, <1>2, <1>3, <1>4 DEF Live
<1> QED BY <1>0, <1>1, <1>2, <1>5 DEF PendingPast

\* The host resets a module it has found not to stop, and that is wedged.
LEMMA ResetMeans ==
  ASSUME IInv, StatusBack, h'.pc = "flr"
  PROVE  m.wedged
<1>0. TypeOK /\ QuietInv
  BY DEF IInv
<1>1. h.pc = "status" /\ up # <<>> /\ up' = Tail(up) /\ Head(up).val /\ h.quiesced
  BY <1>0, StatusBackIs
<1>2. Head(up) = up[1] /\ 1 \in DOMAIN up
  BY <1>0, <1>1, UpTakes
<1>3. up[1] = [op |-> "STATUS", val |-> m.enabled] /\ (m.enabled => m.wedged)
  BY <1>0, <1>1, <1>2 DEF QuietInv
<1> QED BY <1>1, <1>2, <1>3

\* Until the host is told of the reset, nothing happens but the reset.
LEMMA ResetWaits ==
  ASSUME IInv, Next, h.pc = "flr", ~m.wedged
  PROVE  h'.pc # "flr"
<1>0. TypeOK /\ QuietInv /\ StageInv /\ AskedInv
  BY DEF IInv
<1>1. wire = {} /\ up = <<>> /\ io = <<>> /\ m = ResetState(m.gen)
  BY <1>0 DEF QuietInv
<1>2. ~Shot
  <2>1. ~m.enable
    BY <1>1 DEF ResetState
  <2> QED BY <1>0, <2>1, ShotStage DEF Shooting
<1>3. ~Arrive /\ ~WaitRoom /\ ~Done
  BY <1>1 DEF Arrive, WaitRoom, Publishing, Done
<1>4. HostNext
  BY <1>1, <1>2, <1>3 DEF Next
<1>5. ~Plain
  BY PlainMeans
<1>6. ~(SetSeed \/ Publish \/ PublishIrq \/ TryEnd \/ HeadBack)
  BY DEF SetSeed, Publish, PublishIrq, TryEnd, Publishing, HeadBack
<1>7. AfterReset
  BY <1>4, <1>5, <1>6 DEF HostNext, Plain
<1> QED BY <1>0, <1>7, RestartIs

\* C12: no wait of the host runs out on a module that still answers.
THEOREM BoardTimeouts == Spec => OnlyWedgedTimesOut
<1>1. ASSUME IInv, [Next]_vars
      PROVE  [h'.timeouts # h.timeouts \/ h'.pc = "flr" => m.wedged]_vars
  <2> SUFFICES ASSUME Next, ~m.wedged PROVE h'.timeouts = h.timeouts /\ h'.pc # "flr"
    BY <1>1
  <2>0. TypeOK
    BY <1>1 DEF IInv
  <2>1. h.pc = "flr" => h'.pc # "flr"
    BY <1>1, ResetWaits
  <2>2. CASE h' = h
    BY <2>1, <2>2
  <2>3. CASE HostNext
    <3>1. CASE DrainTimeout
      BY <1>1, <3>1, TimeoutMeans
    <3>2. CASE Teardown
      BY <2>0, <3>2, DisableIs DEF DrainTimeout, Teardown
    <3>3. CASE StatusBack
      BY <1>1, <2>0, <3>3, StatusBackIs, ResetMeans DEF SameFails
    <3>4. CASE Publish \/ PublishIrq
      BY <2>0, <3>4, PublishIs, PublishIrqIs DEF SameFails, SamePc
    <3>5. CASE TryEnd
      BY <2>0, <3>5, TryEndIs DEF SameFails, SamePc
    <3>6. CASE HeadBack \/ AfterReset
      BY <2>0, <3>6, RestartIs DEF SameFails
    <3>7. CASE Ring \/ IrqOff \/ SetSeed \/ Drain \/ Drained \/ TakeMsi \/ Awaited
      BY <2>0, <2>1, <3>7, PlainHostIs DEF SameFails, SamePc
    <3> QED BY <2>3, <3>1, <3>2, <3>3, <3>4, <3>5, <3>6, <3>7 DEF HostNext
  <2>4. CASE Arrive \/ Shot \/ (\E l \in wire : Land(l) \/ AtHost(l)) \/ WaitRoom \/ Done
    BY <2>2, <2>4 DEF Arrive, Shot, Land, AtHost, WaitRoom, Done, vars
  <2> QED BY <2>3, <2>4 DEF Next
<1> QED BY <1>1, BoardInvariance, PTL DEF Spec, OnlyWedgedTimesOut

=============================================================================

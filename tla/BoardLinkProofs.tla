--------------------------- MODULE BoardLinkProofs ---------------------------
(***************************************************************************)
(* The link of BoardTransport: the order of what the host writes and asks, *)
(* the indices on both sides, the seed and the interrupt.                  *)
(***************************************************************************)
EXTENDS BoardModuleProofs

-----------------------------------------------------------------------------
(* What a step does to the module's registers. *)

\* The registers these invariants speak of are as they were.
Unmoved ==
  /\ m'.enable = m.enable /\ m'.enabled = m.enabled /\ m'.ring = m.ring /\ m'.wedged = m.wedged
  /\ m'.head = m.head /\ m'.tail = m.tail /\ m'.halted = m.halted /\ m'.busy = m.busy
  /\ m'.seed = m.seed /\ m'.irq_at = m.irq_at /\ m'.prev = m.prev

\* Nothing the host or the module decides on: what arrives is taken note of.
Passes ==
  Ignored \/ SameQueue \/ Answer \/ (\E s \in Failed : EndsEarly(s)) \/ StartGemm \/ Operands
    \/ OneOrdered \/ LastOrdered

LEMMA PassesIs ==
  ASSUME TypeOK, Passes
  PROVE  Pop /\ Unmoved
<1>m. m \in ModuleStates
  BY DEF TypeOK
<1>i. m.inflight + 1 \in Int /\ m.inflight - 1 \in Int /\ (m.inflight - 1) + 1 \in Int /\ m.gemm_ct + 1 \in Nat
  BY <1>m DEF ModuleStates
<1>1. CASE Ignored \/ Answer \/ Operands
  BY <1>1 DEF Ignored, Answer, Operands, Unmoved
<1>2. CASE SameQueue
  BY <1>2, <1>m DEF SameQueue, Unmoved, ModuleStates
<1>3. ASSUME NEW s \in Failed, EndsEarly(s) PROVE Pop /\ Unmoved
  BY <1>3, <1>m, <1>i DEF EndsEarly, IsDescriptor, Unmoved, ModuleStates
<1>4. CASE StartGemm
  BY <1>4, <1>m, <1>i DEF StartGemm, IsDescriptor, Unmoved, ModuleStates
<1>5. CASE OneOrdered
  BY <1>5, <1>m, <1>i DEF OneOrdered, Unmoved, ModuleStates
<1>6. CASE LastOrdered
  BY <1>6, <1>m, <1>i DEF LastOrdered, Unmoved, ModuleStates
<1> QED
  BY <1>1, <1>2, <1>3, <1>4, <1>5, <1>6 DEF Passes

\* A register write, one field at a time.
LEMMA RegisterIs ==
  ASSUME TypeOK
  PROVE  /\ TailOff => /\ Pop /\ m'.tail = Msg.val /\ m'.enable = m.enable /\ m'.enabled = m.enabled
                       /\ m'.ring = m.ring /\ m'.wedged = m.wedged /\ m'.head = m.head
                       /\ m'.halted = m.halted /\ m'.busy = m.busy /\ m'.seed = m.seed
                       /\ m'.irq_at = m.irq_at /\ m'.prev = m.prev /\ m'.gemm_ct = m.gemm_ct
         /\ SetRing => /\ Pop /\ m'.tail = m.tail /\ m'.enable = m.enable /\ m'.enabled = m.enabled
                       /\ m'.ring = (m.ring \/ ~m.enable) /\ m'.wedged = m.wedged /\ m'.head = m.head
                       /\ m'.halted = m.halted /\ m'.busy = m.busy /\ m'.seed = m.seed
                       /\ m'.irq_at = m.irq_at /\ m'.prev = m.prev /\ m'.gemm_ct = m.gemm_ct
         /\ SetIrqAt => /\ Pop /\ m'.tail = m.tail /\ m'.enable = m.enable /\ m'.enabled = m.enabled
                        /\ m'.ring = m.ring /\ m'.wedged = m.wedged /\ m'.head = m.head
                        /\ m'.halted = m.halted /\ m'.busy = m.busy /\ m'.seed = m.seed
                        /\ m'.irq_at = Msg.val /\ m'.prev = m.prev /\ m'.gemm_ct = m.gemm_ct
         /\ TakeSeed => /\ Pop /\ m'.tail = m.tail /\ m'.enable = m.enable /\ m'.enabled = m.enabled
                        /\ m'.ring = m.ring /\ m'.wedged = m.wedged /\ m'.head = m.head
                        /\ m'.halted = m.halted /\ m'.busy = m.busy /\ m'.seed = Msg.val
                        /\ m'.irq_at = m.irq_at /\ m'.prev = m.prev /\ m'.gemm_ct = 0
         /\ Wedge => /\ Pop /\ m'.tail = m.tail /\ m'.enable = m.enable /\ m'.enabled = m.enabled
                     /\ m'.ring = m.ring /\ m'.wedged = TRUE /\ m'.head = m.head
                     /\ m'.halted = m.halted /\ m'.busy = m.busy /\ m'.seed = m.seed
                     /\ m'.irq_at = m.irq_at /\ m'.prev = m.prev /\ m'.gemm_ct = m.gemm_ct
<1>m. m \in ModuleStates
  BY DEF TypeOK
<1>1. CASE TailOff
  BY <1>1, <1>m DEF TailOff, SetRing, SetIrqAt, TakeSeed, Wedge, IsDescriptor, IsWrite, ModuleStates
<1>2. CASE SetRing /\ m.enable
  BY <1>2, <1>m DEF TailOff, SetRing, SetIrqAt, TakeSeed, Wedge, IsDescriptor, IsWrite, ModuleStates
<1>3. CASE SetRing /\ ~m.enable
  BY <1>3, <1>m DEF TailOff, SetRing, SetIrqAt, TakeSeed, Wedge, IsDescriptor, IsWrite, ModuleStates
<1>4. CASE SetIrqAt
  BY <1>4, <1>m DEF TailOff, SetRing, SetIrqAt, TakeSeed, Wedge, IsDescriptor, IsWrite, ModuleStates
<1>5. CASE TakeSeed
  BY <1>5, <1>m DEF TailOff, SetRing, SetIrqAt, TakeSeed, Wedge, IsDescriptor, IsWrite, ModuleStates
<1>6. CASE Wedge
  BY <1>6, <1>m DEF TailOff, SetRing, SetIrqAt, TakeSeed, Wedge, IsDescriptor, IsWrite, ModuleStates
<1> QED
  BY <1>1, <1>2, <1>3, <1>4, <1>5, <1>6

\* What a step adds to the wire are reads only.
OnlyReads == wire \subseteq wire' /\ \A l \in wire' : l \in wire \/ (l.op = "RdCurr" /\ l.job = m'.job)

LEMMA KickReads ==
  ASSUME NEW mm \in ModuleStates, mm.head \in Int, Kick(mm, wire)
  PROVE  OnlyReads
<1>1. ReadLine(mm, "desc", mm.head).op = "RdCurr" /\ ReadLine(mm, "desc", mm.head).job = mm.job
  BY DEF ReadLine
<1>2. m'.job = mm.job /\ (wire' = wire \/ wire' = wire \cup {ReadLine(mm, "desc", mm.head)})
  BY KickIs
<1> QED BY <1>1, <1>2 DEF OnlyReads

\* The queue starts at PTQ_TAIL, empty.
LEMMA StartQueueIs ==
  ASSUME TypeOK, ModuleInv, AskedInv, StartInv, QuietInv, StartQueue
  PROVE  /\ Pop /\ Starts(Msg) /\ UNCHANGED <<wire, up, g>> /\ ~m.enable /\ ~m.enabled
         /\ m'.enable /\ m'.enabled /\ m'.ring /\ ~m'.wedged /\ ~m'.halted /\ ~m'.busy
         /\ m'.head = h.origin /\ m'.tail = h.origin /\ m.tail = h.origin /\ m'.prev = "none"
         /\ m'.seed = m.seed /\ m'.irq_at = m.irq_at /\ m'.gemm_ct = m.gemm_ct /\ m'.job = m.job
         /\ m.ring /\ Stopped /\ m.inflight = 0 /\ \A k \in 0 .. 3 : ~Out(k)
<1> DEFINE mm == [m EXCEPT !.irq_en = Msg.val.irq, !.enable = TRUE, !.enabled = TRUE, !.head = m.tail,
                           !.prev = "none", !.halted = FALSE]
<1>1. Pop /\ Starts(Msg) /\ ~m.wedged /\ ~m.enable /\ Kick(mm, wire) /\ UNCHANGED <<g, up>>
  BY DEF StartQueue
<1>2. m \in ModuleStates /\ Msg \in Messages /\ Msg.op = "write" /\ Msg.reg = "CTRL"
  BY <1>1, HeadTyped DEF TypeOK, Starts, IsWrite, Pop
<1>3. Msg.val.irq \in BOOLEAN
  BY <1>2, MessageShape DEF Controls, Flr
<1>4. mm \in ModuleStates
  BY <1>2, <1>3 DEF ModuleStates
<1>5. ~m.enabled /\ m.ring /\ m.tail = h.origin
  BY <1>1, StartIs
<1>6. StageInv /\ ErrandInv
  BY DEF ModuleInv
<1>7. m.inflight = 0
  BY <1>1, <1>5, <1>6 DEF StageInv
<1>8. Stopped
  BY <1>1, <1>6 DEF StageInv, Waiting, Wedged, Fetching, Loading, Shooting, Recording
<1>9. ~Out(0) /\ ~Out(1) /\ ~Out(2) /\ ~Out(3) /\ ~m.busy
  BY <1>6, <1>7, <1>8 DEF ErrandInv, One, Stopped
<1>10. /\ mm.enable /\ mm.enabled /\ mm.ring /\ ~mm.wedged /\ ~mm.halted /\ ~mm.busy
       /\ mm.head = m.tail /\ mm.tail = m.tail /\ mm.prev = "none"
       /\ mm.seed = m.seed /\ mm.irq_at = m.irq_at /\ mm.gemm_ct = m.gemm_ct /\ mm.job = m.job
  BY <1>1, <1>2, <1>5, <1>9 DEF ModuleStates
<1> HIDE DEF mm
<1>11. ~CanKick(mm)
  BY <1>10 DEF CanKick
<1>12. m' = mm /\ wire' = wire
  BY <1>1, <1>11 DEF Kick
<1>13. \A k \in 0 .. 3 : ~Out(k)
  BY <1>9
<1> QED BY <1>1, <1>5, <1>7, <1>8, <1>10, <1>12, <1>13

LEMMA StopQueueIs ==
  ASSUME TypeOK, ModuleInv, StopQueue
  PROVE  /\ Pop /\ Stops(Msg) /\ UNCHANGED <<wire, up>> /\ g' = Idle /\ m.enable /\ ~m.wedged
         /\ ~m'.enable /\ m'.enabled = (m.inflight # 0) /\ m'.ring = m.ring /\ ~m'.wedged
         /\ m'.halted = m.halted /\ ~m'.busy /\ m'.head = m.head /\ m'.tail = m.tail
         /\ m'.prev = m.prev /\ m'.seed = m.seed /\ m'.irq_at = m.irq_at /\ m'.gemm_ct = m.gemm_ct
         /\ m'.job = m.job + 1
<1> DEFINE mm == [m EXCEPT !.irq_en = Msg.val.irq, !.enable = FALSE, !.job = m.job + 1,
                           !.busy = FALSE, !.draining = TRUE]
<1>1. Pop /\ Stops(Msg) /\ ~m.wedged /\ m.enable /\ m' = Settle(mm) /\ g' = Idle /\ wire' = wire /\ up' = up
  BY DEF StopQueue
<1>2. m \in ModuleStates /\ Msg \in Messages /\ Msg.op = "write" /\ Msg.reg = "CTRL" /\ m.job + 1 \in Nat
  <2>1. m \in ModuleStates
    BY DEF TypeOK
  <2>2. Msg \in Messages /\ Msg.op = "write" /\ Msg.reg = "CTRL"
    BY <1>1, HeadTyped DEF Stops, IsWrite, Pop
  <2> QED BY <2>1, <2>2 DEF ModuleStates
<1>3. Msg.val.irq \in BOOLEAN
  BY <1>2, MessageShape DEF Controls, Flr
<1>4. mm \in ModuleStates
  BY <1>2, <1>3 DEF ModuleStates
<1>5. m.enabled
  BY <1>1 DEF ModuleInv, StageInv
<1>6. /\ mm.draining /\ mm.draining = mm.enabled /\ mm.job = m.job + 1 /\ ~mm.enable
      /\ mm.inflight = m.inflight /\ ~mm.wedged /\ ~mm.busy /\ mm.ring = m.ring /\ mm.halted = m.halted
      /\ mm.head = m.head /\ mm.tail = m.tail /\ mm.prev = m.prev /\ mm.seed = m.seed
      /\ mm.irq_at = m.irq_at /\ mm.gemm_ct = m.gemm_ct
  BY <1>1, <1>2, <1>5 DEF ModuleStates
<1> HIDE DEF mm
<1> QED BY <1>1, <1>4, <1>6, SettleIs

\* A doorbell the host rings is good, and the module is at work then.
LEMMA TailOnIs ==
  ASSUME TypeOK, ModuleInv, IndexInv, TailOn
  PROVE  /\ Pop /\ IsWrite(Msg, "TAIL") /\ UNCHANGED <<up, g>> /\ m.enable /\ OnlyReads
         /\ m'.enable = m.enable /\ m'.enabled = m.enabled /\ m'.ring = m.ring /\ ~m.wedged /\ ~m'.wedged
         /\ m'.halted = m.halted /\ m'.busy /\ m'.head = m.head /\ m'.tail = Msg.val /\ m.tail < Msg.val
         /\ m'.prev = m.prev /\ m'.seed = m.seed /\ m'.irq_at = m.irq_at /\ m'.gemm_ct = m.gemm_ct
         /\ m'.job = m.job /\ Msg.val \in Nat
<1> DEFINE mm == [m EXCEPT !.tail = Msg.val]
<1>1. Pop /\ IsWrite(Msg, "TAIL") /\ ~m.wedged /\ m.enable /\ Kick(mm, wire) /\ UNCHANGED <<up, g>>
  BY DEF TailOn
<1>2. m \in ModuleStates /\ Msg.val \in Nat
  <2>1. Msg \in Messages /\ Msg.op = "write" /\ Msg.reg = "TAIL"
    BY <1>1, HeadTyped DEF IsWrite, Pop
  <2>2. Msg.val \in Nat
    BY <2>1, MessageShape DEF Controls, Flr
  <2> QED BY <2>2 DEF TypeOK
<1>3. mm \in ModuleStates
  BY <1>2 DEF ModuleStates
<1>4. /\ mm.enable = m.enable /\ mm.enabled = m.enabled /\ mm.ring = m.ring /\ mm.wedged = m.wedged
      /\ mm.halted = m.halted /\ mm.busy = m.busy /\ mm.head = m.head /\ mm.tail = Msg.val
      /\ mm.prev = m.prev /\ mm.seed = m.seed /\ mm.irq_at = m.irq_at /\ mm.gemm_ct = m.gemm_ct
      /\ mm.job = m.job
  BY <1>2 DEF ModuleStates
<1> HIDE DEF mm
<1>5. m.tail < Msg.val /\ m.head <= m.tail /\ ~m.halted
  BY <1>1, HeadTyped DEF IndexInv, Pop
<1>6. m.head \in Nat /\ m.tail \in Nat
  BY <1>2 DEF ModuleStates
<1>7. mm.busy \/ CanKick(mm)
  BY <1>1, <1>2, <1>4, <1>5, <1>6 DEF CanKick
<1>8. OnlyReads
  BY <1>1, <1>3, <1>4, <1>6, KickReads
<1>9. /\ m'.enable = mm.enable /\ m'.enabled = mm.enabled /\ m'.ring = mm.ring /\ m'.wedged = mm.wedged
      /\ m'.halted = mm.halted /\ m'.busy /\ m'.head = mm.head /\ m'.tail = mm.tail
      /\ m'.prev = mm.prev /\ m'.seed = mm.seed /\ m'.irq_at = mm.irq_at /\ m'.gemm_ct = mm.gemm_ct
      /\ m'.job = mm.job
  BY <1>1, <1>3, <1>7, KickIs
<1> QED BY <1>1, <1>2, <1>4, <1>5, <1>8, <1>9

LEMMA DroppedIs ==
  ASSUME TypeOK, ModuleInv, Dropped
  PROVE  /\ Pop /\ Msg.op = "go" /\ UNCHANGED <<wire, up, g>> /\ Stopped /\ m.enabled
         /\ ~m.enable /\ ~m'.enable /\ m'.ring = m.ring /\ m'.wedged = m.wedged
         /\ m'.halted = m.halted /\ m'.busy = m.busy /\ m'.head = m.head /\ m'.tail = m.tail
         /\ m'.prev = m.prev /\ m'.seed = m.seed /\ m'.irq_at = m.irq_at /\ m'.gemm_ct = m.gemm_ct
         /\ m'.job = m.job
<1> DEFINE mm == [m EXCEPT !.inflight = @ - 1, !.busy = IF Msg.what = "rec" THEN FALSE ELSE @]
<1>1. Pop /\ Msg.op = "go" /\ m' = Settle(mm) /\ UNCHANGED <<wire, up, g>>
      /\ (Msg.what = "rec" => ~m.enable \/ Msg.job # m.job) /\ (Msg.what = "res" => Msg.job # m.job)
  BY DEF Dropped
<1>2. ~m.enable /\ Stopped
  <2>1. Msg.what \in {"res", "rec"}
    BY <1>1, GoIs DEF Results, Records
  <2> QED BY <1>1, <2>1, GoIs
<1>3. m \in ModuleStates /\ m.inflight \in Int /\ m.inflight - 1 \in Int
  <2>1. m \in ModuleStates
    BY DEF TypeOK
  <2>2. m.inflight \in Int
    BY <2>1 DEF ModuleStates
  <2> QED BY <2>1, <2>2
<1>4. mm \in ModuleStates
  BY <1>3 DEF ModuleStates
<1>5. m.draining /\ m.enabled /\ m.draining = m.enabled
  <2>1. m.inflight - 1 >= 0
    BY <1>1, <1>3, GoCounts DEF One
  <2>2. m.inflight >= 1
    BY <1>3, <2>1
  <2> QED BY <1>2, <1>3, <2>2 DEF ModuleInv, StageInv, ModuleStates
<1>6. /\ mm.draining /\ mm.draining = mm.enabled /\ mm.job = m.job /\ ~mm.enable
      /\ mm.wedged = m.wedged /\ mm.busy = m.busy /\ mm.ring = m.ring /\ mm.halted = m.halted
      /\ mm.head = m.head /\ mm.tail = m.tail /\ mm.prev = m.prev /\ mm.seed = m.seed
      /\ mm.irq_at = m.irq_at /\ mm.gemm_ct = m.gemm_ct
  BY <1>2, <1>3, <1>5 DEF ModuleStates, Stopped
<1> HIDE DEF mm
<1> QED BY <1>1, <1>2, <1>4, <1>5, <1>6, SettleIs

\* The record is ordered: PTQ_HEAD is past the slot, and the module is on the next one
\* if there is one.
LEMMA NextSlotIs ==
  ASSUME TypeOK, ModuleInv, IndexInv, StatusInv, NextSlot
  PROVE  /\ Pop /\ IsRecord(Msg) /\ g' = g /\ OnlyReads /\ Recording /\ m.enable /\ m.busy
         /\ m'.enable /\ m'.enabled = m.enabled /\ m'.ring = m.ring /\ ~m'.wedged /\ ~m.wedged
         /\ m'.halted = m.halted /\ m'.head = m.head + 1 /\ m'.tail = m.tail /\ m.head < m.tail
         /\ m'.busy <=> m'.head # m'.tail
         /\ m'.prev = cmd[m.head].due /\ m'.seed = m.seed /\ m'.irq_at = m.irq_at
         /\ m'.gemm_ct = m.gemm_ct /\ m'.job = m.job
         /\ up' = up \/ (up' = Append(up, [op |-> "msi"]) /\ m.irq_at = m.head + 1)
         /\ m.irq_en /\ m.irq_at = m.head + 1 => up' = Append(up, [op |-> "msi"])
<1> DEFINE mm == [m EXCEPT !.inflight = @ - 1, !.busy = FALSE, !.head = Msg.idx + 1, !.prev = Msg.status]
<1>1. Pop /\ Msg.op = "go" /\ Msg.what = "rec" /\ IsRecord(Msg) /\ m.enable /\ Kick(mm, wire) /\ g' = g
      /\ up' = up \o Msi(mm)
  BY DEF NextSlot, IsRecord
<1>2. m \in ModuleStates /\ Msg \in Records("go") /\ up \in Seq(Answers)
  BY <1>1, GoIs DEF TypeOK, Results
<1>3. Msg.idx = m.head /\ Msg.status \in Statuses /\ m.head + 1 \in Nat /\ m.inflight - 1 \in Int
      /\ m.head \in Nat /\ m.tail \in Nat /\ Msg.status = cmd[m.head].due
  <2>1. Msg.idx = m.head /\ Msg.status = cmd[m.head].due
    BY <1>1, PopShifts DEF StatusInv, Shifted
  <2> QED BY SMTT(30), <1>2, <2>1 DEF Records, ModuleStates
<1>4. mm \in ModuleStates
  BY <1>2, <1>3 DEF ModuleStates
<1>5. Recording /\ m.busy /\ ~m.wedged /\ ~m.halted /\ m.head < m.tail
  <2>1. Recording /\ m.busy /\ ~m.wedged /\ m.enable
    BY <1>1, GoIs DEF Recording
  <2>2. ~m.halted /\ m.head <= m.tail /\ m.head # m.tail
    BY <2>1 DEF IndexInv
  <2> QED BY <1>3, <2>1, <2>2
<1>6. /\ mm.enable = m.enable /\ mm.enabled = m.enabled /\ mm.ring = m.ring /\ mm.wedged = m.wedged
      /\ mm.halted = m.halted /\ ~mm.busy /\ mm.head = m.head + 1 /\ mm.tail = m.tail
      /\ mm.prev = cmd[m.head].due /\ mm.seed = m.seed /\ mm.irq_at = m.irq_at /\ mm.gemm_ct = m.gemm_ct
      /\ mm.job = m.job /\ mm.irq_en = m.irq_en
  BY <1>2, <1>3 DEF ModuleStates
<1> HIDE DEF mm
<1>7. OnlyReads
  BY <1>1, <1>3, <1>4, <1>6, KickReads
<1>8. mm.busy \/ CanKick(mm) <=> mm.head # mm.tail
  BY <1>1, <1>5, <1>6 DEF CanKick
<1>9. /\ m'.enable = mm.enable /\ m'.enabled = mm.enabled /\ m'.ring = mm.ring /\ m'.wedged = mm.wedged
      /\ m'.halted = mm.halted /\ m'.head = mm.head /\ m'.tail = mm.tail
      /\ m'.prev = mm.prev /\ m'.seed = mm.seed /\ m'.irq_at = mm.irq_at /\ m'.gemm_ct = mm.gemm_ct
      /\ m'.job = mm.job /\ (m'.busy <=> mm.head # mm.tail)
  BY <1>1, <1>4, <1>8, KickIs
<1>10. /\ up' = up \/ (up' = Append(up, [op |-> "msi"]) /\ m.irq_at = m.head + 1)
       /\ m.irq_en /\ m.irq_at = m.head + 1 => up' = Append(up, [op |-> "msi"])
  <2>1. CASE mm.irq_en /\ mm.head = mm.irq_at
    <3>1. Msi(mm) = <<[op |-> "msi"]>>
      BY <2>1 DEF Msi
    <3>2. up \o <<[op |-> "msi"]>> = Append(up, [op |-> "msi"])
      BY <1>2
    <3> QED BY <1>1, <1>6, <2>1, <3>1, <3>2
  <2>2. CASE ~(mm.irq_en /\ mm.head = mm.irq_at)
    <3>1. Msi(mm) = <<>>
      BY <2>2 DEF Msi
    <3>2. up \o <<>> = up
      BY <1>2
    <3> QED BY <1>1, <1>6, <2>2, <3>1, <3>2
  <2> QED BY <2>1, <2>2
<1> QED BY <1>1, <1>5, <1>6, <1>7, <1>9, <1>10

-----------------------------------------------------------------------------
(* What a step of the host does to its own state. *)

SameIdx   == h'.next = h.next /\ h'.hhead = h.hhead /\ h'.rung = h.rung /\ h'.origin = h.origin
SameConf  == h'.seed = h.seed /\ h'.epoch = h.epoch /\ h'.tears = h.tears
SameFails == h'.timeouts = h.timeouts /\ h'.downs = h.downs
SameIrq   == h'.irq_at = h.irq_at /\ h'.msi = h.msi
SamePc    == h'.pc = h.pc /\ h'.quiesced = h.quiesced

LEMMA PublishIs ==
  ASSUME TypeOK, Publish
  PROVE  /\ h.pc = "script" /\ h.next < NumCmds /\ Store /\ SamePc /\ SameConf /\ SameFails /\ SameIrq
         /\ h'.next = h.next + 1 /\ h'.hhead = h.hhead /\ h'.rung = h.rung /\ h'.origin = h.origin
         /\ h'.before = Expect(Command.kind, h.before) /\ io' = io /\ up' = up
<1>1. h \in HostStates /\ h.next + 1 \in Nat
  BY DEF TypeOK, HostStates
<1>2. Expect(Command.kind, h.before) \in Statuses
  BY ExpectTyped DEF Failed, Statuses
<1>3. h' = [h EXCEPT !.next = h.next + 1, !.before = Expect(Command.kind, h.before)]
  BY DEF Publish
<1> QED BY <1>1, <1>2, <1>3 DEF Publish, Store, HostStates, SamePc, SameConf, SameFails, SameIrq

LEMMA PublishIrqIs ==
  ASSUME TypeOK, PublishIrq
  PROVE  /\ h.pc = "script" /\ h.next < NumCmds /\ Store /\ SameConf /\ SameFails /\ h'.quiesced = h.quiesced
         /\ h'.pc = "await" /\ h.rung = h.next /\ h'.irq_at = h.next + 1 /\ h'.msi = FALSE
         /\ h'.next = h.next + 1 /\ h'.hhead = h.hhead /\ h'.rung = h.next + 1 /\ h'.origin = h.origin
         /\ h'.before = Expect(Command.kind, h.before) /\ up' = up
<1>1. h \in HostStates /\ h.next + 1 \in Nat
  BY DEF TypeOK, HostStates
<1>2. Expect(Command.kind, h.before) \in Statuses
  BY ExpectTyped DEF Failed, Statuses
<1> DEFINE b == Expect(Command.kind, h.before)
<1>3. h' = [h EXCEPT !.pc = "await", !.next = h.next + 1, !.rung = h.next + 1, !.irq = TRUE,
                    !.irq_at = h.next + 1, !.msi = FALSE, !.before = b]
  BY DEF PublishIrq
<1> HIDE DEF b
<1>4. /\ SameConf /\ SameFails /\ h'.quiesced = h.quiesced
      /\ h'.pc = "await" /\ h'.irq_at = h.next + 1 /\ h'.msi = FALSE
      /\ h'.next = h.next + 1 /\ h'.hhead = h.hhead /\ h'.rung = h.next + 1 /\ h'.origin = h.origin
      /\ h'.before = b
  BY <1>1, <1>3 DEF HostStates, SameConf, SameFails
<1> QED BY <1>4 DEF PublishIrq, Store, b

\* The steps that leave the ring and the command buffers alone.
LEMMA PlainHostIs ==
  ASSUME TypeOK
  PROVE  /\ Ring => /\ h.pc = "script" /\ SamePc /\ SameConf /\ SameFails /\ SameIrq
                    /\ h'.next = h.next /\ h'.hhead = h.hhead /\ h'.rung = h.next /\ h'.origin = h.origin
                    /\ h'.before = h.before /\ h.rung # h.next /\ up' = up
         /\ IrqOff => /\ h.pc = "script" /\ h.hhead = h.next /\ SamePc /\ SameConf /\ SameFails /\ SameIrq
                      /\ SameIdx /\ h'.before = h.before /\ up' = up
         /\ SetSeed => /\ h.pc = "script" /\ h.hhead = h.next /\ SamePc /\ SameFails /\ SameIrq /\ SameIdx
                       /\ h'.seed = h.seed + 1 /\ h'.epoch = h.epoch + 1 /\ h'.tears = 0
                       /\ h'.before = h.before /\ up' = up
         /\ Drain => /\ h.pc = "script" /\ h.rung = h.next /\ h'.pc = "drain" /\ h'.quiesced = h.quiesced
                     /\ SameConf /\ SameFails /\ SameIrq /\ SameIdx /\ h'.before = h.before /\ up' = up
         /\ Drained => /\ h.pc = "drain" /\ h.hhead = h.next /\ h'.pc = "script" /\ h'.quiesced = h.quiesced
                       /\ SameConf /\ SameFails /\ SameIrq /\ SameIdx /\ h'.before = h.before /\ up' = up
         /\ TakeMsi => /\ up # <<>> /\ Head(up).op = "msi" /\ up' = Tail(up) /\ SamePc /\ SameConf
                       /\ SameFails /\ SameIdx /\ h'.irq_at = h.irq_at /\ h'.msi = TRUE
                       /\ h'.before = h.before
         /\ Awaited => /\ h.pc = "await" /\ (h.msi \/ Quiet(up)) /\ h'.pc = "drain"
                       /\ h'.quiesced = h.quiesced /\ SameConf /\ SameFails /\ SameIrq /\ SameIdx
                       /\ h'.before = h.before /\ up' = up
         /\ Ring \/ IrqOff \/ SetSeed \/ Drain \/ Drained \/ TakeMsi \/ Awaited =>
              UNCHANGED <<m, g, script, wire, slot, res, cmd, ended>>
<1>1. h \in HostStates /\ h.seed + 1 \in Nat /\ h.epoch + 1 \in Nat
  BY SMTT(30) DEF TypeOK, HostStates
<1> USE <1>1 DEF HostStates, SamePc, SameConf, SameFails, SameIrq, SameIdx
<1>2. Ring => /\ h.pc = "script" /\ SamePc /\ SameConf /\ SameFails /\ SameIrq
              /\ h'.next = h.next /\ h'.hhead = h.hhead /\ h'.rung = h.next /\ h'.origin = h.origin
              /\ h'.before = h.before /\ h.rung # h.next /\ up' = up
  BY DEF Ring
<1>3. IrqOff => /\ h.pc = "script" /\ h.hhead = h.next /\ SamePc /\ SameConf /\ SameFails /\ SameIrq
                /\ SameIdx /\ h'.before = h.before /\ up' = up
  BY DEF IrqOff
<1>4. SetSeed => /\ h.pc = "script" /\ h.hhead = h.next /\ SamePc /\ SameFails /\ SameIrq /\ SameIdx
                 /\ h'.seed = h.seed + 1 /\ h'.epoch = h.epoch + 1 /\ h'.tears = 0
                 /\ h'.before = h.before /\ up' = up
  BY DEF SetSeed
<1>5. Drain => /\ h.pc = "script" /\ h.rung = h.next /\ h'.pc = "drain" /\ h'.quiesced = h.quiesced
               /\ SameConf /\ SameFails /\ SameIrq /\ SameIdx /\ h'.before = h.before /\ up' = up
  BY DEF Drain
<1>6. Drained => /\ h.pc = "drain" /\ h.hhead = h.next /\ h'.pc = "script" /\ h'.quiesced = h.quiesced
                 /\ SameConf /\ SameFails /\ SameIrq /\ SameIdx /\ h'.before = h.before /\ up' = up
  BY DEF Drained
<1>7. TakeMsi => /\ up # <<>> /\ Head(up).op = "msi" /\ up' = Tail(up) /\ SamePc /\ SameConf
                 /\ SameFails /\ SameIdx /\ h'.irq_at = h.irq_at /\ h'.msi = TRUE
                 /\ h'.before = h.before
  BY DEF TakeMsi
<1>8. Awaited => /\ h.pc = "await" /\ (h.msi \/ Quiet(up)) /\ h'.pc = "drain"
                 /\ h'.quiesced = h.quiesced /\ SameConf /\ SameFails /\ SameIrq /\ SameIdx
                 /\ h'.before = h.before /\ up' = up
  BY DEF Awaited
<1>9. Ring \/ IrqOff \/ SetSeed \/ Drain \/ Drained \/ TakeMsi \/ Awaited =>
        UNCHANGED <<m, g, script, wire, slot, res, cmd, ended>>
  BY DEF Ring, IrqOff, SetSeed, Drain, Drained, TakeMsi, Awaited
<1> QED BY <1>2, <1>3, <1>4, <1>5, <1>6, <1>7, <1>8, <1>9

LEMMA TryEndIs ==
  ASSUME TypeOK, TryEnd
  PROVE  /\ h.pc \in {"drain", "script"} /\ Status(h.hhead) # Pending /\ SamePc /\ SameConf /\ SameFails
         /\ (h.hhead < h.next \/ Room <= 0) /\ Complete({h.hhead}, slot) /\ SameIrq
         /\ h'.next = h.next /\ h'.hhead = h.hhead + 1 /\ h'.rung = h.rung /\ h'.origin = h.origin
         /\ h'.before = h.before /\ UNCHANGED <<m, g, script, io, up, wire, slot, res, cmd>>
<1>1. h \in HostStates /\ h.hhead + 1 \in Nat
  BY DEF TypeOK, HostStates
<1> QED BY <1>1 DEF TryEnd, Publishing, HostStates, SamePc, SameConf, SameFails, SameIrq

\* The teardown, and the reset that follows when the module does not stop.
LEMMA DisableIs ==
  ASSUME TypeOK, DrainTimeout \/ Teardown
  PROVE  /\ Working /\ h.hhead < h.next /\ (h.pc = "script" => h.rung = h.next) /\ h.pc \in {"script", "drain"}
         /\ h'.pc = "status" /\ ~h'.quiesced /\ SameConf /\ SameIrq /\ SameIdx /\ h'.before = h.before
         /\ h'.timeouts + h'.downs > 0 /\ UNCHANGED <<m, g, script, up, wire, slot, res, cmd, ended>>
         /\ DrainTimeout => Quiet(up) /\ Status(h.hhead) = Pending
         /\ h'.timeouts # h.timeouts => DrainTimeout
<1>1. h \in HostStates /\ h.timeouts \in Nat /\ h.downs \in Nat /\ h.timeouts + 1 \in Nat /\ h.downs + 1 \in Nat
  BY SMTT(30) DEF TypeOK, HostStates
<1>2. CASE DrainTimeout
  <2>1. h' = [[h EXCEPT !.timeouts = h.timeouts + 1] EXCEPT !.pc = "status", !.quiesced = FALSE]
    BY <1>2 DEF DrainTimeout, Disable
  <2>2. /\ h'.pc = "status" /\ ~h'.quiesced /\ SameConf /\ SameIrq /\ SameIdx /\ h'.before = h.before
        /\ h'.timeouts = h.timeouts + 1 /\ h'.downs = h.downs
    BY <1>1, <2>1 DEF HostStates, SameConf, SameIrq, SameIdx
  <2>3. h'.timeouts + h'.downs > 0
    BY <1>1, <2>2
  <2> QED BY <1>2, <2>2, <2>3 DEF DrainTimeout, Working
<1>3. CASE Teardown
  <2>1. h' = [[h EXCEPT !.downs = h.downs + 1] EXCEPT !.pc = "status", !.quiesced = FALSE]
    BY <1>3 DEF Teardown, Disable
  <2>2. /\ h'.pc = "status" /\ ~h'.quiesced /\ SameConf /\ SameIrq /\ SameIdx /\ h'.before = h.before
        /\ h'.timeouts = h.timeouts /\ h'.downs = h.downs + 1
    BY <1>1, <2>1 DEF HostStates, SameConf, SameIrq, SameIdx
  <2>3. h'.timeouts + h'.downs > 0
    BY <1>1, <2>2
  <2>4. ~DrainTimeout
    BY <1>3 DEF Teardown, DrainTimeout
  <2> QED BY <1>3, <2>2, <2>3, <2>4 DEF Teardown, Working
<1> QED BY <1>2, <1>3

LEMMA StatusBackIs ==
  ASSUME TypeOK, StatusBack
  PROVE  /\ h.pc = "status" /\ up # <<>> /\ Head(up).op = "STATUS" /\ up' = Tail(up)
         /\ SameConf /\ SameIrq /\ SameIdx /\ SameFails /\ h'.before = h.before
         /\ UNCHANGED <<m, g, script, wire, slot, res, cmd, ended>>
         /\ \/ ~Head(up).val /\ h'.pc = "head" /\ h'.quiesced = h.quiesced
            \/ Head(up).val /\ h.quiesced /\ h'.pc = "flr" /\ h'.quiesced = h.quiesced
            \/ Head(up).val /\ ~h.quiesced /\ h'.pc = "status" /\ h'.quiesced = Quiet(Tail(up))
<1>1. h \in HostStates
  BY DEF TypeOK
<1>2. Quiet(Tail(up)) \in BOOLEAN
  BY DEF Quiet
<1>3. CASE ~Head(up).val
  BY <1>1, <1>3 DEF StatusBack, HostStates, SameConf, SameIrq, SameIdx, SameFails
<1>4. CASE Head(up).val /\ h.quiesced
  BY ZenonT(60), <1>1, <1>4 DEF StatusBack, HostStates, SameConf, SameIrq, SameIdx, SameFails
<1>5. CASE Head(up).val /\ ~h.quiesced
  <2>1. h' = [h EXCEPT !.quiesced = Quiet(Tail(up))]
    BY <1>5 DEF StatusBack
  <2>2. /\ h'.quiesced = Quiet(Tail(up)) /\ h'.pc = h.pc
        /\ SameConf /\ SameIrq /\ SameIdx /\ SameFails /\ h'.before = h.before
    BY <1>1, <1>2, <2>1 DEF HostStates, SameConf, SameIrq, SameIdx, SameFails
  <2> QED BY <1>5, <2>2 DEF StatusBack
<1>6. Head(up).val \in BOOLEAN
  BY SMTT(30) DEF TypeOK, StatusBack, Answers
<1> QED BY <1>3, <1>4, <1>5

LEMMA RestartIs ==
  ASSUME TypeOK, HeadBack \/ AfterReset
  PROVE  /\ h'.pc = "script" /\ h'.quiesced = h.quiesced /\ SameIrq /\ SameFails
         /\ h'.next = h.next /\ h'.hhead = h.next /\ h'.rung = h.rung /\ h'.origin = h.next
         /\ h'.before = "none" /\ h'.seed = h.seed /\ UNCHANGED <<m, g, script, wire, res, cmd>>
         /\ Complete(h.hhead .. h.next - 1, slot')
         /\ HeadBack => /\ h.pc = "head" /\ up # <<>> /\ Head(up).op = "HEAD" /\ up' = Tail(up)
                        /\ h'.epoch = h.epoch /\ h'.tears = h.tears + 1
         /\ AfterReset => /\ h.pc = "flr" /\ up' = up /\ h'.epoch = h.epoch + 1 /\ h'.tears = 0
                          /\ \A i \in 1 .. Len(io) : io[i] # Flr
                          /\ EndLost(h.hhead)
<1>1. h \in HostStates /\ h.tears + 1 \in Nat /\ h.epoch + 1 \in Nat
  BY SMTT(30) DEF TypeOK, HostStates
<1>2. CASE HeadBack
  <2>1. h' = [h EXCEPT !.pc = "script", !.hhead = h.next, !.origin = h.next,
                    !.before = "none", !.tears = h.tears + 1]
    BY <1>2 DEF HeadBack
  <2>2. /\ h'.pc = "script" /\ h'.quiesced = h.quiesced /\ SameIrq /\ SameFails
        /\ h'.next = h.next /\ h'.hhead = h.next /\ h'.rung = h.rung /\ h'.origin = h.next
        /\ h'.before = "none" /\ h'.seed = h.seed /\ h'.epoch = h.epoch /\ h'.tears = h.tears + 1
    BY <1>1, <2>1 DEF HostStates, SameIrq, SameFails
  <2>3. ~AfterReset
    BY <1>2 DEF HeadBack, AfterReset
  <2> QED BY <1>2, <2>2, <2>3 DEF HeadBack
<1>3. CASE AfterReset
  <2>1. h' = [h EXCEPT !.pc = "script", !.hhead = h.next, !.origin = h.next,
                    !.before = "none", !.epoch = h.epoch + 1, !.tears = 0]
    BY <1>3 DEF AfterReset
  <2>2. /\ h'.pc = "script" /\ h'.quiesced = h.quiesced /\ SameIrq /\ SameFails
        /\ h'.next = h.next /\ h'.hhead = h.next /\ h'.rung = h.rung /\ h'.origin = h.next
        /\ h'.before = "none" /\ h'.seed = h.seed /\ h'.epoch = h.epoch + 1 /\ h'.tears = 0
    BY <1>1, <2>1 DEF HostStates, SameIrq, SameFails
  <2>3. ~HeadBack
    BY <1>3 DEF HeadBack, AfterReset
  <2> QED BY <1>3, <2>2, <2>3 DEF AfterReset
<1> QED BY <1>2, <1>3

-----------------------------------------------------------------------------
(* What the host sends, by shape. *)

IsCtrl(x, en) == x.op = "write" /\ x.reg = "CTRL" /\ x.val.en = en
IsReg(x, reg, val) == x.op = "write" /\ x.reg = reg /\ x.val = val
IsRead(x, reg) == x.op = "read" /\ x.reg = reg

LEMMA Sends ==
  ASSUME TypeOK
  PROVE  /\ Ring => Keeps(1) /\ IsReg(At(1), "TAIL", h.next)
         /\ PublishIrq /\ h.irq => Keeps(2) /\ IsReg(At(1), "IRQ_AT", h.next + 1) /\ IsReg(At(2), "TAIL", h.next + 1)
         /\ PublishIrq /\ ~h.irq =>
              /\ Keeps(3) /\ IsCtrl(At(1), TRUE)
              /\ IsReg(At(2), "IRQ_AT", h.next + 1) /\ IsReg(At(3), "TAIL", h.next + 1)
         /\ IrqOff => Keeps(1) /\ IsCtrl(At(1), TRUE)
         /\ SetSeed => Keeps(1) /\ IsReg(At(1), "SEED", h.seed + 1)
         /\ DrainTimeout \/ Teardown => Keeps(2) /\ IsCtrl(At(1), FALSE) /\ IsRead(At(2), "STATUS")
         /\ StatusBack => /\ Keeps(1)
                          /\ ~Head(up).val => IsRead(At(1), "HEAD")
                          /\ Head(up).val /\ h.quiesced => At(1) = Flr /\ At(1).op = "flr"
                          /\ Head(up).val /\ ~h.quiesced => IsRead(At(1), "STATUS")
         /\ HeadBack => Keeps(2) /\ IsReg(At(1), "TAIL", h.next) /\ IsCtrl(At(2), TRUE)
         /\ AfterReset => /\ Keeps(4) /\ IsReg(At(1), "RING", TRUE) /\ IsReg(At(2), "SEED", h.seed)
                          /\ IsReg(At(3), "TAIL", h.next) /\ IsCtrl(At(4), TRUE)
<1>1. \A r, v : IsReg(W(r, v), r, v)
  BY DEF W, IsReg
<1>2. \A i : IsCtrl(W("CTRL", [en |-> TRUE, irq |-> i]), TRUE)
  BY DEF W, IsCtrl
<1>3. \A i : IsCtrl(W("CTRL", [en |-> FALSE, irq |-> i]), FALSE)
  BY DEF W, IsCtrl
<1>4. \A r : IsRead(R(r), r)
  BY DEF R, IsRead
<1>5. Flr.op = "flr"
  BY DEF Flr
<1>6. Ring => Keeps(1) /\ IsReg(At(1), "TAIL", h.next)
  BY <1>1, HostSends
<1>7. PublishIrq /\ h.irq => Keeps(2) /\ IsReg(At(1), "IRQ_AT", h.next + 1) /\ IsReg(At(2), "TAIL", h.next + 1)
  BY <1>1, HostSends
<1>8. PublishIrq /\ ~h.irq =>
        /\ Keeps(3) /\ IsCtrl(At(1), TRUE)
        /\ IsReg(At(2), "IRQ_AT", h.next + 1) /\ IsReg(At(3), "TAIL", h.next + 1)
  BY <1>1, <1>2, HostSends
<1>9. IrqOff => Keeps(1) /\ IsCtrl(At(1), TRUE)
  BY <1>2, HostSends
<1>10. SetSeed => Keeps(1) /\ IsReg(At(1), "SEED", h.seed + 1)
  BY <1>1, HostSends
<1>11. DrainTimeout \/ Teardown => Keeps(2) /\ IsCtrl(At(1), FALSE) /\ IsRead(At(2), "STATUS")
  BY <1>3, <1>4, HostSends
<1>12. StatusBack => /\ Keeps(1)
                     /\ ~Head(up).val => IsRead(At(1), "HEAD")
                     /\ Head(up).val /\ h.quiesced => At(1) = Flr /\ At(1).op = "flr"
                     /\ Head(up).val /\ ~h.quiesced => IsRead(At(1), "STATUS")
  BY <1>4, <1>5, HostSends
<1>13. HeadBack => Keeps(2) /\ IsReg(At(1), "TAIL", h.next) /\ IsCtrl(At(2), TRUE)
  BY <1>1, <1>2, HostSends
<1>14. AfterReset => /\ Keeps(4) /\ IsReg(At(1), "RING", TRUE) /\ IsReg(At(2), "SEED", h.seed)
                     /\ IsReg(At(3), "TAIL", h.next) /\ IsCtrl(At(4), TRUE)
  BY <1>1, <1>2, HostSends
<1> QED BY <1>6, <1>7, <1>8, <1>9, <1>10, <1>11, <1>12, <1>13, <1>14

-----------------------------------------------------------------------------
(* The order of what the host writes. *)

\* No doorbell is bad.
LEMMA NoTailBad ==
  ASSUME TypeOK, OrderInv, IndexInv
  PROVE  ~TailBad
<1> SUFFICES ASSUME TailBad PROVE FALSE
  OBVIOUS
<1>1. Pop /\ IsWrite(Msg, "TAIL") /\ m.enable /\ (Msg.val - m.head \notin 0 .. RingSize \/ Msg.val < m.tail)
  BY DEF TailBad
<1>2. Msg = io[1] /\ 1 \in DOMAIN io /\ DOMAIN io = 1 .. Len(io) /\ Len(io) \in Nat /\ Msg \in Messages
  BY <1>1, PopShifts DEF Shifted
<1>3. Msg.val \in Nat /\ m.head \in Nat /\ m.tail \in Nat /\ RingSize \in Nat
  <2>1. Msg.val \in Nat
    BY ZenonT(60), <1>1, <1>2, MessageShape DEF Controls, Flr, IsWrite
  <2>2. m \in ModuleStates
    BY DEF TypeOK
  <2> QED BY <2>1, <2>2, TransportAssumption DEF ModuleStates
<1>4. h.hhead \in Nat /\ h.next \in Nat /\ h.rung \in Nat
  BY DEF TypeOK, HostStates
<1>5. /\ m.tail < Msg.val /\ m.head <= m.tail /\ Msg.val <= h.rung /\ h.rung <= h.next
      /\ h.next <= h.hhead + RingSize
      /\ h.hhead <= m.head \/ (h.hhead = m.head + 1 /\ \E i \in DOMAIN io : IsRecord(io[i]))
  BY <1>1, <1>2 DEF IndexInv
<1>6. Msg.val <= m.head + RingSize
  <2>1. CASE h.hhead <= m.head
    BY <1>3, <1>4, <1>5, <2>1
  <2>2. CASE \E i \in DOMAIN io : IsRecord(io[i])
    <3>1. PICK j \in DOMAIN io : IsRecord(io[j])
      BY <2>2
    <3>2. j # 1
      BY <1>1, <1>2, <3>1 DEF IsRecord, IsWrite
    <3>3. 1 < j
      BY <1>2, <3>2
    <3> QED BY <1>1, <1>2, <3>1, <3>3 DEF OrderInv
  <2> QED BY <1>5, <2>1, <2>2
<1> QED BY <1>1, <1>3, <1>5, <1>6

\* Every arrival takes the head of the queue; PTQ_HEAD moves back only when the queue starts.
LEMMA ArriveMoves ==
  ASSUME IInv, ArriveSteps
  PROVE  /\ Pop
         /\ \/ ~m'.enable
            \/ StartQueue
            \/ m.enable /\ m'.enable /\ (m'.head = m.head \/ (NextSlot /\ m'.head = m.head + 1))
<1> USE DEF IInv
<1>0. TypeOK /\ ModuleInv
  BY DEF ModuleInv
<1>1. CASE Passes
  BY <1>1, PassesIs, <1>0 DEF Unmoved, TypeOK, ModuleStates
<1>2. CASE StartQueue
  BY <1>2 DEF StartQueue
<1>3. CASE StopQueue
  BY <1>0, <1>3, StopQueueIs
<1>4. CASE TailOff \/ SetRing \/ SetIrqAt \/ TakeSeed \/ Wedge
  BY <1>0, <1>4, RegisterIs DEF TypeOK, ModuleStates
<1>5. CASE TailOn
  BY <1>0, <1>5, TailOnIs
<1>6. CASE TailBad
  BY <1>6, NoTailBad
<1>7. CASE TakeFlr
  BY <1>7 DEF TakeFlr, ResetState
<1>8. CASE Dropped
  BY <1>0, <1>8, DroppedIs
<1>9. CASE NextSlot
  BY <1>0, <1>9, NextSlotIs
<1> QED BY <1>1, <1>2, <1>3, <1>4, <1>5, <1>6, <1>7, <1>8, <1>9 DEF ArriveSteps, Passes

\* The steps there are.
LEMMA Steps ==
  ASSUME IInv, [Next]_vars
  PROVE  \/ ArriveSteps
         \/ Shot
         \/ \E l \in wire : Land(l) \/ AtHost(l)
         \/ HostNext
         \/ UNCHANGED vars
<1>1. TypeOK /\ JobInv
  BY DEF IInv
<1> QED BY <1>1, ArriveIs DEF Next, WaitRoom, Done

\* A record is on its way, or on its way back: not both.
LEMMA RecordOnce ==
  ASSUME TypeOK, ErrandInv, NEW l \in wire, l.op = "ItoMWr", l.what = "rec"
  PROVE  \A i \in DOMAIN io : ~IsRecord(io[i])
<1>1. Errand(l, m.job, 0)
  BY DEF Errand
<1>2. \A i \in DOMAIN io : IsRecord(io[i]) => Errand(io[i], m.job, 0)
  BY DEF IsRecord, Errand
<1> QED BY <1>1, <1>2 DEF ErrandInv, RunsOnce

\* Nothing is asked while the host has an answer.
LEMMA AnsweredMeans ==
  ASSUME TypeOK, AskedInv, up # <<>>, Head(up).op # "msi"
  PROVE  \A i \in DOMAIN io : ~Asks(io[i]) /\ ~Stops(io[i])
<1>1. 1 \in DOMAIN up /\ Head(up) = up[1]
  BY DEF TypeOK
<1> QED BY <1>1 DEF AskedInv

\* One message more, at the end.
LEMMA OrderLast ==
  ASSUME TypeOK, OrderInv, Keeps(1), m'.enable = m.enable, m'.head = m.head,
         \A i \in DOMAIN io :
           /\ Stops(io[i]) => At(1).op \notin {"write", "flr"}
           /\ Asks(io[i]) => At(1).op \in {"back", "go"}
           /\ IsWrite(io[i], "TAIL") /\ IsWrite(At(1), "TAIL") => io[i].val < At(1).val
           /\ IsWrite(io[i], "TAIL") /\ IsRecord(At(1)) /\ m.enable => io[i].val <= m.head + RingSize
  PROVE  OrderInv'
<1> SUFFICES ASSUME NEW i \in DOMAIN io', NEW j \in DOMAIN io', i < j
             PROVE  /\ Stops(io'[i]) => io'[j].op \notin {"write", "flr"}
                    /\ Asks(io'[i]) => io'[j].op \in {"back", "go"}
                    /\ IsWrite(io'[i], "TAIL") /\ IsWrite(io'[j], "TAIL") => io'[i].val < io'[j].val
                    /\ IsWrite(io'[i], "TAIL") /\ IsRecord(io'[j]) /\ m'.enable => io'[i].val <= m'.head + RingSize
  BY DEF OrderInv, Stops, Asks, IsWrite, IsRecord
<1>1. Len(io) \in Nat /\ DOMAIN io = 1 .. Len(io) /\ DOMAIN io' = 1 .. Len(io) + 1
      /\ \A k \in 1 .. Len(io) : io'[k] = io[k]
  BY DEF Keeps
<1>2. i \in DOMAIN io /\ io'[i] = io[i] /\ ((j \in DOMAIN io /\ io'[j] = io[j]) \/ j = Len(io) + 1)
  BY <1>1
<1>3. CASE j \in DOMAIN io /\ io'[j] = io[j]
  BY <1>2, <1>3 DEF OrderInv
<1>4. CASE j = Len(io) + 1
  BY <1>2, <1>4 DEF At
<1> QED BY <1>2, <1>3, <1>4

\* What the host sends with neither a disable nor a question on the link.
LEMMA OrderHost ==
  ASSUME TypeOK, OrderInv, HostSent, \A i \in DOMAIN io : ~Stops(io[i]) /\ ~Asks(io[i]),
         \A i, j \in DOMAIN io' : i < j /\ j > Len(io) =>
           /\ ~Asks(io'[i])
           /\ Stops(io'[i]) => io'[j].op = "read"
           /\ IsWrite(io'[i], "TAIL") /\ IsWrite(io'[j], "TAIL") => io'[i].val < io'[j].val
  PROVE  OrderInv'
<1> SUFFICES ASSUME NEW i \in DOMAIN io', NEW j \in DOMAIN io', i < j
             PROVE  /\ Stops(io'[i]) => io'[j].op \notin {"write", "flr"}
                    /\ Asks(io'[i]) => io'[j].op \in {"back", "go"}
                    /\ IsWrite(io'[i], "TAIL") /\ IsWrite(io'[j], "TAIL") => io'[i].val < io'[j].val
                    /\ IsWrite(io'[i], "TAIL") /\ IsRecord(io'[j]) /\ m'.enable => io'[i].val <= m'.head + RingSize
  BY DEF OrderInv, Stops, Asks, IsWrite, IsRecord
<1>1. Len(io) \in Nat /\ DOMAIN io = 1 .. Len(io) /\ Len(io') \in Nat /\ DOMAIN io' = 1 .. Len(io')
      /\ (\A k \in DOMAIN io : io'[k] = io[k]) /\ m' = m
      /\ \A k \in DOMAIN io' : k \notin DOMAIN io => io'[k].op \in {"write", "read", "flr"}
  BY DEF HostSent
<1>2. CASE j \in DOMAIN io
  <2>1. i \in DOMAIN io /\ io'[i] = io[i] /\ io'[j] = io[j]
    BY <1>1, <1>2
  <2> QED BY <1>1, <1>2, <2>1 DEF OrderInv
<1>3. CASE j \notin DOMAIN io
  <2>1. j > Len(io) /\ ~IsRecord(io'[j])
    BY <1>1, <1>3 DEF IsRecord
  <2> QED BY <2>1
<1> QED BY <1>2, <1>3

LEMMA OrderStep == ASSUME IInv, [Next]_vars PROVE OrderInv'
<1>0. TypeOK /\ OrderInv /\ AskedInv /\ IndexInv /\ QuietInv /\ ModuleInv /\ ErrandInv
  BY DEF IInv, ModuleInv
<1>n. h.rung \in Nat /\ h.next \in Nat /\ h.hhead \in Nat /\ m.head \in Nat /\ RingSize \in Nat
  <2>1. m \in ModuleStates /\ h \in HostStates
    BY <1>0 DEF TypeOK
  <2> QED BY <2>1, TransportAssumption DEF ModuleStates, HostStates
<1>1. CASE ArriveSteps
  <2>1. /\ Pop
        /\ \/ ~m'.enable
           \/ StartQueue
           \/ m.enable /\ m'.enable /\ (m'.head = m.head \/ m'.head = m.head + 1)
    BY <1>1, ArriveMoves
  <2>2. Shifted
    BY <1>0, <2>1, PopShifts
  <2> SUFFICES ASSUME NEW i \in DOMAIN io', NEW j \in DOMAIN io', i < j
               PROVE  /\ Stops(io'[i]) => io'[j].op \notin {"write", "flr"}
                      /\ Asks(io'[i]) => io'[j].op \in {"back", "go"}
                      /\ IsWrite(io'[i], "TAIL") /\ IsWrite(io'[j], "TAIL") => io'[i].val < io'[j].val
                      /\ IsWrite(io'[i], "TAIL") /\ IsRecord(io'[j]) /\ m'.enable => io'[i].val <= m'.head + RingSize
    BY DEF OrderInv, Stops, Asks, IsWrite, IsRecord
  <2>3. i + 1 \in DOMAIN io /\ j + 1 \in DOMAIN io /\ i + 1 < j + 1 /\ io'[i] = io[i + 1] /\ io'[j] = io[j + 1]
    BY <2>2 DEF Shifted
  <2>4. /\ Stops(io'[i]) => io'[j].op \notin {"write", "flr"}
        /\ Asks(io'[i]) => io'[j].op \in {"back", "go"}
        /\ IsWrite(io'[i], "TAIL") /\ IsWrite(io'[j], "TAIL") => io'[i].val < io'[j].val
        /\ IsWrite(io'[i], "TAIL") /\ IsRecord(io'[j]) /\ m.enable => io'[i].val <= m.head + RingSize
    BY <1>0, <2>3 DEF OrderInv
  <2>5. CASE StartQueue
    <3>1. ~Out(0)
      BY <1>0, <2>5, StartQueueIs DEF IInv
    <3>2. ~IsRecord(io'[j])
      BY <2>3, <3>1 DEF Out, Runs, Errand, IsRecord
    <3> QED BY <2>4, <3>2
  <2>6. IsWrite(io'[i], "TAIL") => io'[i].val \in Nat
    <3>1. io'[i] \in Messages
      BY <2>2 DEF Shifted
    <3> QED BY <3>1, MessageShape DEF Controls, Flr, IsWrite
  <2> QED BY <1>n, <2>1, <2>4, <2>5, <2>6
<1>2. CASE Shot
  <2>1. io' = io /\ m'.enable = m.enable /\ m'.head = m.head
    BY <1>0, <1>2 DEF Shot, TypeOK, ModuleStates
  <2> QED BY <1>0, <2>1 DEF OrderInv, Stops, Asks, IsWrite, IsRecord
<1>3. ASSUME NEW l \in wire, Land(l) PROVE OrderInv'
  <2>1. Keeps(1) /\ At(1) = [l EXCEPT !.op = "go"] /\ m' = m /\ l.op = "ItoMWr"
    BY <1>0, <1>3, LandTypes DEF Land
  <2>2. At(1).op = "go" /\ (IsRecord(At(1)) => l.what = "rec")
    <3>1. l \in Results("ItoMWr") \cup Records("ItoMWr")
      BY <1>0, <2>1, LineShape DEF TypeOK
    <3> QED BY <2>1, <3>1 DEF Results, Records, IsRecord
  <2>3. ASSUME NEW i \in DOMAIN io, IsWrite(io[i], "TAIL"), IsRecord(At(1)), m.enable
        PROVE  io[i].val <= m.head + RingSize
    <3>1. \A k \in DOMAIN io : ~IsRecord(io[k])
      BY <1>0, <2>1, <2>2, <2>3, RecordOnce
    <3>2. h.hhead <= m.head /\ io[i].val <= h.rung /\ h.rung <= h.next /\ h.next <= h.hhead + RingSize
      BY <1>0, <2>3, <3>1 DEF IndexInv
    <3>3. io[i].val \in Nat
      <4>1. io[i] \in Messages
        BY <1>0 DEF TypeOK
      <4> QED BY ZenonT(60), <2>3, <4>1, MessageShape DEF Controls, Flr, IsWrite
    <3> QED BY <1>n, <3>2, <3>3
  <2>4. ~IsWrite(At(1), "TAIL")
    BY <2>2 DEF IsWrite
  <2> QED BY <1>0, <2>1, <2>2, <2>3, <2>4, OrderLast
<1>4. ASSUME NEW l \in wire, AtHost(l) PROVE OrderInv'
  <2>1. Keeps(1) /\ At(1).op = "back" /\ m' = m
    BY <1>0, <1>4, AtHostTypes DEF AtHost
  <2>2. ~IsWrite(At(1), "TAIL") /\ ~IsRecord(At(1))
    BY <2>1 DEF IsWrite, IsRecord
  <2> QED BY <1>0, <2>1, <2>2, OrderLast
<1>5. CASE HostNext
  <2>1. HostSent
    BY <1>0, <1>5, HostSentLemma
  <2>2. CASE Publish \/ TryEnd \/ Drain \/ Drained \/ TakeMsi \/ Awaited
    <3>1. io' = io /\ m' = m
      BY <1>0, <2>1, <2>2, HostSends DEF HostSent
    <3> QED BY <1>0, <3>1 DEF OrderInv, Stops, Asks, IsWrite, IsRecord
  <2>3. Working => \A i \in DOMAIN io : ~Stops(io[i]) /\ ~Asks(io[i])
    BY <1>0 DEF AskedInv
  <2>t. \A i \in DOMAIN io : IsWrite(io[i], "TAIL") => io[i].val <= h.rung /\ io[i].val \in Nat
    <3> TAKE i \in DOMAIN io
    <3>1. io[i] \in Messages
      BY <1>0 DEF TypeOK
    <3> QED BY ZenonT(60), <1>0, <3>1, MessageShape DEF Controls, Flr, IsWrite, IndexInv
  <2>4. CASE Ring
    <3>1. Working /\ Keeps(1) /\ At(1) = W("TAIL", h.next) /\ h.rung < h.next
      BY <1>0, <1>n, <2>4, HostSends DEF Ring, Working, IndexInv
    <3>2. \A i \in DOMAIN io : IsWrite(io[i], "TAIL") => io[i].val < At(1).val
      BY <1>n, <2>t, <3>1, WriteTyped
    <3>3. ~IsRecord(At(1))
      BY <1>n, <3>1, WriteTyped DEF IsRecord
    <3>4. m' = m
      BY <2>1 DEF HostSent
    <3> QED BY <1>0, <2>3, <3>1, <3>2, <3>3, <3>4, OrderLast
  <2>5. CASE IrqOff \/ SetSeed
    <3>1. Working /\ Keeps(1) /\ At(1).op = "write" /\ At(1).reg # "TAIL"
      BY <1>0, <2>5, Sends DEF IrqOff, SetSeed, Working, IsCtrl, IsReg
    <3>2. ~IsRecord(At(1)) /\ ~IsWrite(At(1), "TAIL")
      BY <3>1 DEF IsRecord, IsWrite
    <3>3. m' = m
      BY <2>1 DEF HostSent
    <3> QED BY <1>0, <2>3, <3>1, <3>2, <3>3, OrderLast
  <2>6. CASE PublishIrq
    <3>1. Working /\ h.rung = h.next /\ h.next + 1 \in Nat
      BY <1>n, <2>6 DEF PublishIrq, Working
    <3>2. ASSUME NEW i \in DOMAIN io', NEW j \in DOMAIN io', i < j, j > Len(io)
          PROVE  /\ ~Asks(io'[i])
                 /\ Stops(io'[i]) => io'[j].op = "read"
                 /\ IsWrite(io'[i], "TAIL") /\ IsWrite(io'[j], "TAIL") => io'[i].val < io'[j].val
      <4>1. CASE h.irq
        <5>1. Keeps(2) /\ At(1) = W("IRQ_AT", h.next + 1) /\ At(2) = W("TAIL", h.next + 1)
          BY <1>0, <2>6, <4>1, HostSends
        <5>2. /\ At(1).op = "write" /\ At(1).reg = "IRQ_AT"
              /\ At(2).op = "write" /\ At(2).reg = "TAIL" /\ At(2).val = h.next + 1
          BY <3>1, <5>1, WriteTyped
        <5>3. /\ Len(io) \in Nat /\ DOMAIN io = 1 .. Len(io) /\ DOMAIN io' = 1 .. Len(io) + 2
              /\ \A k \in DOMAIN io : io'[k] = io[k]
          BY <5>1 DEF Keeps
        <5>4. CASE i \in DOMAIN io
          <6>1. j = Len(io) + 1 \/ j = Len(io) + 2
            BY <3>2, <5>3
          <6>2. IsWrite(io'[j], "TAIL") => io'[j].val = h.next + 1
            BY <5>2, <6>1 DEF At, IsWrite
          <6> QED BY <1>n, <2>3, <2>t, <3>1, <5>3, <5>4, <6>2
        <5>5. CASE i \notin DOMAIN io
          <6>1. i = Len(io) + 1 /\ j = Len(io) + 2
            BY <3>2, <5>3, <5>5
          <6> QED BY <5>2, <6>1 DEF At, IsWrite, Asks, Stops
        <5> QED BY <5>4, <5>5
      <4>2. CASE ~h.irq
        <5>1. Keeps(3)
          BY <1>0, <2>6, <4>2, Sends
        <5>2. /\ At(1).op = "write" /\ At(1).reg = "CTRL" /\ At(1).val.en
              /\ At(2).op = "write" /\ At(2).reg = "IRQ_AT"
              /\ At(3).op = "write" /\ At(3).reg = "TAIL" /\ At(3).val = h.next + 1
          BY <1>0, <2>6, <4>2, Sends DEF IsCtrl, IsReg
        <5>3. /\ Len(io) \in Nat /\ DOMAIN io = 1 .. Len(io) /\ DOMAIN io' = 1 .. Len(io) + 3
              /\ \A k \in DOMAIN io : io'[k] = io[k]
          BY <5>1 DEF Keeps
        <5>4. CASE i \in DOMAIN io
          <6>1. j = Len(io) + 1 \/ j = Len(io) + 2 \/ j = Len(io) + 3
            BY <3>2, <5>3
          <6>2. IsWrite(io'[j], "TAIL") => io'[j].val = h.next + 1
            BY <5>2, <6>1 DEF At, IsWrite
          <6> QED BY <1>n, <2>3, <2>t, <3>1, <5>3, <5>4, <6>2
        <5>5. CASE i \notin DOMAIN io
          <6>1. i = Len(io) + 1 \/ i = Len(io) + 2
            BY <3>2, <5>3, <5>5
          <6> QED BY <5>2, <6>1 DEF At, IsWrite, Asks, Stops
        <5> QED BY <5>4, <5>5
      <4> QED BY <4>1, <4>2
    <3> QED BY <1>0, <2>1, <2>3, <3>1, <3>2, OrderHost
  <2>7. CASE DrainTimeout \/ Teardown
    <3>1. Working /\ Keeps(2)
      BY <1>0, <2>7, Sends, DisableIs
    <3>2. At(1).op = "write" /\ At(1).reg = "CTRL" /\ At(2).op = "read"
      BY <1>0, <2>7, Sends DEF IsCtrl, IsRead
    <3>3. /\ Len(io) \in Nat /\ DOMAIN io = 1 .. Len(io) /\ DOMAIN io' = 1 .. Len(io) + 2
          /\ \A k \in DOMAIN io : io'[k] = io[k]
      BY <3>1 DEF Keeps
    <3>4. ASSUME NEW i \in DOMAIN io', NEW j \in DOMAIN io', i < j, j > Len(io)
          PROVE  /\ ~Asks(io'[i])
                 /\ Stops(io'[i]) => io'[j].op = "read"
                 /\ IsWrite(io'[i], "TAIL") /\ IsWrite(io'[j], "TAIL") => io'[i].val < io'[j].val
      <4>1. (j = Len(io) + 1 /\ i \in DOMAIN io) \/ (j = Len(io) + 2 /\ i \in DOMAIN io)
            \/ (j = Len(io) + 2 /\ i = Len(io) + 1)
        BY <3>3, <3>4
      <4>2. ~IsWrite(io'[j], "TAIL")
        BY <3>2, <4>1 DEF At, IsWrite
      <4> QED BY <2>3, <3>1, <3>2, <3>3, <4>1, <4>2 DEF At, Asks
    <3> QED BY <1>0, <2>1, <2>3, <3>1, <3>4, OrderHost
  <2>8. CASE StatusBack
    <3>1. Keeps(1) /\ At(1).op \in {"read", "flr"}
      BY <1>0, <2>8, HostSends, WriteTyped
    <3>2. \A i \in DOMAIN io : ~Asks(io[i]) /\ ~Stops(io[i])
      BY <1>0, <2>8, AnsweredMeans DEF StatusBack
    <3>3. ~IsRecord(At(1)) /\ ~IsWrite(At(1), "TAIL")
      BY <3>1 DEF IsRecord, IsWrite
    <3>4. m' = m
      BY <2>1 DEF HostSent
    <3> QED BY <1>0, <3>1, <3>2, <3>3, <3>4, OrderLast
  <2>9. CASE HeadBack
    <3>1. h.pc = "head" /\ Keeps(2)
      BY <1>0, <2>9, Sends DEF HeadBack
    <3>2. At(1).op = "write" /\ At(1).reg = "TAIL" /\ At(2).op = "write" /\ At(2).reg = "CTRL"
      BY <1>0, <2>9, Sends DEF IsReg, IsCtrl
    <3>3. /\ Len(io) \in Nat /\ DOMAIN io = 1 .. Len(io) /\ DOMAIN io' = 1 .. Len(io) + 2
          /\ \A k \in DOMAIN io : io'[k] = io[k]
      BY <3>1 DEF Keeps
    <3>4. \A i \in DOMAIN io : ~Asks(io[i]) /\ ~Stops(io[i]) /\ io[i].op # "write"
      BY <1>0, <2>9, <3>1, AnsweredMeans DEF HeadBack, AskedInv
    <3>5. ASSUME NEW i \in DOMAIN io', NEW j \in DOMAIN io', i < j, j > Len(io)
          PROVE  /\ ~Asks(io'[i])
                 /\ Stops(io'[i]) => io'[j].op = "read"
                 /\ IsWrite(io'[i], "TAIL") /\ IsWrite(io'[j], "TAIL") => io'[i].val < io'[j].val
      <4>1. i \in DOMAIN io \/ (j = Len(io) + 2 /\ i = Len(io) + 1)
        BY <3>3, <3>5
      <4> QED BY <3>2, <3>3, <3>4, <4>1 DEF At, Asks, Stops, IsWrite
    <3> QED BY <1>0, <2>1, <3>4, <3>5, OrderHost
  <2>10. CASE AfterReset
    <3>1. h.pc = "flr" /\ \A i \in 1 .. Len(io) : io[i] # Flr
      BY <2>10 DEF AfterReset
    <3>2. io = <<>> /\ Len(io) = 0
      BY <1>0, <3>1 DEF QuietInv
    <3>3. Keeps(4)
      BY <1>0, <2>10, Sends
    <3>4. /\ At(1).op = "write" /\ At(1).reg = "RING" /\ At(2).op = "write" /\ At(2).reg = "SEED"
          /\ At(3).op = "write" /\ At(3).reg = "TAIL" /\ At(4).op = "write" /\ At(4).reg = "CTRL"
          /\ At(4).val.en
      BY <1>0, <2>10, Sends DEF IsReg, IsCtrl
    <3>5. DOMAIN io' = 1 .. 4 /\ At(1) = io'[1] /\ At(2) = io'[2] /\ At(3) = io'[3] /\ At(4) = io'[4]
      BY <3>2, <3>3 DEF Keeps, At
    <3>6. ASSUME NEW i \in DOMAIN io', NEW j \in DOMAIN io', i < j, j > Len(io)
          PROVE  /\ ~Asks(io'[i])
                 /\ Stops(io'[i]) => io'[j].op = "read"
                 /\ IsWrite(io'[i], "TAIL") /\ IsWrite(io'[j], "TAIL") => io'[i].val < io'[j].val
      <4>1. i = 1 \/ i = 2 \/ i = 3
        BY <3>5, <3>6
      <4>2. i = 3 => j = 4
        BY <3>5, <3>6
      <4> QED BY <3>4, <3>5, <4>1, <4>2 DEF Asks, Stops, IsWrite
    <3>7. \A i \in DOMAIN io : ~Asks(io[i]) /\ ~Stops(io[i])
      BY <3>2
    <3> QED BY <1>0, <2>1, <3>6, <3>7, OrderHost
  <2> QED BY <1>5, <2>2, <2>4, <2>5, <2>6, <2>7, <2>8, <2>9, <2>10 DEF HostNext
<1>6. CASE UNCHANGED vars
  BY <1>0, <1>6 DEF OrderInv, Stops, Asks, IsWrite, IsRecord, vars
<1> QED BY <1>1, <1>2, <1>3, <1>4, <1>5, <1>6, Steps

-----------------------------------------------------------------------------
(* Questions and answers. *)

\* What is on the link after a step of the host: what was, and what it sent.
LEMMA Fresh ==
  ASSUME TypeOK, NEW j \in DOMAIN io', j \notin DOMAIN io
  PROVE  /\ Ring => IsReg(io'[j], "TAIL", h.next)
         /\ PublishIrq => IsCtrl(io'[j], TRUE) \/ IsReg(io'[j], "IRQ_AT", h.next + 1) \/ IsReg(io'[j], "TAIL", h.next + 1)
         /\ IrqOff => IsCtrl(io'[j], TRUE)
         /\ SetSeed => IsReg(io'[j], "SEED", h.seed + 1) /\ j = Len(io) + 1
         /\ DrainTimeout \/ Teardown =>
              (IsCtrl(io'[j], FALSE) /\ j = Len(io) + 1) \/ (IsRead(io'[j], "STATUS") /\ j = Len(io) + 2)
         /\ StatusBack => /\ j = Len(io) + 1
                          /\ ~Head(up).val => IsRead(io'[j], "HEAD")
                          /\ Head(up).val /\ h.quiesced => io'[j].op = "flr"
                          /\ Head(up).val /\ ~h.quiesced => IsRead(io'[j], "STATUS")
         /\ HeadBack => (IsReg(io'[j], "TAIL", h.next) /\ j = Len(io) + 1) \/ (IsCtrl(io'[j], TRUE) /\ j = Len(io) + 2)
         /\ AfterReset =>
              \/ IsReg(io'[j], "RING", TRUE) /\ j = Len(io) + 1
              \/ IsReg(io'[j], "SEED", h.seed) /\ j = Len(io) + 2
              \/ IsReg(io'[j], "TAIL", h.next) /\ j = Len(io) + 3
              \/ IsCtrl(io'[j], TRUE) /\ j = Len(io) + 4
<1>1. Keeps(1) => j = Len(io) + 1 /\ io'[j] = At(1)
  BY DEF Keeps, At
<1>2. Keeps(2) => (j = Len(io) + 1 /\ io'[j] = At(1)) \/ (j = Len(io) + 2 /\ io'[j] = At(2))
  BY DEF Keeps, At
<1>3. Keeps(3) => io'[j] = At(1) \/ io'[j] = At(2) \/ io'[j] = At(3)
  <2> SUFFICES ASSUME Keeps(3) PROVE j = Len(io) + 1 \/ j = Len(io) + 2 \/ j = Len(io) + 3
    BY DEF At
  <2> QED BY DEF Keeps
<1>4. Keeps(4) => \/ j = Len(io) + 1 /\ io'[j] = At(1)
                  \/ j = Len(io) + 2 /\ io'[j] = At(2)
                  \/ j = Len(io) + 3 /\ io'[j] = At(3)
                  \/ j = Len(io) + 4 /\ io'[j] = At(4)
  <2> SUFFICES ASSUME Keeps(4) PROVE j = Len(io) + 1 \/ j = Len(io) + 2 \/ j = Len(io) + 3 \/ j = Len(io) + 4
    BY DEF At
  <2> QED BY DEF Keeps
<1>5. Ring => IsReg(io'[j], "TAIL", h.next)
  BY <1>1, Sends
<1>6. PublishIrq => IsCtrl(io'[j], TRUE) \/ IsReg(io'[j], "IRQ_AT", h.next + 1) \/ IsReg(io'[j], "TAIL", h.next + 1)
  <2>1. PublishIrq /\ h.irq => IsReg(io'[j], "IRQ_AT", h.next + 1) \/ IsReg(io'[j], "TAIL", h.next + 1)
    BY <1>2, Sends
  <2>2. PublishIrq /\ ~h.irq =>
          IsCtrl(io'[j], TRUE) \/ IsReg(io'[j], "IRQ_AT", h.next + 1) \/ IsReg(io'[j], "TAIL", h.next + 1)
    BY <1>3, Sends
  <2> QED BY <2>1, <2>2
<1>7. IrqOff => IsCtrl(io'[j], TRUE)
  BY <1>1, Sends
<1>8. SetSeed => IsReg(io'[j], "SEED", h.seed + 1) /\ j = Len(io) + 1
  BY <1>1, Sends
<1>9. DrainTimeout \/ Teardown =>
        (IsCtrl(io'[j], FALSE) /\ j = Len(io) + 1) \/ (IsRead(io'[j], "STATUS") /\ j = Len(io) + 2)
  BY <1>2, Sends
<1>10. StatusBack => /\ j = Len(io) + 1
                     /\ ~Head(up).val => IsRead(io'[j], "HEAD")
                     /\ Head(up).val /\ h.quiesced => io'[j].op = "flr"
                     /\ Head(up).val /\ ~h.quiesced => IsRead(io'[j], "STATUS")
  BY <1>1, Sends
<1>11. HeadBack => (IsReg(io'[j], "TAIL", h.next) /\ j = Len(io) + 1) \/ (IsCtrl(io'[j], TRUE) /\ j = Len(io) + 2)
  BY <1>2, Sends
<1>12. AfterReset =>
         \/ IsReg(io'[j], "RING", TRUE) /\ j = Len(io) + 1
         \/ IsReg(io'[j], "SEED", h.seed) /\ j = Len(io) + 2
         \/ IsReg(io'[j], "TAIL", h.next) /\ j = Len(io) + 3
         \/ IsCtrl(io'[j], TRUE) /\ j = Len(io) + 4
  BY <1>4, Sends
<1> QED BY <1>5, <1>6, <1>7, <1>8, <1>9, <1>10, <1>11, <1>12

\* What it sent last is on the link.
LEMMA Posted ==
  ASSUME TypeOK, NEW n \in 1 .. 4, Keeps(n)
  PROVE  \A k \in 1 .. n : Len(io) + k \in DOMAIN io' /\ Len(io) + k \notin DOMAIN io /\ io'[Len(io) + k] = At(k)
BY DEF Keeps, At

\* No write is on its way to a module that has been told to stop, or has been asked
\* for its PTQ_HEAD, and PTQ_HEAD does not move.
LEMMA StillWhenAsked ==
  ASSUME IInv, ArriveSteps, (h.pc = "status" /\ ~Stopping) \/ h.pc = "head"
  PROVE  /\ Passes \/ Wedge \/ Dropped
         /\ m'.head = m.head /\ m'.ring = m.ring /\ m.ring /\ (m'.enabled => m.enabled)
         /\ m.wedged \/ ~m.enable => m'.wedged \/ ~m'.enable
         /\ Msg.op # "write" /\ \A i \in DOMAIN io : io[i].op # "write"
<1>0. TypeOK /\ AskedInv /\ ModuleInv /\ QuietInv /\ StageInv /\ IndexInv /\ StatusInv /\ OrderInv
  BY DEF IInv, ModuleInv
<1>1. \A i \in DOMAIN io : io[i].op # "write"
  BY <1>0 DEF AskedInv
<1>2. m.ring /\ (m.wedged \/ ~m.enable)
  BY <1>0 DEF AskedInv, StageInv
<1>3. Pop
  BY ArriveMoves
<1>4. Msg = io[1] /\ 1 \in DOMAIN io
  BY <1>0, <1>3, HeadTyped DEF Pop
<1>5. Msg.op # "write" /\ Msg.op # "flr"
  BY <1>0, <1>1, <1>4 DEF AskedInv
<1>6. ~NextSlot
  BY <1>0, <1>2, NextSlotIs
<1>7. Passes \/ Wedge \/ Dropped
  BY <1>5, <1>6 DEF ArriveSteps, Passes, StartQueue, StopQueue, TailOff, TailOn, TailBad, SetRing, SetIrqAt,
     TakeSeed, TakeFlr, Starts, Stops, IsWrite
<1>8. CASE Passes
  BY <1>0, <1>1, <1>2, <1>5, <1>7, <1>8, PassesIs DEF Unmoved
<1>9. CASE Wedge
  BY <1>0, <1>1, <1>2, <1>5, <1>7, <1>9, RegisterIs
<1>10. CASE Dropped
  BY <1>0, <1>1, <1>2, <1>5, <1>7, <1>10, DroppedIs
<1> QED BY <1>7, <1>8, <1>9, <1>10

\* What an arrival sends to the host: an answer, an interrupt, or nothing.
NewAnswer == [op |-> Msg.reg, val |-> IF Msg.reg = "STATUS" THEN m.enabled ELSE m.head]

LEMMA UpGrows ==
  ASSUME IInv, ArriveSteps
  PROVE  /\ \/ up' = up /\ Msg.op # "read"
            \/ Answer /\ Msg.op = "read" /\ up' = Append(up, NewAnswer) /\ m' = m /\ wire' = wire
            \/ NextSlot /\ Msg.op = "go" /\ up' = Append(up, [op |-> "msi"]) /\ m.irq_at = m.head + 1
         /\ \A i \in DOMAIN up : i \in DOMAIN up' /\ up'[i] = up[i]
         /\ \A i \in DOMAIN up' :
              \/ i \in DOMAIN up /\ up'[i] = up[i]
              \/ i = Len(up) + 1 /\ Answer /\ up'[i] = NewAnswer
              \/ i = Len(up) + 1 /\ NextSlot /\ up'[i] = [op |-> "msi"]
         /\ Answer => Len(up) + 1 \in DOMAIN up' /\ up'[Len(up) + 1] = NewAnswer
<1>0. TypeOK /\ ModuleInv /\ IndexInv /\ StatusInv /\ OrderInv
  BY DEF IInv, ModuleInv
<1>1. \/ up' = up /\ Msg.op # "read"
      \/ Answer /\ Msg.op = "read" /\ up' = Append(up, NewAnswer) /\ m' = m /\ wire' = wire
      \/ NextSlot /\ Msg.op = "go" /\ up' = Append(up, [op |-> "msi"]) /\ m.irq_at = m.head + 1
  <2>1. CASE Ignored \/ StopQueue \/ SameQueue \/ TailOff \/ TailOn \/ SetRing \/ SetIrqAt \/ TakeSeed
             \/ TakeFlr \/ Operands \/ Dropped \/ OneOrdered \/ LastOrdered \/ StartQueue
    BY <2>1 DEF Ignored, StopQueue, SameQueue, TailOff, TailOn, SetRing, SetIrqAt, TakeSeed,
        TakeFlr, Operands, Dropped, OneOrdered, LastOrdered, StartQueue, IsWrite, Starts, Stops
  <2>2. CASE TailBad
    BY <1>0, <2>2, NoTailBad
  <2>3. CASE Wedge \/ StartGemm
    BY <2>3 DEF Wedge, StartGemm, IsDescriptor
  <2>4. ASSUME NEW s \in Failed, EndsEarly(s) PROVE up' = up /\ Msg.op # "read"
    BY <2>4 DEF EndsEarly, IsDescriptor
  <2>5. CASE Answer
    BY <2>5 DEF Answer, NewAnswer
  <2>6. CASE NextSlot
    BY <1>0, <2>6, NextSlotIs DEF IsRecord
  <2> QED BY <2>1, <2>2, <2>3, <2>4, <2>5, <2>6 DEF ArriveSteps
<1>2. up \in Seq(Answers) /\ [op |-> "msi"] \in Answers
  BY <1>0 DEF TypeOK, Answers
<1>3. Answer => NewAnswer \in Answers
  <2> SUFFICES ASSUME Answer PROVE NewAnswer \in Answers
    OBVIOUS
  <2>1. Msg.op = "read" /\ Msg \in Messages
    BY <1>0, HeadTyped DEF Answer, Pop
  <2>2. Msg.reg \in {"STATUS", "HEAD"}
    BY <2>1, MessageShape DEF Controls, Flr
  <2>3. m.enabled \in BOOLEAN /\ m.head \in Int
    BY <1>0 DEF TypeOK, ModuleStates
  <2> QED BY <2>2, <2>3 DEF NewAnswer, Answers
<1>4. CASE up' = up /\ Msg.op # "read"
  BY <1>4 DEF Answer
<1>5. CASE Answer /\ Msg.op = "read" /\ up' = Append(up, NewAnswer) /\ m' = m /\ wire' = wire
  <2> DEFINE a == NewAnswer
  <2>1. a \in Answers /\ up' = Append(up, a)
    BY <1>3, <1>5
  <2> HIDE DEF a
  <2>2. /\ DOMAIN up = 1 .. Len(up) /\ DOMAIN up' = 1 .. Len(up) + 1 /\ Len(up) \in Nat
        /\ (\A i \in DOMAIN up : up'[i] = up[i]) /\ up'[Len(up) + 1] = a
    BY <1>2, <2>1, Appended
  <2>3. /\ \A i \in DOMAIN up : i \in DOMAIN up' /\ up'[i] = up[i]
        /\ \A i \in DOMAIN up' : (i \in DOMAIN up /\ up'[i] = up[i]) \/ (i = Len(up) + 1 /\ up'[i] = a)
        /\ Len(up) + 1 \in DOMAIN up' /\ up'[Len(up) + 1] = a
    BY <2>2
  <2> QED BY <1>1, <1>5, <2>3 DEF a
<1>6. CASE NextSlot /\ Msg.op = "go" /\ up' = Append(up, [op |-> "msi"]) /\ m.irq_at = m.head + 1
  <2> DEFINE a == [op |-> "msi"]
  <2>1. a \in Answers /\ up' = Append(up, a)
    BY <1>2, <1>6
  <2> HIDE DEF a
  <2>2. /\ DOMAIN up = 1 .. Len(up) /\ DOMAIN up' = 1 .. Len(up) + 1 /\ Len(up) \in Nat
        /\ (\A i \in DOMAIN up : up'[i] = up[i]) /\ up'[Len(up) + 1] = a
    BY <1>2, <2>1, Appended
  <2>3. /\ \A i \in DOMAIN up : i \in DOMAIN up' /\ up'[i] = up[i]
        /\ \A i \in DOMAIN up' : (i \in DOMAIN up /\ up'[i] = up[i]) \/ (i = Len(up) + 1 /\ up'[i] = a)
    BY <2>2
  <2>4. ~Answer
    BY <1>6 DEF Answer
  <2> QED BY <1>1, <1>6, <2>3, <2>4 DEF a
<1> QED BY <1>1, <1>4, <1>5, <1>6

LEMMA AskedArrive == ASSUME IInv, ArriveSteps PROVE AskedInv'
<1>0. TypeOK /\ AskedInv /\ ModuleInv /\ QuietInv /\ StageInv /\ IndexInv /\ StatusInv /\ OrderInv /\ StartInv
  BY DEF IInv, ModuleInv
<1>1. Pop /\ Shifted /\ h' = h
  BY <1>0, ArriveMoves, PopShifts DEF Pop
<1>2. \A i \in DOMAIN io' : i + 1 \in DOMAIN io /\ io'[i] = io[i + 1] /\ i + 1 # 1 /\ i \in Nat
  BY <1>1 DEF Shifted
<1>3. \A i \in DOMAIN io : i = 1 \/ \E k \in DOMAIN io' : io'[k] = io[i]
  BY <1>1 DEF Shifted
<1>4. Msg = io[1] /\ 1 \in DOMAIN io /\ DOMAIN io = 1 .. Len(io) /\ Len(io) \in Nat
  BY <1>1 DEF Shifted
<1>u. /\ \A i \in DOMAIN up : i \in DOMAIN up' /\ up'[i] = up[i]
      /\ \A i \in DOMAIN up' :
           \/ i \in DOMAIN up /\ up'[i] = up[i]
           \/ i = Len(up) + 1 /\ Answer /\ up'[i] = NewAnswer
           \/ up'[i] = [op |-> "msi"]
      /\ Answer => Len(up) + 1 \in DOMAIN up' /\ up'[Len(up) + 1] = NewAnswer
  BY UpGrows
<1>a. Answer => /\ Asks(Msg) /\ \A i \in DOMAIN io' : ~Asks(io'[i])
                /\ \A i \in DOMAIN up : up[i].op = "msi"
                /\ NewAnswer.op = Msg.reg
                /\ NewAnswer.val = IF Msg.reg = "STATUS" THEN m.enabled ELSE m.head
  <2> SUFFICES ASSUME Answer PROVE
                /\ Asks(Msg) /\ \A i \in DOMAIN io' : ~Asks(io'[i])
                /\ \A i \in DOMAIN up : up[i].op = "msi"
                /\ NewAnswer.op = Msg.reg
                /\ NewAnswer.val = IF Msg.reg = "STATUS" THEN m.enabled ELSE m.head
    OBVIOUS
  <2>1. Asks(Msg)
    BY DEF Answer, Asks
  <2>2. \A i \in DOMAIN io' : ~Asks(io'[i])
    BY <1>0, <1>2, <1>4, <2>1 DEF AskedInv
  <2>3. \A i \in DOMAIN up : up[i].op = "msi"
    BY <1>0, <1>4, <2>1 DEF AskedInv
  <2> QED BY <2>1, <2>2, <2>3 DEF NewAnswer
<1>b. Asks(Msg) => Answer
  BY UpGrows DEF Asks, Answer
<1>5. \A i, j \in DOMAIN io' : Asks(io'[i]) /\ Asks(io'[j]) => i = j
  BY <1>0, <1>2 DEF AskedInv
<1>6. \A i, j \in DOMAIN up' : up'[i].op # "msi" /\ up'[j].op # "msi" => i = j
  BY <1>0, <1>u, <1>a DEF AskedInv
<1>7. \A i \in DOMAIN io', j \in DOMAIN up' : Asks(io'[i]) => up'[j].op = "msi"
  BY <1>0, <1>2, <1>u, <1>a DEF AskedInv
<1>8. Working => /\ \A i \in DOMAIN io' : ~Stops(io'[i]) /\ ~Asks(io'[i])
                 /\ \A i \in DOMAIN up' : up'[i].op = "msi"
  BY <1>0, <1>2, <1>4, <1>u, <1>a DEF AskedInv
<1>9. h.pc # "flr" => \A i \in DOMAIN io' : io'[i].op # "flr"
  BY <1>0, <1>2 DEF AskedInv
<1>10. \A i \in DOMAIN io' : Stops(io'[i]) => \E j \in DOMAIN io' : Asks(io'[j])
  <2> SUFFICES ASSUME NEW i \in DOMAIN io', Stops(io'[i]) PROVE \E j \in DOMAIN io' : Asks(io'[j])
    OBVIOUS
  <2>1. PICK j \in DOMAIN io : Asks(io[j])
    BY <1>0, <1>2 DEF AskedInv
  <2>2. j # 1
    <3> SUFFICES ASSUME j = 1 PROVE FALSE
      OBVIOUS
    <3>1. 1 < i + 1
      BY <1>2, <1>4
    <3>2. io'[i].op \in {"back", "go"}
      BY <1>0, <1>2, <1>4, <2>1, <3>1 DEF OrderInv
    <3> QED BY <3>2 DEF Stops, IsWrite
  <2> QED BY <1>3, <2>1, <2>2
<1>11. ASSUME h.pc \in {"status", "head"}
       PROVE  Answer \/ (\E i \in DOMAIN io' : Asks(io'[i]))
                     \/ \E i \in DOMAIN up' : up'[i].op = (IF h.pc = "status" THEN "STATUS" ELSE "HEAD")
  <2>1. CASE \E i \in DOMAIN io : Asks(io[i])
    BY <1>3, <1>4, <1>b, <2>1
  <2>2. CASE \E i \in DOMAIN up : up[i].op = (IF h.pc = "status" THEN "STATUS" ELSE "HEAD")
    BY <1>u, <2>2
  <2> QED BY <1>0, <1>11, <2>1, <2>2 DEF AskedInv
<1>12. ASSUME h.pc = "status"
       PROVE  /\ \A i \in DOMAIN io' : Asks(io'[i]) => io'[i].reg = "STATUS"
              /\ \A i \in DOMAIN up' : up'[i].op # "HEAD"
              /\ \/ \E i \in DOMAIN io' : Asks(io'[i])
                 \/ \E i \in DOMAIN up' : up'[i].op = "STATUS"
              /\ ~Stopping' => /\ \A i \in DOMAIN io' : io'[i].op # "write"
                               /\ m'.wedged \/ ~m'.enable
                               /\ m'.ring
              /\ \A i \in DOMAIN up' : up'[i].op = "STATUS" /\ ~up'[i].val => ~m'.enabled
  <2>1. \A i \in DOMAIN io' : Asks(io'[i]) => io'[i].reg = "STATUS"
    BY <1>0, <1>2, <1>12 DEF AskedInv
  <2>2. Answer => NewAnswer.op = "STATUS" /\ NewAnswer.val = m.enabled
    BY <1>0, <1>4, <1>a, <1>12 DEF AskedInv
  <2>3. \A i \in DOMAIN up' : up'[i].op # "HEAD"
    BY <1>0, <1>u, <1>12, <2>2 DEF AskedInv
  <2>4. (\E i \in DOMAIN io' : Asks(io'[i])) \/ \E i \in DOMAIN up' : up'[i].op = "STATUS"
    BY <1>u, <1>11, <1>12, <2>2
  <2>5. ~Stopping' => /\ \A i \in DOMAIN io' : io'[i].op # "write"
                      /\ m'.wedged \/ ~m'.enable
                      /\ m'.ring
    <3> SUFFICES ASSUME ~Stopping'
                 PROVE  /\ \A i \in DOMAIN io' : io'[i].op # "write"
                        /\ m'.wedged \/ ~m'.enable
                        /\ m'.ring
      OBVIOUS
    <3>1. CASE ~Stopping
      <4>1. m'.ring /\ (m.wedged \/ ~m.enable => m'.wedged \/ ~m'.enable) /\ \A i \in DOMAIN io : io[i].op # "write"
        BY <1>12, <3>1, StillWhenAsked
      <4>2. m.wedged \/ ~m.enable
        BY <1>0, <1>12, <3>1 DEF AskedInv
      <4> QED BY <1>2, <4>1, <4>2
    <3>2. CASE Stopping
      <4>0. ~\E i \in DOMAIN io' : Stops(io'[i])
        BY DEF Stopping, Stops, IsWrite
      <4>1. Stops(io[1])
        BY <1>3, <3>2, <4>0 DEF Stopping
      <4>2. \A i \in DOMAIN io' : io'[i].op # "write"
        <5> TAKE i \in DOMAIN io'
        <5>1. 1 < i + 1
          BY <1>2
        <5> QED BY <1>0, <1>2, <1>4, <4>1, <5>1 DEF OrderInv
      <4>3. m.enable
        <5> SUFFICES ASSUME ~m.enable PROVE FALSE
          OBVIOUS
        <5>1. PICK p \in DOMAIN io : Starts(io[p]) /\ \A q \in 1 .. p - 1 : ~Stops(io[q])
          BY <1>0, <3>2 DEF StartInv
        <5>2. p # 1
          BY <4>1, <5>1 DEF Starts, Stops
        <5>3. 1 \in 1 .. p - 1
          BY <1>4, <5>2
        <5> QED BY <4>1, <5>1, <5>3
      <4>4. m.ring /\ Msg.op = "write" /\ Msg.reg = "CTRL" /\ ~Msg.val.en
        BY <1>0, <1>4, <4>1, <4>3 DEF IndexInv, Stops, IsWrite
      <4>5. (Ignored /\ m.wedged) \/ StopQueue
        BY <4>3, <4>4, UpGrows DEF ArriveSteps, Ignored, StartQueue, SameQueue, TailOff, TailOn, TailBad,
           SetRing, SetIrqAt, TakeSeed, Answer, TakeFlr, Wedge, EndsEarly, StartGemm, Operands, Dropped,
           NextSlot, OneOrdered, LastOrdered, IsDescriptor, IsWrite, Starts, IsRecord
      <4>6. (m'.wedged \/ ~m'.enable) /\ m'.ring
        BY <1>0, <4>4, <4>5, StopQueueIs DEF Ignored
      <4> QED BY <4>2, <4>6
    <3> QED BY <3>1, <3>2
  <2>6. ASSUME NEW i \in DOMAIN up', up'[i].op = "STATUS", ~up'[i].val PROVE ~m'.enabled
    <3>1. CASE i \in DOMAIN up /\ up'[i] = up[i]
      <4>1. ~m.enabled /\ \A k \in DOMAIN io : ~Asks(io[k])
        BY <1>0, <1>12, <2>6, <3>1 DEF AskedInv
      <4>2. ~Stopping
        BY <1>0, <4>1 DEF AskedInv, Stopping
      <4> QED BY <1>12, <4>1, <4>2, StillWhenAsked
    <3>2. CASE Answer /\ up'[i] = NewAnswer
      BY <2>2, <2>6, <3>2 DEF Answer
    <3> QED BY <1>u, <2>6, <3>1, <3>2
  <2> QED BY <2>1, <2>3, <2>4, <2>5, <2>6
<1>13. ASSUME h.pc = "head"
       PROVE  /\ \A i \in DOMAIN io' : io'[i].op # "write" /\ (Asks(io'[i]) => io'[i].reg = "HEAD")
              /\ \A i \in DOMAIN up' : up'[i].op # "STATUS"
              /\ \/ \E i \in DOMAIN io' : Asks(io'[i])
                 \/ \E i \in DOMAIN up' : up'[i].op = "HEAD"
              /\ \A i \in DOMAIN up' : up'[i].op = "HEAD" => up'[i].val = m'.head
              /\ ~m'.enabled /\ m'.ring
  <2>1. \A i \in DOMAIN io' : io'[i].op # "write" /\ (Asks(io'[i]) => io'[i].reg = "HEAD")
    BY <1>0, <1>2, <1>13 DEF AskedInv
  <2>2. Answer => NewAnswer.op = "HEAD" /\ NewAnswer.val = m.head
    BY <1>0, <1>4, <1>a, <1>13 DEF AskedInv
  <2>3. \A i \in DOMAIN up' : up'[i].op # "STATUS"
    BY <1>0, <1>u, <1>13, <2>2 DEF AskedInv
  <2>4. (\E i \in DOMAIN io' : Asks(io'[i])) \/ \E i \in DOMAIN up' : up'[i].op = "HEAD"
    BY <1>u, <1>11, <1>13, <2>2
  <2>5. m'.head = m.head /\ m'.ring /\ (m'.enabled => m.enabled) /\ ~m.enabled
    BY <1>0, <1>13, StillWhenAsked DEF AskedInv
  <2>6. \A i \in DOMAIN up' : up'[i].op = "HEAD" => up'[i].val = m'.head
    BY <1>0, <1>u, <1>13, <2>2, <2>5 DEF AskedInv
  <2> QED BY <2>1, <2>3, <2>4, <2>5, <2>6
<1> QED BY <1>1, <1>5, <1>6, <1>7, <1>8, <1>9, <1>10, <1>12, <1>13 DEF AskedInv, Asks, Stops, IsWrite, Working

\* Taking the first of what is on its way to the host.
LEMMA UpTakes ==
  ASSUME TypeOK, up # <<>>, up' = Tail(up)
  PROVE  /\ Head(up) = up[1] /\ 1 \in DOMAIN up /\ Len(up) \in Nat \ {0}
         /\ DOMAIN up = 1 .. Len(up) /\ DOMAIN up' = 1 .. Len(up) - 1
         /\ \A i \in DOMAIN up' : i + 1 \in DOMAIN up /\ up'[i] = up[i + 1] /\ i + 1 # 1
         /\ \A i \in DOMAIN up : i # 1 => i - 1 \in DOMAIN up' /\ up'[i - 1] = up[i]
<1>1. up \in Seq(Answers)
  BY DEF TypeOK
<1>2. /\ Head(up) = up[1] /\ 1 \in DOMAIN up /\ Len(up) \in Nat \ {0}
      /\ DOMAIN up = 1 .. Len(up) /\ DOMAIN up' = 1 .. Len(up) - 1
      /\ \A i \in DOMAIN up' : i + 1 \in DOMAIN up /\ up'[i] = up[i + 1]
      /\ \A i \in DOMAIN up : i # 1 => i - 1 \in DOMAIN up' /\ up'[i - 1] = up[i]
  BY <1>1, Popped
<1> QED BY <1>2

LEMMA AskedHost == ASSUME IInv, HostNext PROVE AskedInv'
<1>0. TypeOK /\ AskedInv /\ QuietInv
  BY DEF IInv
<1>1. HostSent
  BY <1>0, HostSentLemma
<1>2. /\ \A i \in DOMAIN io : i \in DOMAIN io' /\ io'[i] = io[i]
      /\ m' = m /\ DOMAIN io = 1 .. Len(io) /\ Len(io) \in Nat
  BY <1>1 DEF HostSent
<1>3. CASE Publish \/ TryEnd \/ Drain \/ Drained \/ Awaited
  <2>1. Working /\ Working' /\ io' = io /\ up' = up
    BY <1>0, <1>3, HostSends, PublishIs, PlainHostIs, TryEndIs DEF Working, SamePc
  <2> QED BY <1>0, <2>1 DEF AskedInv, Asks, Stops, IsWrite, Working
<1>4. CASE TakeMsi
  <2>1. h'.pc = h.pc /\ io' = io /\ m' = m /\ up # <<>> /\ up' = Tail(up) /\ Head(up).op = "msi"
    BY <1>0, <1>4, HostSends, PlainHostIs DEF SamePc
  <2>2. /\ \A i \in DOMAIN up' : i + 1 \in DOMAIN up /\ up'[i] = up[i + 1] /\ i \in Int
        /\ \A i \in DOMAIN up : up[i].op # "msi" => \E k \in DOMAIN up' : up'[k] = up[i]
    BY SMTT(30), <1>0, <2>1, UpTakes
  <2>3. \A i, j \in DOMAIN up' : up'[i].op # "msi" /\ up'[j].op # "msi" => i = j
    BY <1>0, <2>2 DEF AskedInv
  <2>4. Working' = Working /\ Stopping' = Stopping
    BY <2>1 DEF Working, Stopping, Stops, IsWrite
  <2>5. h.pc = "status" =>
          /\ \A i \in DOMAIN up' : up'[i].op # "HEAD"
          /\ \/ \E i \in DOMAIN io' : Asks(io'[i])
             \/ \E i \in DOMAIN up' : up'[i].op = "STATUS"
          /\ \A i \in DOMAIN up' : up'[i].op = "STATUS" /\ ~up'[i].val => ~m'.enabled
    BY <1>0, <2>1, <2>2 DEF AskedInv
  <2>6. h.pc = "head" =>
          /\ \A i \in DOMAIN up' : up'[i].op # "STATUS"
          /\ \/ \E i \in DOMAIN io' : Asks(io'[i])
             \/ \E i \in DOMAIN up' : up'[i].op = "HEAD"
          /\ \A i \in DOMAIN up' : up'[i].op = "HEAD" => up'[i].val = m'.head
    BY <1>0, <2>1, <2>2 DEF AskedInv
  <2>7. /\ \A i \in DOMAIN io', j \in DOMAIN up' : Asks(io'[i]) => up'[j].op = "msi"
        /\ Working' => \A i \in DOMAIN up' : up'[i].op = "msi"
    BY <1>0, <2>1, <2>2, <2>4 DEF AskedInv
  <2> QED BY <1>0, <2>1, <2>3, <2>4, <2>5, <2>6, <2>7 DEF AskedInv, Asks, Stops, IsWrite
<1>5. CASE Ring \/ PublishIrq \/ IrqOff \/ SetSeed
  <2>1. Working /\ Working' /\ up' = up /\ h'.pc # "flr"
    BY <1>0, <1>5, PublishIrqIs, PlainHostIs DEF Working, SamePc
  <2>2. \A i \in DOMAIN io : ~Stops(io[i]) /\ ~Asks(io[i]) /\ io[i].op # "flr"
    BY <1>0, <2>1 DEF AskedInv, Working
  <2>3. \A j \in DOMAIN io' : ~Stops(io'[j]) /\ ~Asks(io'[j]) /\ io'[j].op # "flr"
    <3> TAKE j \in DOMAIN io'
    <3>1. CASE j \in DOMAIN io
      BY <1>2, <2>2, <3>1
    <3>2. CASE j \notin DOMAIN io
      BY <1>0, <1>5, <3>2, Fresh DEF IsReg, IsCtrl, Stops, Asks, IsWrite
    <3> QED BY <3>1, <3>2
  <2> QED BY <1>0, <2>1, <2>3 DEF AskedInv, Asks, Stops, IsWrite, Working
<1>6. CASE DrainTimeout \/ Teardown
  <2>1. Working /\ h'.pc = "status" /\ up' = up /\ ~Working' /\ h.pc # "flr"
    BY <1>0, <1>6, DisableIs DEF Working
  <2>2. /\ \A i \in DOMAIN io : ~Stops(io[i]) /\ ~Asks(io[i]) /\ io[i].op # "flr"
        /\ \A i \in DOMAIN up' : up'[i].op = "msi"
    BY <1>0, <2>1 DEF AskedInv
  <2>3. \A j \in DOMAIN io' : \/ j \in DOMAIN io /\ io'[j] = io[j]
                              \/ IsCtrl(io'[j], FALSE) /\ j = Len(io) + 1
                              \/ IsRead(io'[j], "STATUS") /\ j = Len(io) + 2
    BY <1>0, <1>2, <1>6, Fresh
  <2>4. /\ Keeps(2) /\ IsCtrl(At(1), FALSE) /\ IsRead(At(2), "STATUS")
    BY <1>0, <1>6, Sends
  <2>5. /\ Len(io) + 1 \in DOMAIN io' /\ io'[Len(io) + 1] = At(1)
        /\ Len(io) + 2 \in DOMAIN io' /\ io'[Len(io) + 2] = At(2)
    BY <1>0, <2>4, Posted
  <2>6. \E i \in DOMAIN io' : Asks(io'[i])
    BY <2>4, <2>5 DEF IsRead, Asks
  <2>7. Stopping'
    <3>1. io'[Len(io) + 1].op = "write" /\ io'[Len(io) + 1].reg = "CTRL" /\ ~io'[Len(io) + 1].val.en
      BY <2>4, <2>5 DEF IsCtrl
    <3> QED BY <2>5, <3>1 DEF Stopping, Stops, IsWrite
  <2>8. \A j \in DOMAIN io' : io'[j].op # "flr" /\ (Asks(io'[j]) => j = Len(io) + 2 /\ io'[j].reg = "STATUS")
    BY <2>2, <2>3 DEF IsCtrl, IsRead, Asks
  <2> QED BY <2>1, <2>2, <2>6, <2>7, <2>8 DEF AskedInv, Asks, Stops, IsWrite
<1>7. CASE StatusBack
  <2>1. /\ h.pc = "status" /\ up # <<>> /\ Head(up).op = "STATUS" /\ up' = Tail(up)
        /\ \/ ~Head(up).val /\ h'.pc = "head"
           \/ Head(up).val /\ h.quiesced /\ h'.pc = "flr"
           \/ Head(up).val /\ ~h.quiesced /\ h'.pc = "status"
    BY <1>0, <1>7, StatusBackIs
  <2>2. \A i \in DOMAIN io : ~Stops(io[i]) /\ ~Asks(io[i]) /\ io[i].op # "flr"
    BY <1>0, <2>1, AnsweredMeans DEF AskedInv
  <2>3. ~Stopping /\ (\A i \in DOMAIN io : io[i].op # "write") /\ (m.wedged \/ ~m.enable) /\ m.ring
    BY <1>0, <2>1, <2>2 DEF AskedInv, Stopping
  <2>4. \A i \in DOMAIN up' : up'[i].op = "msi"
    BY <1>0, <2>1, UpTakes DEF AskedInv
  <2>5. \A j \in DOMAIN io' : \/ j \in DOMAIN io /\ io'[j] = io[j]
                              \/ /\ j = Len(io) + 1
                                 /\ ~Head(up).val => IsRead(io'[j], "HEAD")
                                 /\ Head(up).val /\ h.quiesced => io'[j].op = "flr"
                                 /\ Head(up).val /\ ~h.quiesced => IsRead(io'[j], "STATUS")
    BY <1>0, <1>2, <1>7, Fresh
  <2>6. Len(io) + 1 \in DOMAIN io' /\ Len(io) + 1 \notin DOMAIN io
    <3>1. Keeps(1)
      BY <1>0, <1>7, Sends
    <3> QED BY <1>0, <3>1, Posted
  <2>7. /\ \A j \in DOMAIN io' : io'[j].op # "write" /\ ~Stops(io'[j]) /\ (Asks(io'[j]) => j = Len(io) + 1)
        /\ ~Stopping'
    <3>1. \A j \in DOMAIN io' : io'[j].op # "write" /\ (Asks(io'[j]) => j = Len(io) + 1)
      BY <2>2, <2>3, <2>5 DEF IsRead, Asks
    <3> QED BY <3>1 DEF Stopping, Stops, IsWrite
  <2>8. CASE ~Head(up).val /\ h'.pc = "head"
    <3>1. /\ \A j \in DOMAIN io' : io'[j].op # "flr" /\ (Asks(io'[j]) => io'[j].reg = "HEAD")
          /\ Asks(io'[Len(io) + 1])
      BY <2>2, <2>5, <2>6, <2>8 DEF IsRead, Asks
    <3>2. ~m.enabled
      BY <1>0, <2>1, <2>8, UpTakes DEF AskedInv
    <3> QED BY <1>2, <2>3, <2>4, <2>6, <2>7, <2>8, <3>1, <3>2 DEF AskedInv, Working, Asks, Stops, IsWrite
  <2>9. CASE Head(up).val /\ h.quiesced /\ h'.pc = "flr"
    <3>1. \A j \in DOMAIN io' : ~Asks(io'[j])
      BY <2>2, <2>5, <2>9 DEF Asks
    <3> QED BY <2>4, <2>7, <2>9, <3>1 DEF AskedInv, Working, Asks, Stops, IsWrite
  <2>10. CASE Head(up).val /\ ~h.quiesced /\ h'.pc = "status"
    <3>1. /\ \A j \in DOMAIN io' : io'[j].op # "flr" /\ (Asks(io'[j]) => io'[j].reg = "STATUS")
          /\ Asks(io'[Len(io) + 1])
      BY <2>2, <2>5, <2>6, <2>10 DEF IsRead, Asks
    <3> QED BY <1>2, <2>3, <2>4, <2>6, <2>7, <2>10, <3>1 DEF AskedInv, Working, Asks, Stops, IsWrite
  <2> QED BY <2>1, <2>8, <2>9, <2>10
<1>8. CASE HeadBack
  <2>1. h.pc = "head" /\ up # <<>> /\ Head(up).op = "HEAD" /\ up' = Tail(up) /\ h'.pc = "script"
    BY <1>0, <1>8, RestartIs
  <2>2. \A i \in DOMAIN io : ~Stops(io[i]) /\ ~Asks(io[i]) /\ io[i].op # "flr"
    BY <1>0, <2>1, AnsweredMeans DEF AskedInv
  <2>3. \A i \in DOMAIN up' : up'[i].op = "msi"
    BY <1>0, <2>1, UpTakes DEF AskedInv
  <2>4. \A j \in DOMAIN io' : ~Stops(io'[j]) /\ ~Asks(io'[j]) /\ io'[j].op # "flr"
    <3> TAKE j \in DOMAIN io'
    <3>1. CASE j \in DOMAIN io
      BY <1>2, <2>2, <3>1
    <3>2. CASE j \notin DOMAIN io
      BY <1>0, <1>8, <3>2, Fresh DEF IsReg, IsCtrl, Stops, Asks, IsWrite
    <3> QED BY <3>1, <3>2
  <2> QED BY <2>1, <2>3, <2>4 DEF AskedInv, Asks, Stops, IsWrite
<1>9. CASE AfterReset
  <2>1. h.pc = "flr" /\ up' = up /\ h'.pc = "script" /\ \A i \in 1 .. Len(io) : io[i] # Flr
    BY <1>0, <1>9, RestartIs
  <2>2. io = <<>> /\ up = <<>>
    BY <1>0, <2>1 DEF QuietInv
  <2>3. \A j \in DOMAIN io' : ~Stops(io'[j]) /\ ~Asks(io'[j]) /\ io'[j].op # "flr"
    <3> TAKE j \in DOMAIN io'
    <3>1. j \notin DOMAIN io
      BY <2>2
    <3> QED BY <1>0, <1>9, <3>1, Fresh DEF IsReg, IsCtrl, Stops, Asks, IsWrite
  <2>4. DOMAIN up' = {}
    BY <2>1, <2>2
  <2> QED BY <2>1, <2>3, <2>4 DEF AskedInv, Asks, Stops, IsWrite
<1> QED BY <1>3, <1>4, <1>5, <1>6, <1>7, <1>8, <1>9 DEF HostNext

LEMMA AskedStep == ASSUME IInv, [Next]_vars PROVE AskedInv'
<1>0. TypeOK /\ AskedInv
  BY DEF IInv
<1>1. CASE ArriveSteps
  BY <1>1, AskedArrive
<1>2. CASE HostNext
  BY <1>2, AskedHost
<1>3. CASE Shot
  <2>1. io' = io /\ up' = up /\ h' = h /\ m'.enable = m.enable /\ m'.enabled = m.enabled
        /\ m'.head = m.head /\ m'.ring = m.ring /\ m'.wedged = m.wedged
    BY <1>0, <1>3 DEF Shot, TypeOK, ModuleStates
  <2> QED BY <1>0, <2>1 DEF AskedInv, Working, Stopping, Asks, Stops, IsWrite
<1>4. ASSUME NEW l \in wire, Land(l) \/ AtHost(l) PROVE AskedInv'
  <2>1. Keeps(1) /\ At(1).op \in {"go", "back"} /\ m' = m /\ up' = up /\ h' = h
    <3>1. CASE Land(l)
      <4>1. l \in Results("ItoMWr") \cup Records("ItoMWr")
        BY <1>0, <3>1, LineShape DEF TypeOK, Land
      <4>2. [l EXCEPT !.op = "go"].op = "go"
        BY <4>1 DEF Results, Records
      <4> QED BY <1>0, <3>1, <4>2, LandTypes DEF Land
    <3>2. CASE AtHost(l)
      BY <1>0, <3>2, AtHostTypes DEF AtHost
    <3> QED BY <1>4, <3>1, <3>2
  <2>2. /\ \A i \in DOMAIN io : i \in DOMAIN io' /\ io'[i] = io[i]
        /\ \A i \in DOMAIN io' : (i \in DOMAIN io /\ io'[i] = io[i]) \/ io'[i].op \in {"go", "back"}
    BY <2>1 DEF Keeps, At
  <2>3. Stopping' = Stopping
    BY <2>2 DEF Stopping, Stops, IsWrite
  <2>4. \A i \in DOMAIN io' : (i \in DOMAIN io /\ io'[i] = io[i]) \/ (~Asks(io'[i]) /\ ~Stops(io'[i]))
    BY <2>2 DEF Asks, Stops, IsWrite
  <2>5. /\ \A i, j \in DOMAIN io' : Asks(io'[i]) /\ Asks(io'[j]) => i = j
        /\ \A i \in DOMAIN io', j \in DOMAIN up' : Asks(io'[i]) => up'[j].op = "msi"
        /\ Working => \A i \in DOMAIN io' : ~Stops(io'[i]) /\ ~Asks(io'[i])
        /\ h.pc # "flr" => \A i \in DOMAIN io' : io'[i].op # "flr"
        /\ \A i \in DOMAIN io' : Stops(io'[i]) => \E j \in DOMAIN io' : Asks(io'[j])
    BY <1>0, <2>1, <2>2, <2>4 DEF AskedInv
  <2>6. h.pc = "status" =>
          /\ \A i \in DOMAIN io' : Asks(io'[i]) => io'[i].reg = "STATUS"
          /\ (\E i \in DOMAIN io' : Asks(io'[i])) \/ (\E i \in DOMAIN up : up[i].op = "STATUS")
          /\ ~Stopping => \A i \in DOMAIN io' : io'[i].op # "write"
    BY <1>0, <2>2, <2>4 DEF AskedInv
  <2>7. h.pc = "head" =>
          /\ \A i \in DOMAIN io' : io'[i].op # "write" /\ (Asks(io'[i]) => io'[i].reg = "HEAD")
          /\ (\E i \in DOMAIN io' : Asks(io'[i])) \/ (\E i \in DOMAIN up : up[i].op = "HEAD")
    BY <1>0, <2>2, <2>4 DEF AskedInv
  <2>8. Working' = Working
    BY <2>1 DEF Working
  <2> QED BY <1>0, <2>1, <2>3, <2>5, <2>6, <2>7, <2>8 DEF AskedInv, Asks, Stops, IsWrite
<1>5. CASE UNCHANGED vars
  BY <1>0, <1>5 DEF AskedInv, Working, Stopping, Asks, Stops, IsWrite, vars
<1> QED BY <1>1, <1>2, <1>3, <1>4, <1>5, Steps

-----------------------------------------------------------------------------
(* The queue the host has started again. *)

\* The enable that is to start the queue is the p-th on the link.
StartAt(p) ==
  /\ Starts(io[p])
  /\ \A q \in DOMAIN io : IsWrite(io[q], "TAIL") =>
       IF q < p THEN io[q].val = h.origin ELSE io[q].val > h.origin
  /\ \A q \in 1 .. p - 1 : ~Starts(io[q]) /\ ~Stops(io[q]) /\ ~IsWrite(io[q], "IRQ_AT")
  /\ m.tail = h.origin \/ \E q \in 1 .. p - 1 : IsWrite(io[q], "TAIL")
  /\ m.ring \/ \E q \in 1 .. p - 1 : IsWrite(io[q], "RING")
  /\ \A q \in 1 .. p - 1 : IsWrite(io[q], "SEED") =>
       m.head = m.tail /\ \A r \in 1 .. q - 1 : ~IsWrite(io[r], "TAIL")

StartBody ==
  /\ ~m.enabled
  /\ h.hhead = h.origin /\ m.head <= h.origin /\ m.tail <= h.origin
  /\ \E p \in DOMAIN io : StartAt(p)

LEMMA StartInvIs == StartInv <=> ((Working \/ Stopping) /\ ~m.enable => StartBody)
BY DEF StartInv, StartBody, StartAt

LEMMA StartInvIsNext == StartInv' <=> ((Working \/ Stopping)' /\ ~m'.enable => StartBody')
BY DEF StartInv, StartBody, StartAt

LEMMA StartArrive == ASSUME IInv, ArriveSteps PROVE StartInv'
<1>0. /\ TypeOK /\ AskedInv /\ ModuleInv /\ QuietInv /\ StageInv /\ IndexInv /\ StatusInv /\ OrderInv /\ StartInv
      /\ ReadInv /\ JobInv /\ ErrandInv
  BY DEF IInv, ModuleInv
<1>1. Pop /\ Shifted /\ h' = h
  BY <1>0, ArriveMoves, PopShifts DEF Pop
<1>2. \A i \in DOMAIN io' : i + 1 \in DOMAIN io /\ io'[i] = io[i + 1] /\ i \in Nat /\ 1 < i + 1
  BY <1>1 DEF Shifted
<1>4. Msg = io[1] /\ 1 \in DOMAIN io /\ DOMAIN io = 1 .. Len(io) /\ Len(io) \in Nat /\ DOMAIN io' = 1 .. Len(io) - 1
      /\ \A i \in DOMAIN io : i # 1 => i - 1 \in DOMAIN io' /\ io'[i - 1] = io[i]
  BY <1>1 DEF Shifted
<1> SUFFICES ASSUME Working \/ Stopping', ~m'.enable PROVE StartBody'
  <2>1. Working' = Working
    BY <1>1 DEF Working
  <2> QED BY <2>1, StartInvIsNext
<1>5. Stopping' => Stopping
  <2>1. Stopping' => \E i \in DOMAIN io' : Stops(io'[i])
    BY DEF Stopping, Stops, IsWrite
  <2> QED BY <1>2, <2>1 DEF Stopping
<1>6. Working \/ Stopping
  BY <1>5
<1>7. ~m.enable
  <2> SUFFICES ASSUME m.enable PROVE FALSE
    OBVIOUS
  <2>1. StopQueue \/ TakeFlr
    <3>1. ~Passes
      BY <1>0, PassesIs DEF Unmoved
    <3>2. ~(TailOff \/ SetRing \/ SetIrqAt \/ TakeSeed \/ Wedge)
      BY <1>0, RegisterIs
    <3>3. ~TailOn
      BY <1>0, TailOnIs
    <3>4. ~StartQueue /\ ~NextSlot
      BY <1>0, NextSlotIs DEF StartQueue
    <3>5. ~Dropped
      BY <1>0, DroppedIs
    <3>6. ~TailBad
      BY <1>0, NoTailBad
    <3> QED BY <3>1, <3>2, <3>3, <3>4, <3>5, <3>6 DEF ArriveSteps, Passes
  <2>2. CASE StopQueue
    <3>1. Stops(io[1])
      BY <1>0, <1>4, <2>2, StopQueueIs
    <3>2. ~Working
      BY <1>0, <1>4, <3>1 DEF AskedInv
    <3>3. \A i \in DOMAIN io' : ~Stops(io'[i])
      <4> TAKE i \in DOMAIN io'
      <4>1. io'[i].op # "write"
        BY <1>0, <1>2, <1>4, <3>1 DEF OrderInv
      <4> QED BY <4>1 DEF Stops, IsWrite
    <3> QED BY <3>2, <3>3 DEF Stopping, Stops, IsWrite
  <2>3. CASE TakeFlr
    <3>1. h.pc = "flr" /\ io' = <<>>
      BY <1>0, <2>3, TakeFlrIs
    <3>2. ~Stopping'
      BY <3>1 DEF Stopping
    <3> QED BY <3>1, <3>2 DEF Working
  <2> QED BY <2>1, <2>2, <2>3
<1>8. StartBody
  BY <1>0, <1>6, <1>7, StartInvIs
<1>9. PICK p \in DOMAIN io : StartAt(p)
  BY <1>8 DEF StartBody
<1>10. Stopped /\ ~m.wedged /\ ~Out(3)
  BY <1>0, <1>7 DEF StageInv, Stopped, Waiting, Wedged, Fetching, Loading, Shooting, Recording
<1>11. p # 1
  <2> SUFFICES ASSUME p = 1 PROVE FALSE
    OBVIOUS
  <2>1. Starts(Msg)
    BY <1>4, <1>9 DEF StartAt
  <2>2. StartQueue
    <3>1. Msg.op = "write" /\ Msg.reg = "CTRL" /\ Msg.val.en
      BY <2>1 DEF Starts, IsWrite
    <3> QED BY <1>7, <1>10, <3>1, UpGrows DEF ArriveSteps, Ignored, StopQueue, SameQueue, TailOff, TailOn, TailBad,
           SetRing, SetIrqAt, TakeSeed, Answer, TakeFlr, Wedge, EndsEarly, StartGemm, Operands, Dropped,
           NextSlot, OneOrdered, LastOrdered, IsDescriptor, IsWrite, Stops, IsRecord
  <2> QED BY <1>0, <2>2, StartQueueIs
<1>12. p \in Nat /\ p > 1 /\ p - 1 \in DOMAIN io' /\ 1 \in 1 .. p - 1 /\ io'[p - 1] = io[p]
  BY <1>4, <1>11
<1>13. ~Starts(Msg) /\ ~Stops(Msg) /\ ~IsWrite(Msg, "IRQ_AT")
  BY <1>4, <1>9, <1>12 DEF StartAt
<1>14. Ignored \/ Answer \/ TailOff \/ SetRing \/ TakeSeed
  <2>1. ~StartQueue /\ ~StopQueue /\ ~SetIrqAt
    BY <1>13 DEF StartQueue, StopQueue, SetIrqAt
  <2>2. ~SameQueue
    BY <1>7, <1>13 DEF SameQueue, Starts, Stops
  <2>3. ~TailOn /\ ~TailBad
    BY <1>7 DEF TailOn, TailBad
  <2>4. ~TakeFlr
    <3> SUFFICES ASSUME TakeFlr PROVE FALSE
      OBVIOUS
    <3>1. h.pc = "flr" /\ io' = <<>>
      BY <1>0, TakeFlrIs
    <3> QED BY <1>12, <3>1
  <2>5. Pop /\ Msg.op = "back" => Msg.job # m.job
    BY <1>0, <1>7, BackIs
  <2>6. ~Wedge /\ ~StartGemm /\ ~Operands /\ \A s \in Failed : ~EndsEarly(s)
    BY <2>5 DEF Wedge, StartGemm, Operands, EndsEarly, IsDescriptor
  <2>7. ~Dropped
    BY <1>0, <1>8, DroppedIs DEF StartBody
  <2>8. ~NextSlot
    BY <1>7 DEF NextSlot
  <2>9. ~OneOrdered /\ ~LastOrdered
    <3>1. Pop /\ Msg.op = "go" => Msg.job # m.job
      BY <1>0, <1>7, GoIs
    <3> QED BY <3>1 DEF OneOrdered, LastOrdered
  <2> QED BY <2>1, <2>2, <2>3, <2>4, <2>6, <2>7, <2>8, <2>9 DEF ArriveSteps
<1>15. /\ ~m'.enabled /\ m'.head = m.head
       /\ (m'.tail = m.tail /\ ~TailOff) \/ (TailOff /\ m'.tail = Msg.val)
       /\ m.ring => m'.ring
       /\ SetRing => m'.ring
  <2>0. ~m.enabled
    BY <1>8 DEF StartBody
  <2>1. CASE Ignored \/ Answer
    BY <2>0, <2>1 DEF Ignored, Answer, TailOff, SetRing, IsWrite
  <2>2. CASE TailOff \/ SetRing \/ TakeSeed
    BY <1>0, <1>7, <2>0, <2>2, RegisterIs DEF TailOff, SetRing, TakeSeed, IsWrite
  <2> QED BY <1>14, <2>1, <2>2
<1>16. TailOff => Msg.val = h.origin /\ IsWrite(io[1], "TAIL")
  BY <1>4, <1>9, <1>12 DEF StartAt, TailOff
<1>17. IsWrite(Msg, "TAIL") => TailOff
  BY <1>10, <1>14 DEF Ignored, Answer, SetRing, TakeSeed, IsWrite
<1>18. IsWrite(Msg, "RING") => SetRing
  BY <1>10, <1>14 DEF Ignored, Answer, TailOff, TakeSeed, IsWrite
<1>19. StartAt(p - 1)'
  <2>1. Starts(io'[p - 1])
    BY <1>9, <1>12 DEF StartAt
  <2>2. \A q \in DOMAIN io' : IsWrite(io'[q], "TAIL") =>
          IF q < p - 1 THEN io'[q].val = h.origin ELSE io'[q].val > h.origin
    <3> TAKE q \in DOMAIN io'
    <3>1. q + 1 < p <=> q < p - 1
      BY <1>2, <1>12
    <3> QED BY <1>2, <1>9, <3>1 DEF StartAt
  <2>3. \A q \in 1 .. (p - 1) - 1 : q + 1 \in 1 .. p - 1 /\ io'[q] = io[q + 1] /\ q \in Nat
    <3> TAKE q \in 1 .. (p - 1) - 1
    <3>1. q \in DOMAIN io' /\ q + 1 \in 1 .. p - 1
      BY <1>4, <1>12
    <3> QED BY <1>2, <3>1
  <2>4. \A q \in 1 .. (p - 1) - 1 : ~Starts(io'[q]) /\ ~Stops(io'[q]) /\ ~IsWrite(io'[q], "IRQ_AT")
    BY <1>9, <2>3 DEF StartAt
  <2>5. \A q \in 1 .. p - 1 : q # 1 => q - 1 \in 1 .. (p - 1) - 1 /\ io'[q - 1] = io[q]
    BY SMTT(30), <1>4, <1>12
  <2>6. m'.tail = h.origin \/ \E q \in 1 .. (p - 1) - 1 : IsWrite(io'[q], "TAIL")
    <3>1. CASE TailOff
      BY <1>15, <1>16, <3>1
    <3>2. CASE ~TailOff
      <4>1. m'.tail = m.tail
        BY <1>15, <3>2
      <4>2. CASE \E q \in 1 .. p - 1 : IsWrite(io[q], "TAIL")
        <5>1. PICK q \in 1 .. p - 1 : IsWrite(io[q], "TAIL")
          BY <4>2
        <5>2. q # 1
          BY <1>4, <1>17, <3>2, <5>1
        <5> QED BY <2>5, <5>1, <5>2
      <4> QED BY <1>9, <4>1, <4>2 DEF StartAt
    <3> QED BY <3>1, <3>2
  <2>7. m'.ring \/ \E q \in 1 .. (p - 1) - 1 : IsWrite(io'[q], "RING")
    <3>1. CASE \E q \in 1 .. p - 1 : IsWrite(io[q], "RING")
      <4>1. PICK q \in 1 .. p - 1 : IsWrite(io[q], "RING")
        BY <3>1
      <4>2. CASE q = 1
        BY <1>4, <1>15, <1>18, <4>1, <4>2
      <4>3. CASE q # 1
        BY <2>5, <4>1, <4>3
      <4> QED BY <4>2, <4>3
    <3> QED BY <1>9, <1>15, <3>1 DEF StartAt
  <2>8. ASSUME NEW q \in 1 .. (p - 1) - 1, IsWrite(io'[q], "SEED")
        PROVE  m'.head = m'.tail /\ \A r \in 1 .. q - 1 : ~IsWrite(io'[r], "TAIL")
    <3>1. IsWrite(io[q + 1], "SEED") /\ q + 1 \in 1 .. p - 1
      BY <2>3, <2>8
    <3>2. m.head = m.tail /\ \A r \in 1 .. (q + 1) - 1 : ~IsWrite(io[r], "TAIL")
      BY <1>9, <3>1 DEF StartAt
    <3>3. 1 \in 1 .. (q + 1) - 1 /\ \A r \in 1 .. q - 1 : r + 1 \in 1 .. (q + 1) - 1 /\ r \in 1 .. (p - 1) - 1
      BY <1>12
    <3>4. ~TailOff
      BY <1>16, <3>2, <3>3
    <3> QED BY <1>15, <2>3, <3>2, <3>3, <3>4
  <2> QED BY <1>1, <2>1, <2>2, <2>4, <2>6, <2>7, <2>8 DEF StartAt, Starts, Stops, IsWrite
<1>20. m'.tail <= h.origin /\ m'.head <= h.origin /\ h.hhead = h.origin
  <2>1. m.tail <= h.origin /\ m.head <= h.origin /\ h.hhead = h.origin
    BY <1>8 DEF StartBody
  <2>2. h.origin \in Nat
    BY <1>0 DEF TypeOK, HostStates
  <2> QED BY <1>15, <1>16, <2>1, <2>2
<1> QED BY <1>1, <1>12, <1>15, <1>19, <1>20 DEF StartBody

\* A line of memory reaches the host: the module is told.
LEMMA LineReaches ==
  ASSUME TypeOK, NEW l \in wire, Land(l) \/ AtHost(l)
  PROVE  /\ Keeps(1) /\ At(1).op \in {"go", "back"} /\ UNCHANGED <<m, g, up, h, cmd, script, ended>> /\ wire' = wire \ {l}
         /\ \A i \in DOMAIN io : i \in DOMAIN io' /\ io'[i] = io[i]
         /\ \A i \in DOMAIN io' : (i \in DOMAIN io /\ io'[i] = io[i]) \/ (i = Len(io) + 1 /\ io'[i] = At(1))
         /\ Len(io) \in Nat /\ Len(io') = Len(io) + 1 /\ DOMAIN io = 1 .. Len(io) /\ DOMAIN io' = 1 .. Len(io')
         /\ Len(io) + 1 \in DOMAIN io'
<1>1. CASE Land(l)
  <2>1. l \in Results("ItoMWr") \cup Records("ItoMWr")
    BY <1>1, LineShape DEF TypeOK, Land
  <2>2. [l EXCEPT !.op = "go"].op = "go"
    BY <2>1 DEF Results, Records
  <2>3. Keeps(1) /\ At(1).op \in {"go", "back"}
    BY <1>1, <2>2, LandTypes
  <2> QED BY <1>1, <2>3 DEF Keeps, At, Land
<1>2. CASE AtHost(l)
  <2>1. Keeps(1) /\ At(1).op \in {"go", "back"}
    BY <1>2, AtHostTypes
  <2> QED BY <1>2, <2>1 DEF Keeps, At, AtHost
<1> QED BY <1>1, <1>2

\* The enable is where it was when messages come after it.
LEMMA StartKept ==
  ASSUME IInv, (Working \/ Stopping) /\ ~m.enable, UNCHANGED m, h'.origin = h.origin, h'.hhead = h.hhead,
         Len(io') \in Nat, Len(io) <= Len(io'), DOMAIN io' = 1 .. Len(io'),
         \A i \in DOMAIN io : i \in DOMAIN io' /\ io'[i] = io[i],
         \A i \in DOMAIN io' : i \notin DOMAIN io => (IsWrite(io'[i], "TAIL") => io'[i].val > h.origin)
  PROVE  StartBody'
<1>0. TypeOK /\ StartInv
  BY DEF IInv
<1>1. StartBody
  BY <1>0, StartInvIs
<1>2. PICK p \in DOMAIN io : StartAt(p)
  BY <1>1 DEF StartBody
<1>3. DOMAIN io = 1 .. Len(io) /\ Len(io) \in Nat
  BY <1>0 DEF TypeOK
<1>4. \A q \in 1 .. p - 1 : q \in DOMAIN io /\ io'[q] = io[q]
  BY <1>3
<1>5. \A q \in DOMAIN io' : q \notin DOMAIN io => ~(q < p)
  BY <1>3
<1>6. \A q \in DOMAIN io' : IsWrite(io'[q], "TAIL") =>
        IF q < p THEN io'[q].val = h.origin ELSE io'[q].val > h.origin
  <2> TAKE q \in DOMAIN io'
  <2>1. CASE q \in DOMAIN io
    BY <1>2, <2>1 DEF StartAt
  <2>2. CASE q \notin DOMAIN io
    BY <1>5, <2>2
  <2> QED BY <2>1, <2>2
<1>7. \A q \in 1 .. p - 1 : \A r \in 1 .. q - 1 : r \in 1 .. p - 1
  BY <1>3
<1>8. StartAt(p)'
  <2>1. Starts(io'[p])
    BY <1>2 DEF StartAt
  <2>2. \A q \in 1 .. p - 1 : ~Starts(io'[q]) /\ ~Stops(io'[q]) /\ ~IsWrite(io'[q], "IRQ_AT")
    BY <1>2, <1>4 DEF StartAt
  <2>3. /\ m.tail = h.origin \/ \E q \in 1 .. p - 1 : IsWrite(io'[q], "TAIL")
        /\ m.ring \/ \E q \in 1 .. p - 1 : IsWrite(io'[q], "RING")
    BY <1>2, <1>4 DEF StartAt
  <2>4. \A q \in 1 .. p - 1 : IsWrite(io'[q], "SEED") =>
          m.head = m.tail /\ \A r \in 1 .. q - 1 : ~IsWrite(io'[r], "TAIL")
    BY <1>2, <1>4, <1>7 DEF StartAt
  <2> QED BY <1>6, <2>1, <2>2, <2>3, <2>4 DEF StartAt, Starts, Stops, IsWrite
<1> QED BY <1>1, <1>8 DEF StartBody

LEMMA StartHost == ASSUME IInv, HostNext PROVE StartInv'
<1>0. TypeOK /\ AskedInv /\ QuietInv /\ StageInv /\ IndexInv /\ StatusInv /\ StartInv
  BY DEF IInv
<1>1. HostSent
  BY <1>0, HostSentLemma
<1>2. /\ \A i \in DOMAIN io : i \in DOMAIN io' /\ io'[i] = io[i]
      /\ m' = m /\ DOMAIN io = 1 .. Len(io) /\ Len(io) \in Nat
      /\ Len(io') \in Nat /\ Len(io) <= Len(io') /\ DOMAIN io' = 1 .. Len(io')
  BY <1>1 DEF HostSent
<1>n. h.rung \in Nat /\ h.next \in Nat /\ h.hhead \in Nat /\ h.origin \in Nat /\ m.head \in Nat /\ m.tail \in Nat /\ RingSize \in Nat \ {0}
  <2>1. m \in ModuleStates /\ h \in HostStates
    BY <1>0 DEF TypeOK
  <2> QED BY <2>1, TransportAssumption DEF ModuleStates, HostStates
<1>i. h.origin <= h.hhead /\ h.hhead <= h.rung /\ h.rung <= h.next /\ m.head <= h.rung /\ m.tail <= h.rung
  BY <1>0 DEF IndexInv
<1> SUFFICES ASSUME (Working \/ Stopping)', ~m'.enable PROVE StartBody'
  BY StartInvIsNext
<1>3. CASE Publish \/ Drain \/ Drained \/ TakeMsi \/ Awaited
  <2>1. io' = io /\ h'.origin = h.origin /\ h'.hhead = h.hhead /\ (Working' => Working)
    <3>1. CASE Publish
      BY <1>0, <3>1, HostSends, PublishIs DEF Working, SamePc
    <3>2. CASE TakeMsi
      BY <1>0, <3>2, HostSends, PlainHostIs DEF Working, SamePc, SameIdx
    <3>3. CASE Drain \/ Drained \/ Awaited
      BY <1>0, <3>3, HostSends, PlainHostIs DEF Working, SameIdx
    <3> QED BY <1>3, <3>1, <3>2, <3>3
  <2>2. Stopping' = Stopping
    BY <2>1 DEF Stopping, Stops, IsWrite
  <2>3. (Working \/ Stopping) /\ ~m.enable
    BY <1>2, <2>1, <2>2
  <2> QED BY <1>2, <2>1, <2>3, StartKept
<1>4. CASE TryEnd
  <2>1. Working /\ Status(h.hhead) # Pending /\ (h.hhead < h.next \/ Room <= 0)
    BY <1>0, <1>4, TryEndIs DEF Working
  <2>2. h.hhead \in Live
    <3>1. h.hhead < h.next
      BY <1>n, <1>i, <2>1 DEF Room
    <3> QED BY <1>n, <3>1 DEF Live
  <2>3. StartBody
    BY <1>0, <1>2, <2>1, StartInvIs
  <2>4. Starting
    BY <1>2, <2>3 DEF Starting, StartBody, StartAt
  <2> QED BY <1>0, <2>1, <2>2, <2>4 DEF StatusInv
<1>5. CASE Ring \/ PublishIrq \/ IrqOff \/ SetSeed
  <2>1. Working /\ h'.origin = h.origin /\ h'.hhead = h.hhead
    BY <1>0, <1>5, PublishIrqIs, PlainHostIs DEF Working, SamePc, SameIdx
  <2>2. Ring => h.next > h.origin
    BY <1>0, <1>n, <1>i, PlainHostIs
  <2>3. h.next + 1 > h.origin
    BY <1>n, <1>i
  <2>4. \A i \in DOMAIN io' : i \notin DOMAIN io => (IsWrite(io'[i], "TAIL") => io'[i].val > h.origin)
    <3> TAKE i \in DOMAIN io'
    <3> SUFFICES ASSUME i \notin DOMAIN io, IsWrite(io'[i], "TAIL") PROVE io'[i].val > h.origin
      OBVIOUS
    <3>1. (Ring /\ io'[i].val = h.next) \/ io'[i].val = h.next + 1
      BY <1>0, <1>5, Fresh DEF IsReg, IsCtrl, IsWrite
    <3> QED BY <2>2, <2>3, <3>1
  <2> QED BY <1>2, <2>1, <2>4, StartKept
<1>6. CASE DrainTimeout \/ Teardown
  <2>1. Working /\ h'.origin = h.origin /\ h'.hhead = h.hhead
    BY <1>0, <1>6, DisableIs DEF SameIdx
  <2>2. \A i \in DOMAIN io' : i \notin DOMAIN io => (IsWrite(io'[i], "TAIL") => io'[i].val > h.origin)
    BY <1>0, <1>6, Fresh DEF IsCtrl, IsRead, IsWrite
  <2> QED BY <1>2, <2>1, <2>2, StartKept
<1>7. CASE StatusBack
  <2>1. ~Working'
    BY <1>0, <1>7, StatusBackIs DEF Working
  <2>2. \A i \in DOMAIN io : ~Stops(io[i])
    BY <1>0, <1>7, AnsweredMeans DEF StatusBack
  <2>3. \A i \in DOMAIN io' : ~Stops(io'[i])
    <3> TAKE i \in DOMAIN io'
    <3>1. CASE i \in DOMAIN io
      BY <1>2, <2>2, <3>1
    <3>2. CASE i \notin DOMAIN io
      <4>1. io'[i].op \in {"read", "flr"}
        BY <1>0, <1>7, <3>2, Fresh DEF IsRead
      <4> QED BY <4>1 DEF Stops, IsWrite
    <3> QED BY <3>1, <3>2
  <2>4. ~Stopping'
    BY <2>3 DEF Stopping, Stops, IsWrite
  <2> QED BY <2>1, <2>4
<1>8. CASE HeadBack
  <2>1. h.pc = "head" /\ h'.origin = h.next /\ h'.hhead = h.next
    BY <1>0, <1>8, RestartIs
  <2>2. ~m.enabled /\ m.ring /\ \A i \in DOMAIN io : io[i].op # "write"
    BY <1>0, <2>1 DEF AskedInv
  <2>3. m.head <= h.next /\ m.tail <= h.next
    BY <1>n, <1>i
  <2>4. Keeps(2) /\ IsReg(At(1), "TAIL", h.next) /\ IsCtrl(At(2), TRUE)
    BY <1>0, <1>8, Sends
  <2>5. /\ Len(io) + 1 \in DOMAIN io' /\ io'[Len(io) + 1] = At(1)
        /\ Len(io) + 2 \in DOMAIN io' /\ io'[Len(io) + 2] = At(2)
        /\ \A i \in DOMAIN io' : (i \in DOMAIN io /\ io'[i].op # "write") \/ i = Len(io) + 1 \/ i = Len(io) + 2
    <3>1. /\ Len(io) + 1 \in DOMAIN io' /\ io'[Len(io) + 1] = At(1)
          /\ Len(io) + 2 \in DOMAIN io' /\ io'[Len(io) + 2] = At(2)
      BY <1>0, <2>4, Posted
    <3>2. \A i \in DOMAIN io' : (i \in DOMAIN io /\ io'[i].op # "write") \/ i = Len(io) + 1 \/ i = Len(io) + 2
      BY <2>2, <2>4 DEF Keeps
    <3> QED BY <3>1, <3>2
  <2>p. PICK p \in Nat : p = Len(io) + 2
    BY <1>2
  <2>6. p \in DOMAIN io' /\ Starts(io'[p])
    BY <2>p, <2>4, <2>5 DEF IsCtrl, Starts, IsWrite
  <2>7. \A q \in 1 .. p - 1 : q \in DOMAIN io' /\ q # p /\ (io'[q].op # "write" \/ IsReg(io'[q], "TAIL", h.next))
    BY <1>2, <2>p, <2>4, <2>5
  <2>8. Len(io) + 1 \in 1 .. p - 1 /\ IsWrite(io'[Len(io) + 1], "TAIL")
    BY <1>2, <2>p, <2>4, <2>5 DEF IsReg, IsWrite
  <2>9. \A q \in DOMAIN io' : IsWrite(io'[q], "TAIL") =>
          IF q < p THEN io'[q].val = h.next ELSE io'[q].val > h.next
    <3> TAKE q \in DOMAIN io'
    <3>1. CASE q < p
      BY <1>2, <2>7, <3>1 DEF IsReg, IsWrite
    <3>2. CASE ~(q < p)
      <4>1. q = p
        BY <1>2, <2>p, <2>5, <3>2
      <4> QED BY <2>6, <4>1 DEF Starts, IsWrite
    <3> QED BY <3>1, <3>2
  <2>10. \A q \in 1 .. p - 1 : ~Starts(io'[q]) /\ ~Stops(io'[q]) /\ ~IsWrite(io'[q], "IRQ_AT") /\ ~IsWrite(io'[q], "SEED")
    BY <2>7 DEF IsReg, Starts, Stops, IsWrite
  <2>11. StartAt(p)'
    BY <1>2, <2>1, <2>2, <2>6, <2>8, <2>9, <2>10 DEF StartAt, Starts, Stops, IsWrite
  <2> QED BY <1>2, <2>1, <2>2, <2>3, <2>6, <2>11 DEF StartBody
<1>9. CASE AfterReset
  <2>1. h.pc = "flr" /\ h'.origin = h.next /\ h'.hhead = h.next /\ \A i \in 1 .. Len(io) : io[i] # Flr
    BY <1>0, <1>9, RestartIs
  <2>2. io = <<>> /\ m = ResetState(m.gen) /\ Len(io) = 0
    BY <1>0, <2>1 DEF QuietInv
  <2>3. ~m.enabled /\ m.head = m.tail
    BY <2>2 DEF ResetState
  <2>4. m.head <= h.next /\ m.tail <= h.next
    BY <1>n, <1>i
  <2>5. /\ Keeps(4) /\ IsReg(At(1), "RING", TRUE) /\ IsReg(At(2), "SEED", h.seed)
        /\ IsReg(At(3), "TAIL", h.next) /\ IsCtrl(At(4), TRUE)
    BY <1>0, <1>9, Sends
  <2>6. /\ DOMAIN io' = 1 .. 4 /\ IsReg(io'[1], "RING", TRUE) /\ IsReg(io'[2], "SEED", h.seed)
        /\ IsReg(io'[3], "TAIL", h.next) /\ IsCtrl(io'[4], TRUE)
    <3>1. DOMAIN io' = 1 .. 4 /\ At(1) = io'[1] /\ At(2) = io'[2] /\ At(3) = io'[3] /\ At(4) = io'[4]
      BY <2>2, <2>5 DEF Keeps, At
    <3> QED BY <2>5, <3>1
  <2>7. \A q \in 1 .. 4 : q = 1 \/ q = 2 \/ q = 3 \/ q = 4
    OBVIOUS
  <2>8. 4 \in DOMAIN io' /\ Starts(io'[4])
    BY <2>6 DEF IsCtrl, Starts, IsWrite
  <2>9. \A q \in DOMAIN io' : IsWrite(io'[q], "TAIL") =>
          IF q < 4 THEN io'[q].val = h.next ELSE io'[q].val > h.next
    BY <2>6, <2>7 DEF IsReg, IsCtrl, IsWrite
  <2>10. \A q \in 1 .. 4 - 1 : ~Starts(io'[q]) /\ ~Stops(io'[q]) /\ ~IsWrite(io'[q], "IRQ_AT")
    <3> TAKE q \in 1 .. 4 - 1
    <3>1. q = 1 \/ q = 2 \/ q = 3
      OBVIOUS
    <3> QED BY <2>6, <3>1 DEF IsReg, IsWrite, Starts, Stops
  <2>11. 3 \in 1 .. 4 - 1 /\ 1 \in 1 .. 4 - 1 /\ IsWrite(io'[3], "TAIL") /\ IsWrite(io'[1], "RING")
    BY <2>6 DEF IsReg, IsWrite
  <2>12. \A q \in 1 .. 4 - 1 : IsWrite(io'[q], "SEED") => \A r \in 1 .. q - 1 : ~IsWrite(io'[r], "TAIL")
    <3> SUFFICES ASSUME NEW q \in 1 .. 4 - 1, IsWrite(io'[q], "SEED"), NEW r \in 1 .. q - 1
                 PROVE ~IsWrite(io'[r], "TAIL")
      OBVIOUS
    <3>1. q = 2
      <4>1. q = 1 \/ q = 2 \/ q = 3
        OBVIOUS
      <4> QED BY <2>6, <4>1 DEF IsReg, IsWrite
    <3>2. r = 1
      BY <3>1
    <3> QED BY <2>6, <3>2 DEF IsReg, IsWrite
  <2>13. StartAt(4)'
    BY <1>2, <2>1, <2>3, <2>8, <2>9, <2>10, <2>11, <2>12 DEF StartAt, Starts, Stops, IsWrite
  <2> QED BY <1>2, <2>1, <2>3, <2>4, <2>8, <2>13 DEF StartBody
<1> QED BY <1>3, <1>4, <1>5, <1>6, <1>7, <1>8, <1>9 DEF HostNext

LEMMA StartStep == ASSUME IInv, [Next]_vars PROVE StartInv'
<1>0. TypeOK /\ StartInv /\ StageInv
  BY DEF IInv
<1>1. CASE ArriveSteps
  BY <1>1, StartArrive
<1>2. CASE HostNext
  BY <1>2, StartHost
<1>3. CASE Shot
  <2>1. m'.enable = m.enable /\ m.enable
    BY <1>0, <1>3, ShotStage DEF Shot, TypeOK, ModuleStates, Shooting
  <2> QED BY <2>1, StartInvIsNext
<1>4. ASSUME NEW l \in wire, Land(l) \/ AtHost(l) PROVE StartInv'
  <2>1. /\ m' = m /\ h' = h
        /\ \A i \in DOMAIN io : i \in DOMAIN io' /\ io'[i] = io[i]
        /\ \A i \in DOMAIN io' : (i \in DOMAIN io /\ io'[i] = io[i]) \/ io'[i].op \in {"go", "back"}
        /\ Len(io') \in Nat /\ Len(io) <= Len(io') /\ DOMAIN io' = 1 .. Len(io')
    BY <1>0, <1>4, LineReaches
  <2>3. (Working \/ Stopping)' = (Working \/ Stopping)
    BY <2>1 DEF Working, Stopping, Stops, IsWrite
  <2>4. \A i \in DOMAIN io' : i \notin DOMAIN io => ~IsWrite(io'[i], "TAIL")
    BY <2>1 DEF IsWrite
  <2> SUFFICES ASSUME (Working \/ Stopping) /\ ~m.enable PROVE StartBody'
    BY <2>1, <2>3, StartInvIsNext
  <2> QED BY <2>1, <2>4, StartKept
<1>5. CASE UNCHANGED vars
  BY <1>0, <1>5 DEF StartInv, Working, Stopping, Starts, Stops, IsWrite, vars
<1> QED BY <1>1, <1>2, <1>3, <1>4, <1>5, Steps

-----------------------------------------------------------------------------
(* When nothing moves. *)

LEMMA NothingOut ==
  ASSUME TypeOK, ErrandInv, io = <<>>, wire = {}
  PROVE  (\A k \in 0 .. 3 : ~Out(k)) /\ m.inflight = 0
<1>1. DOMAIN io = {}
  OBVIOUS
<1>2. \A k \in 0 .. 3 : ~Out(k)
  BY <1>1 DEF Out, Runs
<1>3. ~Out(0) /\ ~Out(1) /\ ~Out(2)
  BY <1>2
<1> QED BY <1>2, <1>3 DEF ErrandInv, One

LEMMA QuietStep == ASSUME IInv, [Next]_vars PROVE QuietInv'
<1>0. TypeOK /\ QuietInv /\ AskedInv /\ StageInv /\ ErrandInv
  BY DEF IInv
<1>s. io \in Seq(Messages) /\ up \in Seq(Answers) /\ Len(io) \in Nat /\ Len(up) \in Nat
      /\ DOMAIN io = 1 .. Len(io) /\ DOMAIN up = 1 .. Len(up)
  BY <1>0 DEF TypeOK
<1>1. CASE ArriveSteps
  <2>1. Pop /\ Shifted /\ h' = h
    BY <1>0, <1>1, ArriveMoves, PopShifts DEF Pop
  <2>2. Msg = io[1] /\ 1 \in DOMAIN io /\ Len(io) \in Nat \ {0}
    BY <2>1 DEF Shifted
  <2>3. CASE h.pc = "status" /\ h.quiesced
    <3>1. wire = {} /\ Len(io) + Len(up) = 1 /\ Asks(Msg) /\ (m.enabled => m.wedged)
      BY <1>0, <2>2, <2>3 DEF QuietInv
    <3>2. Len(io) = 1 /\ Len(up) = 0 /\ up = <<>>
      BY <1>s, <2>2, <3>1
    <3>3. Answer /\ up' = Append(up, NewAnswer) /\ m' = m /\ wire' = wire
      BY <1>1, <3>1, UpGrows DEF Asks
    <3>4. Msg.reg = "STATUS"
      BY <1>0, <2>2, <2>3, <3>1 DEF AskedInv
    <3>5. NewAnswer = [op |-> "STATUS", val |-> m.enabled]
      BY <3>4 DEF NewAnswer
    <3> DEFINE a == NewAnswer
    <3>6. up' = <<a>>
      BY <3>2, <3>3
    <3> HIDE DEF a
    <3>7. Len(up') = 1 /\ DOMAIN up' = {1} /\ up'[1] = a
      BY <3>6
    <3>8. Len(io') = 0 /\ DOMAIN io' = {}
      BY <2>1, <3>2 DEF Shifted
    <3> QED BY <2>1, <2>3, <3>1, <3>3, <3>5, <3>7, <3>8 DEF QuietInv, a
  <2>4. CASE h.pc = "flr"
    <3>1. wire = {} /\ up = <<>> /\ io = <<Flr>>
      BY <1>0, <2>1, <2>4 DEF QuietInv, Pop
    <3>2. Msg.op = "flr"
      <4>1. Msg = Flr
        BY <2>2, <3>1
      <4> QED BY <4>1 DEF Flr
    <3>3. TakeFlr
      BY <1>1, <3>2 DEF ArriveSteps, Ignored, StartQueue, StopQueue, SameQueue, TailOff, TailOn, TailBad,
         SetRing, SetIrqAt, TakeSeed, Answer, Wedge, EndsEarly, StartGemm, Operands, Dropped,
         NextSlot, OneOrdered, LastOrdered, IsDescriptor, IsWrite, Stops, Starts, IsRecord
    <3>4. m' = ResetState(m.gen + 1) /\ io' = <<>> /\ up' = <<>> /\ wire' = {}
      BY <1>0, <3>1, <3>3, TakeFlrIs
    <3>5. m'.gen = m.gen + 1
      BY <3>4 DEF ResetState
    <3> QED BY <2>1, <2>4, <3>4, <3>5 DEF QuietInv
  <2> QED BY <2>1, <2>3, <2>4 DEF QuietInv
<1>2. CASE Shot
  <2>1. h' = h /\ m.enable /\ ~m.wedged /\ m.enabled
    BY <1>0, <1>2, ShotStage DEF Shot, Shooting, StageInv
  <2>2. ~(h.pc = "status" /\ h.quiesced)
    BY <1>0, <2>1 DEF QuietInv
  <2>3. h.pc # "flr"
    BY <1>0, <2>1 DEF QuietInv, ResetState
  <2> QED BY <2>1, <2>2, <2>3 DEF QuietInv
<1>3. ASSUME NEW l \in wire, Land(l) \/ AtHost(l) PROVE QuietInv'
  <2>1. h' = h
    BY <1>0, <1>3, LineReaches
  <2> QED BY <1>0, <2>1 DEF QuietInv
<1>4. CASE HostNext
  <2>1. CASE StatusBack
    <3>1. /\ h.pc = "status" /\ up # <<>> /\ up' = Tail(up) /\ UNCHANGED <<m, g, wire, cmd>>
          /\ \/ h'.pc = "head"
             \/ Head(up).val /\ h.quiesced /\ h'.pc = "flr"
             \/ Head(up).val /\ ~h.quiesced /\ h'.pc = "status" /\ h'.quiesced = Quiet(Tail(up))
      BY <1>0, <2>1, StatusBackIs
    <3>2. CASE Head(up).val /\ h.quiesced /\ h'.pc = "flr"
      <4>1. wire = {} /\ Len(io) + Len(up) = 1 /\ up[1] = [op |-> "STATUS", val |-> m.enabled] /\ (m.enabled => m.wedged)
        <5>1. 1 \in DOMAIN up
          BY <1>s, <3>1
        <5> QED BY <1>0, <3>1, <3>2, <5>1 DEF QuietInv
      <4>2. Len(up) = 1 /\ Len(io) = 0 /\ io = <<>> /\ Head(up) = up[1]
        BY <1>s, <3>1, <4>1
      <4>3. m.wedged
        BY <3>2, <4>1, <4>2
      <4>4. up' = <<>>
        BY <1>s, <3>1, <4>2
      <4>5. io' = <<Flr>>
        <5>1. io' = Append(io, Flr)
          BY <2>1, <3>2 DEF StatusBack
        <5> QED BY <4>2, <5>1
      <4> QED BY <3>1, <3>2, <4>1, <4>3, <4>4, <4>5 DEF QuietInv
    <3>3. CASE Head(up).val /\ ~h.quiesced /\ h'.pc = "status" /\ h'.quiesced = Quiet(Tail(up))
      <4> SUFFICES ASSUME h'.quiesced PROVE QuietInv'
        BY <3>3 DEF QuietInv
      <4>1. io = <<>> /\ wire = {} /\ Tail(up) = <<>>
        BY <3>3 DEF Quiet
      <4>2. io' = Append(io, R("STATUS"))
        BY <2>1, <3>3 DEF StatusBack
      <4> DEFINE r == R("STATUS")
      <4>3. Asks(r)
        BY DEF Asks, R
      <4> HIDE DEF r
      <4>4. io' = <<r>>
        BY <4>1, <4>2 DEF r
      <4>5. Len(io') = 1 /\ DOMAIN io' = {1} /\ io'[1] = r
        BY <4>4
      <4>6. Len(up') = 0 /\ DOMAIN up' = {}
        <5>1. up' = <<>>
          BY <3>1, <4>1
        <5> QED BY <5>1
      <4>7. m.enabled => m.wedged
        <5>1. m.inflight = 0
          BY <1>0, <4>1, NothingOut
        <5>2. ~Stopping
          BY <4>1 DEF Stopping
        <5>3. m.wedged \/ ~m.enable
          BY <1>0, <3>1, <5>2 DEF AskedInv
        <5> QED BY <1>0, <5>1, <5>3 DEF StageInv
      <4> QED BY <3>1, <3>3, <4>1, <4>3, <4>5, <4>6, <4>7 DEF QuietInv, Asks
    <3> QED BY <3>1, <3>2, <3>3 DEF QuietInv
  <2>2. CASE TakeMsi
    <3>1. up # <<>> /\ Head(up).op = "msi" /\ h'.pc = h.pc /\ h'.quiesced = h.quiesced
      BY <1>0, <2>2, PlainHostIs DEF SamePc
    <3>2. 1 \in DOMAIN up /\ up[1].op = "msi"
      BY <1>s, <3>1
    <3>3. ~(h.pc = "status" /\ h.quiesced)
      BY <1>0, <3>2 DEF QuietInv
    <3>4. h.pc # "flr"
      BY <1>0, <3>1 DEF QuietInv
    <3> QED BY <3>1, <3>3, <3>4 DEF QuietInv
  <2>3. CASE Publish \/ TryEnd
    <3>1. h'.pc \in {"script", "drain"}
      BY <1>0, <2>3, PublishIs, TryEndIs DEF SamePc
    <3> QED BY <3>1 DEF QuietInv
  <2>4. CASE Ring \/ IrqOff \/ SetSeed \/ Drain \/ Drained \/ Awaited
    <3>1. h'.pc \in {"script", "drain"}
      BY <1>0, <2>4, PlainHostIs DEF SamePc
    <3> QED BY <3>1 DEF QuietInv
  <2>5. CASE PublishIrq \/ HeadBack \/ AfterReset
    <3>1. h'.pc \in {"script", "await"}
      BY <1>0, <2>5, PublishIrqIs, RestartIs
    <3> QED BY <3>1 DEF QuietInv
  <2>6. CASE DrainTimeout \/ Teardown
    BY <1>0, <2>6, DisableIs DEF QuietInv
  <2> QED BY <1>4, <2>1, <2>2, <2>3, <2>4, <2>5, <2>6 DEF HostNext
<1>5. CASE UNCHANGED vars
  <2>1. h' = h /\ io' = io /\ up' = up /\ wire' = wire /\ m' = m
    BY <1>5 DEF vars
  <2> QED BY <1>0, <2>1 DEF QuietInv, Asks
<1> QED BY <1>1, <1>2, <1>3, <1>4, <1>5, Steps

-----------------------------------------------------------------------------
(* The indices. *)

\* A record that is known to be ordered moves PTQ_HEAD, unless the queue is stopped.
LEMMA RecordTaken ==
  ASSUME IInv, ArriveSteps, IsRecord(Msg)
  PROVE  NextSlot \/ Dropped
BY DEF ArriveSteps, Ignored, StartQueue, StopQueue, SameQueue, TailOff, TailOn, TailBad, SetRing, SetIrqAt,
       TakeSeed, Answer, TakeFlr, Wedge, EndsEarly, StartGemm, Operands, OneOrdered, LastOrdered,
       IsDescriptor, IsWrite, Stops, Starts, IsRecord

\* A doorbell is taken, unless the module is wedged.
LEMMA TailTaken ==
  ASSUME IInv, ArriveSteps, IsWrite(Msg, "TAIL")
  PROVE  TailOn \/ TailOff \/ (Ignored /\ m.wedged)
<1>1. OrderInv /\ IndexInv /\ TypeOK
  BY DEF IInv
<1> QED BY <1>1, NoTailBad
   DEF ArriveSteps, Ignored, StartQueue, StopQueue, SameQueue, Dropped, NextSlot, SetRing, SetIrqAt,
       TakeSeed, Answer, TakeFlr, Wedge, EndsEarly, StartGemm, Operands, OneOrdered, LastOrdered,
       IsDescriptor, IsWrite, Stops, Starts, IsRecord

LEMMA TailTyped ==
  ASSUME TypeOK, NEW i \in DOMAIN io, NEW r \in {"TAIL", "IRQ_AT", "SEED"}, IsWrite(io[i], r)
  PROVE  io[i].val \in Nat
<1>1. io[i] \in Messages
  BY DEF TypeOK
<1> QED BY <1>1, MessageShape DEF Controls, Flr, IsWrite

\* The parts of IndexInv: the host's own indices, the module's below them, and the last
\* doorbell.
HostIdx ==
  /\ 0 <= h.origin /\ h.origin <= h.hhead /\ h.hhead <= h.rung /\ h.rung <= h.next
  /\ h.next <= NumCmds /\ h.next <= h.hhead + RingSize
  /\ h.pc # "script" => h.rung = h.next
Below ==
  /\ m.head <= h.rung /\ m.tail <= h.rung
  /\ \A i \in DOMAIN io : IsWrite(io[i], "TAIL") => io[i].val <= h.rung
  /\ ~m.halted
Enabled ==
  m.enable =>
    /\ m.ring /\ h.origin <= m.head /\ m.head <= m.tail
    /\ \A i \in DOMAIN io : IsWrite(io[i], "TAIL") => m.tail < io[i].val
    /\ h.hhead <= m.head \/ (h.hhead = m.head + 1 /\ \E i \in DOMAIN io : IsRecord(io[i]))
    /\ m.busy <=> m.head # m.tail
LastRung ==
  (Working \/ Stopping) /\ ~m.wedged =>
    m.tail = h.rung \/ \E i \in DOMAIN io : IsWrite(io[i], "TAIL") /\ io[i].val = h.rung

LEMMA IndexParts == IndexInv <=> HostIdx /\ Below /\ Enabled /\ LastRung
BY DEF IndexInv, HostIdx, Below, Enabled, LastRung

LEMMA IndexPartsNext == IndexInv' <=> HostIdx' /\ Below' /\ Enabled' /\ LastRung'
BY DEF IndexInv, HostIdx, Below, Enabled, LastRung

LEMMA IndexArrive == ASSUME IInv, ArriveSteps PROVE IndexInv'
<1>0. /\ TypeOK /\ AskedInv /\ ModuleInv /\ QuietInv /\ StageInv /\ IndexInv /\ StatusInv /\ OrderInv /\ StartInv
      /\ HostIdx /\ Below /\ Enabled /\ LastRung
  BY IndexParts DEF IInv, ModuleInv
<1>1. Pop /\ Shifted /\ h' = h /\ script' = script
  BY <1>0, ArriveMoves, PopShifts DEF Pop
<1>2. \A i \in DOMAIN io' : i + 1 \in DOMAIN io /\ io'[i] = io[i + 1] /\ i \in Nat /\ 1 < i + 1
  BY <1>1 DEF Shifted
<1>3. \A i \in DOMAIN io : i = 1 \/ \E k \in DOMAIN io' : io'[k] = io[i]
  BY <1>1 DEF Shifted
<1>4. Msg = io[1] /\ 1 \in DOMAIN io /\ DOMAIN io = 1 .. Len(io) /\ Len(io) \in Nat
  BY <1>1 DEF Shifted
<1>n. h.rung \in Nat /\ h.next \in Nat /\ h.hhead \in Nat /\ h.origin \in Nat /\ m.head \in Nat /\ m.tail \in Nat
  <2>1. m \in ModuleStates /\ h \in HostStates
    BY <1>0 DEF TypeOK
  <2> QED BY <2>1 DEF ModuleStates, HostStates
<1>5. HostIdx'
  BY <1>0, <1>1 DEF HostIdx, NumCmds
<1>6. \A i \in DOMAIN io' : IsWrite(io'[i], "TAIL") => io'[i].val <= h.rung
  BY <1>0, <1>2 DEF Below
<1>7. IsWrite(Msg, "TAIL") => Msg.val <= h.rung
  BY <1>0, <1>4 DEF Below
<1>8. Below'
  <2> SUFFICES m'.head <= h.rung /\ m'.tail <= h.rung /\ ~m'.halted
    BY <1>1, <1>6 DEF Below, IsWrite
  <2>0. m.head <= h.rung /\ m.tail <= h.rung /\ ~m.halted
    BY <1>0 DEF Below
  <2>1. CASE Passes
    BY <1>0, <2>0, <2>1, PassesIs DEF Unmoved
  <2>2. CASE SetRing \/ SetIrqAt \/ TakeSeed \/ Wedge
    BY <1>0, <2>0, <2>2, RegisterIs
  <2>3. CASE TailOff
    BY <1>0, <1>7, <2>0, <2>3, RegisterIs DEF TailOff
  <2>4. CASE TailOn
    BY <1>0, <1>7, <2>0, <2>4, TailOnIs
  <2>5. CASE StartQueue
    <3>1. m'.head = h.origin /\ m'.tail = h.origin /\ ~m'.halted
      BY <1>0, <2>5, StartQueueIs
    <3> QED BY <1>0, <1>n, <3>1 DEF HostIdx
  <2>6. CASE StopQueue
    BY <1>0, <2>0, <2>6, StopQueueIs
  <2>7. CASE Dropped
    BY <1>0, <2>0, <2>7, DroppedIs
  <2>8. CASE NextSlot
    <3>1. m'.head = m.head + 1 /\ m'.tail = m.tail /\ m'.halted = m.halted /\ m.head < m.tail
      BY <1>0, <2>8, NextSlotIs
    <3> QED BY <1>n, <2>0, <3>1
  <2>9. CASE TakeFlr
    <3>1. m'.head = 0 /\ m'.tail = 0 /\ ~m'.halted
      BY <2>9 DEF TakeFlr, ResetState
    <3> QED BY <1>n, <3>1
  <2>10. ~TailBad
    BY <1>0, NoTailBad
  <2> QED BY <2>1, <2>2, <2>3, <2>4, <2>5, <2>6, <2>7, <2>8, <2>9, <2>10 DEF ArriveSteps, Passes
<1>9. Enabled'
  <2> SUFFICES ASSUME m'.enable
               PROVE  /\ m'.ring /\ h.origin <= m'.head /\ m'.head <= m'.tail
                      /\ \A i \in DOMAIN io' : IsWrite(io'[i], "TAIL") => m'.tail < io'[i].val
                      /\ h.hhead <= m'.head \/ (h.hhead = m'.head + 1 /\ \E i \in DOMAIN io' : IsRecord(io'[i]))
                      /\ m'.busy <=> m'.head # m'.tail
    BY <1>1 DEF Enabled, IsWrite, IsRecord
  <2>1. CASE StartQueue
    <3>1. m'.head = h.origin /\ m'.tail = h.origin /\ m'.ring /\ ~m'.busy /\ Starts(Msg) /\ ~m.enable
      BY <1>0, <2>1, StartQueueIs
    <3>2. h.hhead = h.origin /\ \A i \in DOMAIN io' : IsWrite(io'[i], "TAIL") => io'[i].val > h.origin
      BY <1>0, <1>1, <3>1, StartIs
    <3>3. \A i \in DOMAIN io' : IsWrite(io'[i], "TAIL") => io'[i].val \in Nat
      BY <1>0, <1>2, TailTyped
    <3>4. \A i \in DOMAIN io' : IsWrite(io'[i], "TAIL") => m'.tail < io'[i].val
      BY <1>n, <3>1, <3>2, <3>3
    <3> QED BY <1>n, <3>1, <3>2, <3>4
  <2>2. CASE NextSlot
    <3>1. /\ m'.head = m.head + 1 /\ m'.tail = m.tail /\ m'.ring = m.ring /\ m.head < m.tail /\ m.enable
          /\ m'.busy <=> m'.head # m'.tail
      BY <1>0, <2>2, NextSlotIs
    <3>2. /\ m.ring /\ h.origin <= m.head /\ (h.hhead <= m.head \/ h.hhead = m.head + 1)
          /\ \A i \in DOMAIN io' : IsWrite(io'[i], "TAIL") => m.tail < io'[i].val
      BY <1>0, <1>2, <3>1 DEF Enabled
    <3> QED BY <1>n, <3>1, <3>2
  <2>3. CASE ~StartQueue /\ ~NextSlot
    <3>1. m.enable /\ m'.head = m.head
      BY <2>3, ArriveMoves
    <3>2. /\ m.ring /\ h.origin <= m.head /\ m.head <= m.tail
          /\ \A i \in DOMAIN io : IsWrite(io[i], "TAIL") => m.tail < io[i].val
          /\ h.hhead <= m.head \/ (h.hhead = m.head + 1 /\ \E i \in DOMAIN io : IsRecord(io[i]))
          /\ m.busy <=> m.head # m.tail
      BY <1>0, <3>1 DEF Enabled
    <3>3. ~IsRecord(Msg)
      <4>1. ~Dropped
        BY <1>0, <3>1, DroppedIs
      <4> QED BY <2>3, <4>1, RecordTaken
    <3>4. (\E i \in DOMAIN io : IsRecord(io[i])) => \E i \in DOMAIN io' : IsRecord(io'[i])
      BY <1>3, <1>4, <3>3
    <3>5. CASE TailOn
      <4>1. m'.tail = Msg.val /\ m'.busy /\ m'.ring = m.ring /\ m.tail < Msg.val /\ Msg.val \in Nat /\ IsWrite(Msg, "TAIL")
        BY <1>0, <3>5, TailOnIs
      <4>2. \A i \in DOMAIN io' : IsWrite(io'[i], "TAIL") => Msg.val < io'[i].val
        BY <1>0, <1>2, <1>4, <4>1 DEF OrderInv
      <4>3. m.head < Msg.val
        BY <1>n, <3>2, <4>1
      <4>4. m'.head <= m'.tail /\ m'.head # m'.tail
        BY <1>n, <3>1, <4>1, <4>3
      <4> QED BY <3>1, <3>2, <3>4, <4>1, <4>2, <4>4
    <3>6. CASE ~TailOn
      <4>1. m'.tail = m.tail /\ m'.ring = m.ring /\ m'.busy = m.busy
        <5>1. CASE Passes
          BY <1>0, <5>1, PassesIs DEF Unmoved
        <5>2. CASE SetRing \/ SetIrqAt \/ TakeSeed \/ Wedge
          BY <1>0, <3>1, <3>2, <5>2, RegisterIs DEF TypeOK, ModuleStates
        <5>3. ~TailOff /\ ~StopQueue /\ ~Dropped /\ ~TailBad /\ ~TakeFlr
          <6>1. ~Dropped
            BY <1>0, <3>1, DroppedIs
          <6>2. ~StopQueue
            BY <1>0, StopQueueIs
          <6>3. ~TakeFlr
            BY DEF TakeFlr, ResetState
          <6> QED BY <1>0, <3>1, <6>1, <6>2, <6>3, NoTailBad DEF TailOff
        <5> QED BY <2>3, <3>6, <5>1, <5>2, <5>3 DEF ArriveSteps, Passes
      <4>2. \A i \in DOMAIN io' : IsWrite(io'[i], "TAIL") => m.tail < io'[i].val
        BY <1>2, <3>2
      <4> QED BY <3>1, <3>2, <3>4, <4>1, <4>2
    <3> QED BY <3>5, <3>6
  <2> QED BY <2>1, <2>2, <2>3
<1>10. LastRung'
  <2>1. Working' = Working /\ (Stopping' => Stopping)
    <3>1. Stopping' => \E i \in DOMAIN io' : Stops(io'[i])
      BY DEF Stopping, Stops, IsWrite
    <3> QED BY <1>1, <1>2, <3>1 DEF Working, Stopping
  <2> SUFFICES ASSUME Working \/ Stopping', ~m'.wedged
               PROVE  m'.tail = h.rung \/ \E i \in DOMAIN io' : IsWrite(io'[i], "TAIL") /\ io'[i].val = h.rung
    BY <1>1, <2>1 DEF LastRung, IsWrite
  <2>2. ~TakeFlr
    <3> SUFFICES ASSUME TakeFlr PROVE FALSE
      OBVIOUS
    <3>1. h.pc = "flr" /\ io' = <<>>
      BY <1>0, TakeFlrIs
    <3>2. ~Stopping'
      BY <3>1 DEF Stopping
    <3> QED BY <3>1, <3>2 DEF Working
  <2>3. ~m.wedged
    <3>1. CASE Passes
      BY <1>0, <3>1, PassesIs DEF Unmoved
    <3>2. CASE ~Passes
      BY <1>0, <2>2, <3>2, RegisterIs, DroppedIs, NextSlotIs DEF ArriveSteps, Passes, StartQueue, StopQueue,
         TailOn, TailOff, TailBad, SetRing, SetIrqAt, TakeSeed
    <3> QED BY <3>1, <3>2
  <2>4. m.tail = h.rung \/ \E i \in DOMAIN io : IsWrite(io[i], "TAIL") /\ io[i].val = h.rung
    BY <1>0, <2>1, <2>3 DEF LastRung
  <2>5. CASE TailOn
    <3>1. m'.tail = Msg.val /\ m.tail < Msg.val /\ Msg.val \in Nat /\ IsWrite(Msg, "TAIL")
      BY <1>0, <2>5, TailOnIs
    <3>2. m.tail # h.rung
      BY <1>7, <1>n, <3>1
    <3>3. PICK i \in DOMAIN io : IsWrite(io[i], "TAIL") /\ io[i].val = h.rung
      BY <2>4, <3>2
    <3> QED BY <1>3, <1>4, <3>1, <3>3
  <2>6. CASE TailOff
    <3>1. m'.tail = Msg.val /\ IsWrite(Msg, "TAIL") /\ ~m.enable
      BY <1>0, <2>6, RegisterIs DEF TailOff
    <3>2. CASE m.tail = h.rung
      <4>1. StartBody
        BY <1>0, <2>1, <3>1, StartInvIs
      <4>2. PICK p \in DOMAIN io : StartAt(p)
        BY <4>1 DEF StartBody
      <4>3. p # 1
        BY <1>4, <3>1, <4>2 DEF StartAt, Starts, IsWrite
      <4>4. 1 < p
        BY <1>4, <4>3
      <4>5. Msg.val = h.origin
        BY <1>4, <3>1, <4>2, <4>4 DEF StartAt
      <4>6. m.tail <= h.origin /\ h.origin <= h.rung
        BY <1>0, <1>n, <4>1 DEF StartBody, HostIdx
      <4> QED BY <1>n, <3>1, <3>2, <4>5, <4>6
    <3>3. CASE \E i \in DOMAIN io : IsWrite(io[i], "TAIL") /\ io[i].val = h.rung
      BY <1>3, <1>4, <3>1, <3>3
    <3> QED BY <2>4, <3>2, <3>3
  <2>7. CASE ~TailOn /\ ~TailOff
    <3>1. ~IsWrite(Msg, "TAIL")
      BY <2>3, <2>7, TailTaken
    <3>2. m'.tail = m.tail
      <4>1. CASE Passes
        BY <1>0, <4>1, PassesIs DEF Unmoved
      <4>2. CASE SetRing \/ SetIrqAt \/ TakeSeed \/ Wedge
        BY <1>0, <4>2, RegisterIs
      <4>3. CASE StartQueue
        BY <1>0, <4>3, StartQueueIs
      <4>4. CASE StopQueue
        BY <1>0, <4>4, StopQueueIs
      <4>5. CASE Dropped
        BY <1>0, <4>5, DroppedIs
      <4>6. CASE NextSlot
        BY <1>0, <4>6, NextSlotIs
      <4>7. ~TailBad
        BY <1>0, NoTailBad
      <4> QED BY <2>2, <2>7, <4>1, <4>2, <4>3, <4>4, <4>5, <4>6, <4>7 DEF ArriveSteps, Passes
    <3> QED BY <1>3, <1>4, <2>4, <3>1, <3>2
  <2> QED BY <2>5, <2>6, <2>7
<1> QED BY <1>5, <1>8, <1>9, <1>10, IndexPartsNext
\* A slot with a status is behind PTQ_HEAD, or its record is on its way back.
LEMMA EndedIs ==
  ASSUME IInv, TryEnd
  PROVE  /\ h.hhead \in Live /\ m.enable /\ h.hhead <= m.head
         /\ h.hhead = m.head => \E i \in DOMAIN io : IsRecord(io[i])
         /\ h.hhead + 1 <= h.rung /\ ~Starting
<1>0. TypeOK /\ StatusInv /\ StartInv /\ IndexInv /\ StageInv /\ ErrandInv
  BY DEF IInv
<1>n. h.rung \in Nat /\ h.next \in Nat /\ h.hhead \in Nat /\ h.origin \in Nat /\ m.head \in Nat /\ m.tail \in Nat /\ RingSize \in Nat \ {0}
  <2>1. m \in ModuleStates /\ h \in HostStates
    BY <1>0 DEF TypeOK
  <2> QED BY <2>1, TransportAssumption DEF ModuleStates, HostStates
<1>1. Working /\ Status(h.hhead) # Pending /\ (h.hhead < h.next \/ Room <= 0)
  BY <1>0, TryEndIs DEF Working
<1>2. h.hhead \in Live
  <2>1. h.hhead <= h.next
    BY <1>0, <1>n DEF IndexInv
  <2>2. h.hhead < h.next
    BY <1>n, <1>1, <2>1 DEF Room
  <2> QED BY <1>n, <2>2 DEF Live
<1>3. ~Starting
  BY <1>0, <1>1, <1>2 DEF StatusInv
<1>4. m.enable
  <2> SUFFICES ASSUME ~m.enable PROVE FALSE
    OBVIOUS
  <2>1. StartBody
    BY <1>0, <1>1, StartInvIs
  <2> QED BY <1>3, <2>1 DEF Starting, StartBody, StartAt
<1>5. ~(h.hhead > m.head) /\ (h.hhead = m.head => \E i \in DOMAIN io : IsRecord(io[i]))
  BY <1>0, <1>1, <1>2, <1>4 DEF StatusInv
<1>6. h.hhead <= m.head
  BY <1>n, <1>5
<1>7. h.hhead + 1 <= h.rung
  <2>1. CASE h.hhead < m.head
    BY <1>0, <1>n, <2>1 DEF IndexInv
  <2>2. CASE h.hhead = m.head
    <3>1. Out(0)
      BY <1>5, <2>2 DEF Out, Runs, Errand, IsRecord
    <3>2. m.inflight # 0
      BY <1>0, <3>1 DEF ErrandInv, One
    <3>3. m.busy
      BY <1>0, <1>4, <3>2 DEF StageInv, Stopped, Waiting, Wedged, Fetching, Loading, Shooting, Recording
    <3>4. m.head # m.tail /\ m.head <= m.tail /\ m.tail <= h.rung
      BY <1>0, <1>4, <3>3 DEF IndexInv
    <3> QED BY <1>n, <2>2, <3>4
  <2> QED BY <1>n, <1>6, <2>1, <2>2
<1> QED BY <1>2, <1>3, <1>4, <1>5, <1>6, <1>7

LEMMA IndexHost == ASSUME IInv, HostNext PROVE IndexInv'
<1>0. /\ TypeOK /\ AskedInv /\ QuietInv /\ StageInv /\ IndexInv /\ StatusInv /\ StartInv
      /\ HostIdx /\ Below /\ Enabled /\ LastRung
  BY IndexParts DEF IInv
<1>1. HostSent
  BY <1>0, HostSentLemma
<1>2. /\ \A i \in DOMAIN io : i \in DOMAIN io' /\ io'[i] = io[i]
      /\ m' = m /\ DOMAIN io = 1 .. Len(io) /\ Len(io) \in Nat
      /\ Len(io') \in Nat /\ Len(io) <= Len(io') /\ DOMAIN io' = 1 .. Len(io')
      /\ NumCmds' = NumCmds
  BY <1>1 DEF HostSent, NumCmds
<1>n. /\ h.rung \in Nat /\ h.next \in Nat /\ h.hhead \in Nat /\ h.origin \in Nat /\ m.head \in Nat
      /\ m.tail \in Nat /\ RingSize \in Nat \ {0} /\ NumCmds \in Nat
  <2>1. m \in ModuleStates /\ h \in HostStates
    BY <1>0 DEF TypeOK
  <2> QED BY <1>0, <2>1, TransportAssumption, NumCmdsNat DEF ModuleStates, HostStates
<1>i. /\ 0 <= h.origin /\ h.origin <= h.hhead /\ h.hhead <= h.rung /\ h.rung <= h.next
      /\ h.next <= NumCmds /\ h.next <= h.hhead + RingSize
      /\ h.pc # "script" => h.rung = h.next
  BY <1>0 DEF HostIdx
<1>b. /\ m.head <= h.rung /\ m.tail <= h.rung /\ ~m.halted
      /\ \A i \in DOMAIN io : IsWrite(io[i], "TAIL") => io[i].val <= h.rung /\ io[i].val \in Nat
  BY <1>0, TailTyped DEF Below
<1>r. (\E i \in DOMAIN io : IsRecord(io[i])) => \E i \in DOMAIN io' : IsRecord(io'[i])
  BY <1>2
<1>3. CASE Publish
  <2>1. /\ h.pc = "script" /\ h'.pc = "script" /\ h.next < NumCmds /\ Room > 0 /\ io' = io
        /\ h'.next = h.next + 1 /\ h'.hhead = h.hhead /\ h'.rung = h.rung /\ h'.origin = h.origin
    BY <1>0, <1>3, PublishIs DEF SamePc, Store
  <2>2. HostIdx'
    <3>1. h.next + 1 <= h.hhead + RingSize /\ h.next + 1 <= NumCmds /\ h.rung <= h.next + 1
      BY <1>n, <1>i, <2>1 DEF Room
    <3> QED BY <1>2, <1>i, <2>1, <3>1 DEF HostIdx
  <2>3. Below' /\ Enabled'
    BY <1>0, <1>2, <2>1 DEF Below, Enabled, IsWrite, IsRecord
  <2>4. LastRung'
    BY <1>0, <1>2, <2>1 DEF LastRung, Working, IsWrite
  <2> QED BY <2>2, <2>3, <2>4, IndexPartsNext
<1>4. CASE PublishIrq
  <2>1. /\ h.pc = "script" /\ h.next < NumCmds /\ Room > 0 /\ h.rung = h.next
        /\ h'.next = h.next + 1 /\ h'.hhead = h.hhead /\ h'.rung = h.next + 1 /\ h'.origin = h.origin
    BY <1>0, <1>4, PublishIrqIs DEF Store
  <2>2. HostIdx'
    <3>1. h.next + 1 <= h.hhead + RingSize /\ h.next + 1 <= NumCmds /\ h.hhead <= h.next + 1 /\ h.next + 1 <= h.next + 1
      BY <1>n, <1>i, <2>1 DEF Room
    <3> QED BY <1>2, <1>i, <2>1, <3>1 DEF HostIdx
  <2>3. \A i \in DOMAIN io' : IsWrite(io'[i], "TAIL") => (i \in DOMAIN io /\ io'[i] = io[i]) \/ io'[i].val = h.next + 1
    BY <1>0, <1>2, <1>4, Fresh DEF IsReg, IsCtrl, IsWrite
  <2>4. Below'
    <3>1. m.head <= h.next + 1 /\ m.tail <= h.next + 1
      BY <1>n, <1>b, <2>1
    <3>2. \A i \in DOMAIN io' : IsWrite(io'[i], "TAIL") => io'[i].val <= h.next + 1
      BY <1>n, <1>b, <2>1, <2>3
    <3> QED BY <1>2, <1>b, <2>1, <3>1, <3>2 DEF Below, IsWrite
  <2>5. Enabled'
    <3>1. m.tail < h.next + 1
      BY <1>n, <1>b, <2>1
    <3>2. m.enable => \A i \in DOMAIN io' : IsWrite(io'[i], "TAIL") => m.tail < io'[i].val
      BY <1>0, <2>3, <3>1 DEF Enabled
    <3> QED BY <1>0, <1>2, <1>r, <2>1, <3>2 DEF Enabled, IsWrite, IsRecord
  <2>6. LastRung'
    <3>1. \E i \in DOMAIN io' : IsWrite(io'[i], "TAIL") /\ io'[i].val = h.next + 1
      <4>1. CASE h.irq
        <5>1. Keeps(2) /\ IsReg(At(2), "TAIL", h.next + 1)
          BY <1>0, <1>4, <4>1, Sends
        <5>2. Len(io) + 2 \in DOMAIN io' /\ io'[Len(io) + 2] = At(2)
          BY <1>0, <5>1, Posted
        <5> QED BY <5>1, <5>2 DEF IsReg, IsWrite
      <4>2. CASE ~h.irq
        <5>1. Keeps(3) /\ IsReg(At(3), "TAIL", h.next + 1)
          BY <1>0, <1>4, <4>2, Sends
        <5>2. Len(io) + 3 \in DOMAIN io' /\ io'[Len(io) + 3] = At(3)
          BY <1>0, <5>1, Posted
        <5> QED BY <5>1, <5>2 DEF IsReg, IsWrite
      <4> QED BY <4>1, <4>2
    <3> QED BY <2>1, <3>1 DEF LastRung, IsWrite
  <2> QED BY <2>2, <2>4, <2>5, <2>6, IndexPartsNext
<1>5. CASE Ring
  <2>1. /\ h.pc = "script" /\ h'.pc = "script" /\ h.rung # h.next
        /\ h'.next = h.next /\ h'.hhead = h.hhead /\ h'.rung = h.next /\ h'.origin = h.origin
    BY <1>0, <1>5, PlainHostIs DEF SamePc
  <2>2. HostIdx'
    <3>1. h.hhead <= h.next /\ h.next <= h.next
      BY <1>n, <1>i
    <3> QED BY <1>2, <1>i, <2>1, <3>1 DEF HostIdx
  <2>3. \A i \in DOMAIN io' : IsWrite(io'[i], "TAIL") => (i \in DOMAIN io /\ io'[i] = io[i]) \/ io'[i].val = h.next
    BY <1>0, <1>2, <1>5, Fresh DEF IsReg, IsWrite
  <2>4. Below'
    <3>1. m.head <= h.next /\ m.tail <= h.next
      BY <1>n, <1>b, <1>i
    <3>2. \A i \in DOMAIN io' : IsWrite(io'[i], "TAIL") => io'[i].val <= h.next
      BY <1>n, <1>b, <1>i, <2>3
    <3> QED BY <1>2, <1>b, <2>1, <3>1, <3>2 DEF Below, IsWrite
  <2>5. Enabled'
    <3>1. m.tail < h.next
      BY <1>n, <1>b, <1>i, <2>1
    <3>2. m.enable => \A i \in DOMAIN io' : IsWrite(io'[i], "TAIL") => m.tail < io'[i].val
      BY <1>0, <2>3, <3>1 DEF Enabled
    <3> QED BY <1>0, <1>2, <1>r, <2>1, <3>2 DEF Enabled, IsWrite, IsRecord
  <2>6. LastRung'
    <3>1. Keeps(1) /\ IsReg(At(1), "TAIL", h.next)
      BY <1>0, <1>5, Sends
    <3>2. Len(io) + 1 \in DOMAIN io' /\ io'[Len(io) + 1] = At(1)
      BY <1>0, <3>1, Posted
    <3> QED BY <2>1, <3>1, <3>2 DEF LastRung, IsReg, IsWrite
  <2> QED BY <2>2, <2>4, <2>5, <2>6, IndexPartsNext
<1>6. ASSUME SameIdx, h.pc # "script" \/ h'.pc = "script" \/ h.rung = h.next,
             \A i \in DOMAIN io' : i \notin DOMAIN io => ~IsWrite(io'[i], "TAIL"),
             (Working \/ Stopping)' => Working \/ Stopping
      PROVE  IndexInv'
  <2>1. HostIdx'
    BY <1>2, <1>i, <1>6 DEF HostIdx, SameIdx
  <2>2. Below'
    BY <1>2, <1>b, <1>6 DEF Below, SameIdx, IsWrite
  <2>3. Enabled'
    <3>1. m.enable => \A i \in DOMAIN io' : IsWrite(io'[i], "TAIL") => m.tail < io'[i].val
      BY <1>0, <1>2, <1>6 DEF Enabled
    <3> QED BY <1>0, <1>2, <1>r, <1>6, <3>1 DEF Enabled, SameIdx, IsWrite, IsRecord
  <2>4. LastRung'
    BY <1>0, <1>2, <1>6 DEF LastRung, SameIdx, IsWrite
  <2> QED BY <2>1, <2>2, <2>3, <2>4, IndexPartsNext
<1>7. CASE IrqOff \/ SetSeed
  <2>1. SameIdx /\ Working /\ h'.pc = h.pc /\ h.pc = "script"
    BY <1>0, <1>7, PlainHostIs DEF Working, SamePc
  <2>2. \A i \in DOMAIN io' : i \notin DOMAIN io => ~IsWrite(io'[i], "TAIL")
    BY <1>0, <1>7, Fresh DEF IsReg, IsCtrl, IsWrite
  <2> QED BY <1>6, <2>1, <2>2
<1>8. CASE Drain \/ Drained \/ Awaited
  <2>1. SameIdx /\ Working /\ (h.pc = "script" => h.rung = h.next) /\ io' = io
    BY <1>0, <1>8, PlainHostIs, HostSends DEF Working
  <2> QED BY <1>6, <2>1
<1>9. CASE TakeMsi
  <2>1. SameIdx /\ h'.pc = h.pc /\ io' = io
    BY <1>0, <1>9, PlainHostIs, HostSends DEF SamePc
  <2>2. (Working \/ Stopping)' => Working \/ Stopping
    BY <2>1 DEF Working, Stopping, Stops, IsWrite
  <2> QED BY <1>6, <2>1, <2>2
<1>10. CASE DrainTimeout \/ Teardown
  <2>1. SameIdx /\ Working /\ (h.pc = "script" => h.rung = h.next)
    BY <1>0, <1>10, DisableIs
  <2>2. \A i \in DOMAIN io' : i \notin DOMAIN io => ~IsWrite(io'[i], "TAIL")
    BY <1>0, <1>10, Fresh DEF IsCtrl, IsRead, IsWrite
  <2> QED BY <1>6, <2>1, <2>2
<1>11. CASE StatusBack
  <2>1. SameIdx /\ h.pc = "status" /\ ~Working'
    BY <1>0, <1>11, StatusBackIs DEF Working
  <2>2. \A i \in DOMAIN io : ~Stops(io[i])
    BY <1>0, <1>11, AnsweredMeans DEF StatusBack
  <2>3. \A i \in DOMAIN io' : i \notin DOMAIN io => io'[i].op \in {"read", "flr"}
    BY <1>0, <1>11, Fresh DEF IsRead
  <2>4. \A i \in DOMAIN io' : i \notin DOMAIN io => ~IsWrite(io'[i], "TAIL") /\ ~Stops(io'[i])
    BY <2>3 DEF Stops, IsWrite
  <2>5. ~\E i \in DOMAIN io' : Stops(io'[i])
    BY <1>2, <2>2, <2>4
  <2>6. ~Stopping'
    BY <2>5 DEF Stopping, Stops, IsWrite
  <2> QED BY <1>6, <2>1, <2>4, <2>6
<1>12. CASE TryEnd
  <2>1. /\ h.hhead \in Live /\ m.enable /\ h.hhead <= m.head
        /\ h.hhead = m.head => \E i \in DOMAIN io : IsRecord(io[i])
        /\ h.hhead + 1 <= h.rung
    BY <1>12, EndedIs
  <2>2. /\ h'.pc = h.pc /\ io' = io
        /\ h'.next = h.next /\ h'.hhead = h.hhead + 1 /\ h'.rung = h.rung /\ h'.origin = h.origin
    BY <1>0, <1>12, TryEndIs DEF SamePc
  <2>3. HostIdx'
    <3>1. h.origin <= h.hhead + 1 /\ h.next <= h.hhead + 1 + RingSize
      BY <1>n, <1>i
    <3> QED BY <1>2, <1>i, <2>1, <2>2, <3>1 DEF HostIdx
  <2>4. Below'
    BY <1>0, <1>2, <2>2 DEF Below, IsWrite
  <2>5. Enabled'
    <3>1. h.hhead + 1 <= m.head \/ (h.hhead + 1 = m.head + 1 /\ \E i \in DOMAIN io : IsRecord(io[i]))
      BY <1>n, <2>1
    <3> QED BY <1>0, <1>2, <2>2, <3>1 DEF Enabled, IsWrite, IsRecord
  <2>6. LastRung'
    BY <1>0, <1>2, <2>2 DEF LastRung, Working, Stopping, Stops, IsWrite
  <2> QED BY <2>3, <2>4, <2>5, <2>6, IndexPartsNext
<1>13. CASE HeadBack \/ AfterReset
  <2>1. /\ h.pc \in {"head", "flr"} /\ h'.pc = "script"
        /\ h'.next = h.next /\ h'.hhead = h.next /\ h'.rung = h.rung /\ h'.origin = h.next
    BY <1>0, <1>13, RestartIs
  <2>2. h.rung = h.next
    BY <1>i, <2>1
  <2>3. HostIdx'
    <3>1. 0 <= h.next /\ h.next <= h.next /\ h.next <= h.next + RingSize
      BY <1>n
    <3> QED BY <1>2, <1>i, <2>1, <2>2, <3>1 DEF HostIdx
  <2>4. \A i \in DOMAIN io' : IsWrite(io'[i], "TAIL") => (i \in DOMAIN io /\ io'[i] = io[i]) \/ io'[i].val = h.next
    BY <1>0, <1>2, <1>13, Fresh DEF IsReg, IsCtrl, IsWrite
  <2>5. Below'
    <3>1. h.next <= h.rung
      BY <1>n, <2>2
    <3>2. \A i \in DOMAIN io' : IsWrite(io'[i], "TAIL") => io'[i].val <= h.rung
      BY <1>b, <2>4, <3>1
    <3> QED BY <1>2, <1>b, <2>1, <3>2 DEF Below, IsWrite
  <2>6. ~m.enable
    <3>1. CASE h.pc = "head"
      BY <1>0, <3>1 DEF AskedInv, StageInv
    <3>2. CASE h.pc = "flr"
      <4>1. AfterReset /\ \A i \in 1 .. Len(io) : io[i] # Flr
        BY <1>0, <1>13, <3>2, RestartIs
      <4> QED BY <1>0, <3>2, <4>1 DEF QuietInv, ResetState
    <3> QED BY <2>1, <3>1, <3>2
  <2>7. Enabled'
    BY <1>2, <2>6 DEF Enabled
  <2>8. LastRung'
    <3>1. \E i \in DOMAIN io' : IsWrite(io'[i], "TAIL") /\ io'[i].val = h.next
      <4>1. CASE HeadBack
        <5>1. Keeps(2) /\ IsReg(At(1), "TAIL", h.next)
          BY <1>0, <4>1, Sends
        <5>2. Len(io) + 1 \in DOMAIN io' /\ io'[Len(io) + 1] = At(1)
          BY <1>0, <5>1, Posted
        <5> QED BY <5>1, <5>2 DEF IsReg, IsWrite
      <4>2. CASE AfterReset
        <5>1. Keeps(4) /\ IsReg(At(3), "TAIL", h.next)
          BY <1>0, <4>2, Sends
        <5>2. Len(io) + 3 \in DOMAIN io' /\ io'[Len(io) + 3] = At(3)
          BY <1>0, <5>1, Posted
        <5> QED BY <5>1, <5>2 DEF IsReg, IsWrite
      <4> QED BY <1>13, <4>1, <4>2
    <3> QED BY <2>1, <2>2, <3>1 DEF LastRung, IsWrite
  <2> QED BY <2>3, <2>5, <2>7, <2>8, IndexPartsNext
<1> QED BY <1>3, <1>4, <1>5, <1>7, <1>8, <1>9, <1>10, <1>11, <1>12, <1>13 DEF HostNext

LEMMA IndexStep == ASSUME IInv, [Next]_vars PROVE IndexInv'
<1>0. TypeOK /\ IndexInv /\ StageInv
  BY DEF IInv
<1>1. CASE ArriveSteps
  BY <1>1, IndexArrive
<1>2. CASE HostNext
  BY <1>2, IndexHost
<1>3. CASE Shot
  <2>1. /\ io' = io /\ h' = h /\ script' = script
        /\ m'.head = m.head /\ m'.tail = m.tail /\ m'.halted = m.halted /\ m'.enable = m.enable
        /\ m'.ring = m.ring /\ m'.busy = m.busy /\ m'.wedged = m.wedged
    BY <1>0, <1>3 DEF Shot, TypeOK, ModuleStates
  <2> QED BY <1>0, <2>1 DEF IndexInv, NumCmds, Working, Stopping, Stops, IsWrite, IsRecord
<1>4. ASSUME NEW l \in wire, Land(l) \/ AtHost(l) PROVE IndexInv'
  <2>1. /\ m' = m /\ h' = h /\ script' = script
        /\ \A i \in DOMAIN io : i \in DOMAIN io' /\ io'[i] = io[i]
        /\ \A i \in DOMAIN io' : (i \in DOMAIN io /\ io'[i] = io[i]) \/ io'[i].op \in {"go", "back"}
    BY <1>0, <1>4, LineReaches
  <2>2. HostIdx /\ Below /\ Enabled /\ LastRung
    BY <1>0, IndexParts
  <2>3. \A i \in DOMAIN io' : IsWrite(io'[i], "TAIL") => i \in DOMAIN io /\ io'[i] = io[i]
    BY <2>1 DEF IsWrite
  <2>4. HostIdx'
    BY <2>1, <2>2 DEF HostIdx, NumCmds
  <2>5. Below'
    BY <2>1, <2>2, <2>3 DEF Below, IsWrite
  <2>6. Enabled'
    BY <2>1, <2>2, <2>3 DEF Enabled, IsWrite, IsRecord
  <2>7. (Working \/ Stopping)' = (Working \/ Stopping)
    BY <2>1 DEF Working, Stopping, Stops, IsWrite
  <2>8. LastRung'
    BY <2>1, <2>2, <2>7 DEF LastRung, IsWrite
  <2> QED BY <2>4, <2>5, <2>6, <2>8, IndexPartsNext
<1>5. CASE UNCHANGED vars
  <2>1. io' = io /\ h' = h /\ script' = script /\ m' = m
    BY <1>5 DEF vars
  <2> QED BY <1>0, <2>1 DEF IndexInv, NumCmds, Working, Stopping, Stops, IsWrite, IsRecord
<1> QED BY <1>1, <1>2, <1>3, <1>4, <1>5, Steps

-----------------------------------------------------------------------------
(* The seed. *)

\* The registers an arrival changes, and which arrival that is.
LEMMA ArriveKeeps ==
  ASSUME IInv, ArriveSteps
  PROVE  /\ Pop /\ Shifted /\ UNCHANGED <<script, slot, res, cmd, ended, h>>
         /\ m'.seed = m.seed \/ TakeSeed \/ TakeFlr
         /\ m'.wedged = m.wedged \/ Wedge \/ TakeFlr
         /\ m'.irq_at = m.irq_at \/ SetIrqAt \/ TakeFlr
         /\ m'.tail = m.tail \/ TailOn \/ TailOff \/ TakeFlr
         /\ m'.head = m.head \/ NextSlot \/ StartQueue \/ TakeFlr
         /\ m'.enable = m.enable \/ StartQueue \/ StopQueue \/ TakeFlr
         /\ m'.prev = m.prev \/ NextSlot \/ StartQueue \/ TakeFlr
<1>0. TypeOK /\ ModuleInv /\ AskedInv /\ StartInv /\ QuietInv /\ IndexInv /\ StatusInv /\ OrderInv
  BY DEF IInv, ModuleInv
<1>1. Pop /\ Shifted /\ UNCHANGED <<script, slot, res, cmd, ended, h>>
  BY <1>0, ArriveMoves, PopShifts DEF Pop
<1>t. /\ m.wedged \in BOOLEAN /\ m'.wedged \in BOOLEAN
      /\ m.enable \in BOOLEAN /\ m'.enable \in BOOLEAN
  <2>1. TypeOK'
    BY <1>0, ArriveTypes DEF ModuleInv
  <2>2. m \in ModuleStates /\ m' \in ModuleStates
    BY <1>0, <2>1 DEF TypeOK
  <2> QED BY <2>2 DEF ModuleStates
<1>2. CASE Passes
  BY <1>0, <1>1, <1>2, PassesIs DEF Unmoved
<1>3. CASE SetRing \/ SetIrqAt \/ TakeSeed \/ Wedge \/ TailOff
  BY <1>0, <1>1, <1>3, RegisterIs
<1>4. CASE StartQueue
  <2>1. m'.wedged = m.wedged /\ m'.seed = m.seed /\ m'.irq_at = m.irq_at /\ m'.tail = m.tail
    BY <1>0, <1>t, <1>4, StartQueueIs DEF StartQueue
  <2> QED BY <1>1, <1>4, <2>1
<1>5. CASE StopQueue
  <2>1. m'.wedged = m.wedged /\ m'.seed = m.seed /\ m'.irq_at = m.irq_at /\ m'.tail = m.tail /\ m'.head = m.head /\ m'.prev = m.prev
    BY <1>0, <1>t, <1>5, StopQueueIs
  <2> QED BY <1>1, <1>5, <2>1
<1>6. CASE TailOn
  <2>1. m'.wedged = m.wedged /\ m'.seed = m.seed /\ m'.irq_at = m.irq_at /\ m'.head = m.head /\ m'.enable = m.enable /\ m'.prev = m.prev
    BY <1>0, <1>t, <1>6, TailOnIs
  <2> QED BY <1>1, <1>6, <2>1
<1>7. CASE Dropped
  <2>1. m'.wedged = m.wedged /\ m'.seed = m.seed /\ m'.irq_at = m.irq_at /\ m'.tail = m.tail /\ m'.head = m.head /\ m'.enable = m.enable /\ m'.prev = m.prev
    BY <1>0, <1>t, <1>7, DroppedIs DEF Stopped
  <2> QED BY <1>1, <1>7, <2>1
<1>8. CASE NextSlot
  <2>1. m'.wedged = m.wedged /\ m'.seed = m.seed /\ m'.irq_at = m.irq_at /\ m'.tail = m.tail /\ m'.enable = m.enable
    BY <1>0, <1>t, <1>8, NextSlotIs
  <2> QED BY <1>1, <1>8, <2>1
<1>9. ~TailBad
  BY <1>0, NoTailBad
<1> QED BY <1>1, <1>2, <1>3, <1>4, <1>5, <1>6, <1>7, <1>8, <1>9 DEF ArriveSteps, Passes

\* A register is taken, unless the module is wedged.
LEMMA RegTaken ==
  ASSUME IInv, ArriveSteps
  PROVE  /\ IsWrite(Msg, "SEED") => TakeSeed \/ m.wedged
         /\ IsWrite(Msg, "IRQ_AT") => SetIrqAt \/ (m.wedged /\ UNCHANGED <<m, up>>)
  BY DEF ArriveSteps, Ignored, StartQueue, StopQueue, SameQueue, TailOff, TailOn, TailBad,
         SetRing, SetIrqAt, TakeSeed, Answer, Wedge, EndsEarly, StartGemm, Operands, Dropped, TakeFlr,
         NextSlot, OneOrdered, LastOrdered, IsDescriptor, IsWrite, Stops, Starts, IsRecord

\* A write is on its way only while the host works or the disable is ahead.
LEMMA WriteMeans ==
  ASSUME TypeOK, AskedInv, QuietInv, NEW i \in DOMAIN io, io[i].op = "write"
  PROVE  Working \/ Stopping
<1>1. CASE h.pc = "status"
  BY <1>1 DEF AskedInv
<1>2. CASE h.pc = "head"
  BY <1>2 DEF AskedInv
<1>3. CASE h.pc = "flr"
  <2>1. io = <<Flr>> \/ io = <<>>
    BY <1>3 DEF QuietInv
  <2>2. io # <<>>
    <3> SUFFICES ASSUME io = <<>> PROVE FALSE
      OBVIOUS
    <3>1. DOMAIN io = {}
      OBVIOUS
    <3> QED BY <3>1
  <2> DEFINE f == Flr
  <2>3. f.op # "write"
    BY DEF Flr
  <2> HIDE DEF f
  <2>4. io = <<f>>
    BY <2>1, <2>2 DEF f
  <2>5. io[i] = f
    BY <2>4
  <2> QED BY <2>3, <2>5
<1>4. h \in HostStates
  BY DEF TypeOK
<1> QED BY <1>1, <1>2, <1>3, <1>4 DEF Working, HostStates

\* A record that is out: the module is busy with it, or is still to stop.
LEMMA RecordMeans ==
  ASSUME TypeOK, ModuleInv, IndexInv, Out(0)
  PROVE  /\ m.enable => m.busy /\ m.head < m.tail /\ ~m.wedged /\ Recording
         /\ ~m.enable => m.enabled
         /\ ~Out(3) /\ m.inflight # 0
<1>1. m \in ModuleStates
  BY DEF TypeOK
<1>2. m.inflight # 0 /\ ~Out(1) /\ ~Out(2)
  BY DEF ModuleInv, ErrandInv, One
<1>3. Stopped \/ Recording
  BY <1>2 DEF ModuleInv, StageInv, Stopped, Waiting, Wedged, Fetching, Loading, Shooting, Recording
<1>4. ~Out(3)
  BY <1>3 DEF Stopped, Recording
<1>5. m.enable => m.busy /\ ~m.wedged /\ Recording
  BY <1>3 DEF Stopped, Recording
<1>6. m.enable => m.head # m.tail /\ m.head <= m.tail
  BY <1>5 DEF IndexInv
<1>7. m.enable => m.head < m.tail
  BY <1>1, <1>6 DEF ModuleStates
<1>8. ~m.enable => m.enabled
  BY <1>2 DEF ModuleInv, StageInv
<1> QED BY <1>2, <1>4, <1>5, <1>7, <1>8

LEMMA RecordOut == ASSUME NEW i \in DOMAIN io, IsRecord(io[i]) PROVE Out(0)
  BY DEF Out, Runs, Errand, IsRecord

\* Everything has ended: the module is idle, or has only to learn that it is.
LEMMA AllEnded ==
  ASSUME IInv, Working, h.hhead = h.next
  PROVE  /\ ~m.wedged /\ h.rung = h.next
         /\ \A i \in DOMAIN io : IsWrite(io[i], "TAIL") => io[i].val <= h.origin
         /\ m.enable => /\ m.tail <= m.head + One(\E j \in DOMAIN io : IsRecord(io[j]))
                        /\ \A i \in DOMAIN io : ~IsWrite(io[i], "TAIL")
                        /\ m.tail = h.next
         /\ ~m.enable => StartBody /\ h.origin = h.next
<1>0. TypeOK /\ ModuleInv /\ IndexInv /\ StartInv /\ StageInv
  BY DEF IInv, ModuleInv
<1>n. h.rung \in Nat /\ h.next \in Nat /\ h.hhead \in Nat /\ h.origin \in Nat /\ m.head \in Nat /\ m.tail \in Nat
  <2>1. m \in ModuleStates /\ h \in HostStates
    BY <1>0 DEF TypeOK
  <2> QED BY <2>1 DEF ModuleStates, HostStates
<1>1. h.rung = h.next /\ h.origin <= h.next
  <2>1. h.hhead <= h.rung /\ h.rung <= h.next /\ h.origin <= h.hhead
    BY <1>0 DEF IndexInv
  <2> QED BY <1>n, <2>1
<1>2. \A i \in DOMAIN io : IsWrite(io[i], "TAIL") => io[i].val <= h.rung /\ io[i].val \in Nat
  BY <1>0, TailTyped DEF IndexInv
<1>3. CASE m.enable
  <2>1. /\ m.head <= m.tail /\ m.tail <= h.rung
        /\ h.hhead <= m.head \/ (h.hhead = m.head + 1 /\ \E i \in DOMAIN io : IsRecord(io[i]))
        /\ \A i \in DOMAIN io : IsWrite(io[i], "TAIL") => m.tail < io[i].val
        /\ m.busy <=> m.head # m.tail
    BY <1>0, <1>3 DEF IndexInv
  <2>2. CASE h.hhead <= m.head
    <3>1. m.head = m.tail /\ m.tail = h.next
      BY <1>n, <1>1, <2>1, <2>2
    <3>2. ~m.wedged
      BY <1>0, <1>3, <2>1, <3>1 DEF StageInv, Stopped, Waiting, Wedged, Fetching, Loading, Shooting, Recording
    <3>3. \A i \in DOMAIN io : ~IsWrite(io[i], "TAIL")
      BY <1>n, <1>1, <1>2, <2>1, <3>1
    <3>4. m.tail <= m.head + One(\E j \in DOMAIN io : IsRecord(io[j]))
      BY <1>n, <3>1 DEF One
    <3> QED BY <1>1, <1>3, <3>1, <3>2, <3>3, <3>4
  <2>3. CASE h.hhead = m.head + 1 /\ \E i \in DOMAIN io : IsRecord(io[i])
    <3>1. Out(0)
      BY <2>3, RecordOut
    <3>2. m.head < m.tail /\ ~m.wedged
      BY <1>0, <1>3, <3>1, RecordMeans
    <3>3. m.tail = h.next
      BY <1>n, <1>1, <2>1, <2>3, <3>2
    <3>4. \A i \in DOMAIN io : ~IsWrite(io[i], "TAIL")
      BY <1>n, <1>1, <1>2, <2>1, <3>3
    <3>5. m.tail <= m.head + One(\E j \in DOMAIN io : IsRecord(io[j]))
      <4>1. One(\E j \in DOMAIN io : IsRecord(io[j])) = 1
        BY <2>3 DEF One
      <4>2. h.next = m.head + 1
        BY <2>3
      <4>3. m.tail = m.head + 1
        BY <3>3, <4>2
      <4>4. m.tail <= m.head + 1
        BY <1>n, <4>3
      <4> QED BY <4>1, <4>4
    <3> QED BY <1>1, <1>3, <3>2, <3>3, <3>4, <3>5
  <2> QED BY <2>1, <2>2, <2>3
<1>4. CASE ~m.enable
  <2>1. StartBody
    BY <1>0, <1>4, StartInvIs
  <2>2. h.origin = h.next
    BY <2>1 DEF StartBody
  <2>3. ~m.wedged
    BY <1>0, <1>4 DEF StageInv, Stopped, Waiting, Wedged, Fetching, Loading, Shooting, Recording
  <2> QED BY <1>1, <1>2, <1>4, <2>1, <2>2, <2>3
<1> QED BY <1>3, <1>4

\* The parts of SeedInv.
SeedFirst(i) ==
  /\ ~m.wedged
  /\ \A j \in i + 1 .. Len(io) : ~IsRecord(io[j])
  /\ \A j \in 1 .. i - 1 : IsWrite(io[j], "TAIL") => io[j].val <= h.origin
  /\ m.enable => m.tail <= m.head + One(\E j \in DOMAIN io : IsRecord(io[j]))

SeedLast ==
  h.pc # "flr" =>
    \/ m.seed = h.seed /\ \A i \in DOMAIN io : ~IsWrite(io[i], "SEED")
    \/ \E i \in DOMAIN io : /\ IsWrite(io[i], "SEED") /\ io[i].val = h.seed
                            /\ \A j \in i + 1 .. Len(io) : ~IsWrite(io[j], "SEED")

SeedAll == \A i \in DOMAIN io : IsWrite(io[i], "SEED") => SeedFirst(i)

LEMMA SeedParts == SeedInv <=> SeedAll /\ SeedLast
  BY DEF SeedInv, SeedAll, SeedFirst, SeedLast

LEMMA SeedPartsNext == SeedInv' <=> SeedAll' /\ SeedLast'
  BY DEF SeedInv, SeedAll, SeedFirst, SeedLast

LEMMA SeedArrive == ASSUME IInv, ArriveSteps PROVE SeedInv'
<1>0. /\ TypeOK /\ ModuleInv /\ StageInv /\ AskedInv /\ QuietInv /\ IndexInv /\ StatusInv /\ StartInv
      /\ SeedAll /\ SeedLast
  BY SeedParts DEF IInv, ModuleInv
<1>1. Pop /\ Shifted /\ h' = h
  BY ArriveKeeps
<1>2. /\ \A i \in DOMAIN io' : i + 1 \in DOMAIN io /\ io'[i] = io[i + 1] /\ i \in Nat /\ 1 < i + 1
      /\ \A i \in DOMAIN io : i # 1 => i - 1 \in DOMAIN io' /\ io'[i - 1] = io[i]
      /\ Msg = io[1] /\ 1 \in DOMAIN io /\ DOMAIN io = 1 .. Len(io) /\ Len(io) \in Nat
      /\ DOMAIN io' = 1 .. Len(io') /\ Len(io') = Len(io) - 1
  BY <1>1 DEF Shifted
<1>n. h.rung \in Nat /\ h.next \in Nat /\ h.hhead \in Nat /\ h.origin \in Nat /\ m.head \in Nat /\ m.tail \in Nat
  <2>1. m \in ModuleStates /\ h \in HostStates
    BY <1>0 DEF TypeOK
  <2> QED BY <2>1 DEF ModuleStates, HostStates
<1>3. CASE TakeFlr
  <2>1. h.pc = "flr" /\ io' = <<>>
    BY <1>0, <1>3, TakeFlrIs
  <2>2. DOMAIN io' = {}
    BY <2>1
  <2> QED BY <1>1, <2>1, <2>2 DEF SeedInv
<1>4. CASE ~TakeFlr
  <2>1. SeedAll'
    <3> SUFFICES ASSUME NEW i \in DOMAIN io', IsWrite(io'[i], "SEED")
                 PROVE  /\ ~m'.wedged
                        /\ \A j \in i + 1 .. Len(io') : ~IsRecord(io'[j])
                        /\ \A j \in 1 .. i - 1 : IsWrite(io'[j], "TAIL") => io'[j].val <= h.origin
                        /\ m'.enable => m'.tail <= m'.head + One(\E j \in DOMAIN io' : IsRecord(io'[j]))
      BY <1>1 DEF SeedAll, SeedFirst, IsWrite, IsRecord
    <3>1. i + 1 \in DOMAIN io /\ IsWrite(io[i + 1], "SEED") /\ io[i + 1].op = "write" /\ 1 < i + 1 /\ i \in Nat
      BY <1>2 DEF IsWrite
    <3>2. /\ ~m.wedged
          /\ \A j \in i + 2 .. Len(io) : ~IsRecord(io[j])
          /\ \A j \in 1 .. i : IsWrite(io[j], "TAIL") => io[j].val <= h.origin
          /\ m.enable => m.tail <= m.head + One(\E j \in DOMAIN io : IsRecord(io[j]))
      <4>1. SeedFirst(i + 1)
        BY <1>0, <3>1 DEF SeedAll
      <4>2. i + 1 + 1 = i + 2 /\ i + 1 - 1 = i
        BY <3>1
      <4> DEFINE n == i + 1
      <4>3. SeedFirst(n)
        BY <4>1
      <4>4. n + 1 = i + 2 /\ n - 1 = i
        BY <3>1
      <4> HIDE DEF n
      <4> QED BY <4>3, <4>4 DEF SeedFirst
    <3>3. ~m'.wedged
      <4>1. ~Wedge
        <5> SUFFICES ASSUME Wedge PROVE FALSE
          OBVIOUS
        <5>1. m.inflight = 0 /\ m.enable /\ Out(3)
          BY <1>0, <1>1, BackIs DEF Wedge, IsDescriptor
        <5>2. m.head < m.tail
          BY <1>0, <5>1, ReadsLive
        <5>3. \E j \in DOMAIN io : IsRecord(io[j])
          BY <1>n, <3>2, <5>1, <5>2 DEF One
        <5>4. Out(0)
          BY <5>3, RecordOut
        <5> QED BY <1>0, <5>1, <5>4, RecordMeans
      <4> QED BY <1>4, <3>2, <4>1, ArriveKeeps
    <3>4. \A j \in i + 1 .. Len(io') : ~IsRecord(io'[j])
      <4> SUFFICES ASSUME NEW j \in i + 1 .. Len(io') PROVE ~IsRecord(io'[j])
        OBVIOUS
      <4>1. j \in DOMAIN io' /\ io'[j] = io[j + 1] /\ j + 1 \in i + 2 .. Len(io)
        BY <1>2, <3>1
      <4> QED BY <3>2, <4>1
    <3>5. \A j \in 1 .. i - 1 : IsWrite(io'[j], "TAIL") => io'[j].val <= h.origin
      <4> SUFFICES ASSUME NEW j \in 1 .. i - 1, IsWrite(io'[j], "TAIL") PROVE io'[j].val <= h.origin
        OBVIOUS
      <4>1. j \in DOMAIN io' /\ io'[j] = io[j + 1] /\ j + 1 \in 1 .. i
        BY SMTT(30), <1>2, <3>1
      <4> QED BY <3>2, <4>1
    <3>6. ASSUME m'.enable PROVE m'.tail <= m'.head + One(\E j \in DOMAIN io' : IsRecord(io'[j]))
      <4>1. CASE StartQueue
        <5>1. m'.head = m'.tail /\ m'.tail = h.origin
          BY <1>0, <4>1, StartQueueIs
        <5> QED BY <1>n, <5>1 DEF One
      <4>2. CASE NextSlot
        <5>1. m'.head = m.head + 1 /\ m'.tail = m.tail /\ m.enable
          BY <1>0, <4>2, NextSlotIs
        <5> QED BY <1>n, <3>2, <5>1 DEF One
      <4>3. CASE ~StartQueue /\ ~NextSlot
        <5>1. m.enable /\ m'.head = m.head
          BY <3>6, <4>3, ArriveMoves
        <5>2. ~TailOn
          <6> SUFFICES ASSUME TailOn PROVE FALSE
            OBVIOUS
          <6>1. IsWrite(Msg, "TAIL") /\ m.tail < Msg.val /\ Msg.val \in Nat
            BY <1>0, TailOnIs
          <6>2. Msg.val <= h.origin
            BY SMTT(30), <1>2, <3>1, <3>2, <6>1
          <6>3. h.origin <= m.head /\ m.head <= m.tail
            BY <1>0, <5>1 DEF IndexInv
          <6> QED BY <1>n, <6>1, <6>2, <6>3
        <5>3. m'.tail = m.tail
          BY <1>4, <5>1, <5>2, ArriveKeeps DEF TailOff
        <5>4. ~IsRecord(Msg)
          <6>1. ~Dropped
            BY <1>0, <5>1, DroppedIs
          <6> QED BY <4>3, <6>1, RecordTaken
        <5>5. (\E j \in DOMAIN io : IsRecord(io[j])) => \E j \in DOMAIN io' : IsRecord(io'[j])
          BY <1>2, <5>4
        <5>6. One(\E j \in DOMAIN io : IsRecord(io[j])) <= One(\E j \in DOMAIN io' : IsRecord(io'[j]))
          BY <5>5 DEF One
        <5>7. One(\E j \in DOMAIN io : IsRecord(io[j])) \in Nat /\ One(\E j \in DOMAIN io' : IsRecord(io'[j])) \in Nat
          BY DEF One
        <5> DEFINE a == One(\E j \in DOMAIN io : IsRecord(io[j]))
                   b == One(\E j \in DOMAIN io' : IsRecord(io'[j]))
        <5>8. m.tail <= m.head + a /\ a <= b /\ a \in Nat /\ b \in Nat
          BY <3>2, <5>1, <5>6, <5>7
        <5> HIDE DEF a, b
        <5>9. m.tail <= m.head + b
          BY <1>n, <5>8
        <5> QED BY <5>1, <5>3, <5>9 DEF b
      <4> QED BY <4>1, <4>2, <4>3
    <3> QED BY <3>3, <3>4, <3>5, <3>6
  <2>2. SeedLast'
    <3> SUFFICES ASSUME h.pc # "flr"
                 PROVE  \/ m'.seed = h.seed /\ \A i \in DOMAIN io' : ~IsWrite(io'[i], "SEED")
                        \/ \E i \in DOMAIN io' : /\ IsWrite(io'[i], "SEED") /\ io'[i].val = h.seed
                                                 /\ \A j \in i + 1 .. Len(io') : ~IsWrite(io'[j], "SEED")
      BY <1>1 DEF SeedLast, IsWrite
    <3>1. CASE m.seed = h.seed /\ \A i \in DOMAIN io : ~IsWrite(io[i], "SEED")
      <4>1. ~TakeSeed
        BY <1>2, <3>1 DEF TakeSeed
      <4>2. m'.seed = m.seed
        BY <1>4, <4>1, ArriveKeeps
      <4> QED BY <1>2, <3>1, <4>2
    <3>2. ASSUME NEW i \in DOMAIN io, IsWrite(io[i], "SEED"), io[i].val = h.seed,
                 \A j \in i + 1 .. Len(io) : ~IsWrite(io[j], "SEED")
          PROVE  \/ m'.seed = h.seed /\ \A q \in DOMAIN io' : ~IsWrite(io'[q], "SEED")
                 \/ \E q \in DOMAIN io' : /\ IsWrite(io'[q], "SEED") /\ io'[q].val = h.seed
                                          /\ \A j \in q + 1 .. Len(io') : ~IsWrite(io'[j], "SEED")
      <4>1. CASE i = 1
        <5>1. ~m.wedged
          BY <1>0, <3>2 DEF SeedAll, SeedFirst
        <5>2. TakeSeed
          BY <1>2, <3>2, <4>1, <5>1, RegTaken
        <5>3. m'.seed = h.seed
          BY <1>0, <1>2, <3>2, <4>1, <5>2, RegisterIs
        <5>4. \A q \in DOMAIN io' : ~IsWrite(io'[q], "SEED")
          BY <1>2, <3>2, <4>1
        <5> QED BY <5>3, <5>4
      <4>2. CASE i # 1
        <5>1. i - 1 \in DOMAIN io' /\ io'[i - 1] = io[i] /\ i \in Nat
          BY <1>2, <4>2
        <5>2. \A j \in i .. Len(io') : ~IsWrite(io'[j], "SEED")
          <6> SUFFICES ASSUME NEW j \in i .. Len(io') PROVE ~IsWrite(io'[j], "SEED")
            OBVIOUS
          <6>1. j \in DOMAIN io' /\ io'[j] = io[j + 1] /\ j + 1 \in i + 1 .. Len(io)
            BY <1>2, <5>1
          <6> QED BY <3>2, <6>1
        <5>3. (i - 1) + 1 = i
          BY <5>1
        <5> QED BY <3>2, <5>1, <5>2, <5>3
      <4> QED BY <4>1, <4>2
    <3> QED BY <1>0, <3>1, <3>2 DEF SeedLast
  <2> QED BY <2>1, <2>2, SeedPartsNext
<1> QED BY <1>3, <1>4
\* Messages of the host come after what is on the link.
LEMMA SeedSent ==
  ASSUME IInv, HostSent, h'.origin \in Int, h'.origin >= h.origin, NEW i \in DOMAIN io, IsWrite(io[i], "SEED")
  PROVE  SeedFirst(i)'
<1>0. TypeOK /\ SeedAll
  BY SeedParts DEF IInv
<1>1. /\ \A j \in DOMAIN io : j \in DOMAIN io' /\ io'[j] = io[j]
      /\ \A j \in DOMAIN io' : j \notin DOMAIN io => io'[j].op \in {"write", "read", "flr"}
      /\ m' = m /\ DOMAIN io = 1 .. Len(io) /\ Len(io) \in Nat
      /\ Len(io') \in Nat /\ Len(io) <= Len(io') /\ DOMAIN io' = 1 .. Len(io')
  BY DEF HostSent
<1>2. \A j \in DOMAIN io' : IsRecord(io'[j]) => j \in DOMAIN io /\ io'[j] = io[j]
  BY <1>1 DEF IsRecord
<1>3. One(\E j \in DOMAIN io' : IsRecord(io'[j])) = One(\E j \in DOMAIN io : IsRecord(io[j]))
  BY <1>1, <1>2
<1>n. h.origin \in Nat /\ i \in Nat
  <2>1. h \in HostStates
    BY <1>0 DEF TypeOK
  <2> QED BY <1>1, <2>1 DEF HostStates
<1>4. /\ ~m.wedged
      /\ \A j \in i + 1 .. Len(io) : ~IsRecord(io[j])
      /\ \A j \in 1 .. i - 1 : IsWrite(io[j], "TAIL") => io[j].val <= h.origin
      /\ m.enable => m.tail <= m.head + One(\E j \in DOMAIN io : IsRecord(io[j]))
  BY <1>0 DEF SeedAll, SeedFirst
<1>5. \A j \in i + 1 .. Len(io') : ~IsRecord(io'[j])
  <2> SUFFICES ASSUME NEW j \in i + 1 .. Len(io'), IsRecord(io'[j]) PROVE FALSE
    OBVIOUS
  <2>1. j \in DOMAIN io'
    BY <1>1, <1>n
  <2>2. j \in DOMAIN io /\ io'[j] = io[j]
    BY <1>2, <2>1
  <2>3. j \in i + 1 .. Len(io)
    BY <1>1, <1>n, <2>2
  <2> QED BY <1>4, <2>2, <2>3
<1>6. \A j \in 1 .. i - 1 : IsWrite(io'[j], "TAIL") => io'[j].val <= h'.origin
  <2> SUFFICES ASSUME NEW j \in 1 .. i - 1, IsWrite(io'[j], "TAIL") PROVE io'[j].val <= h'.origin
    OBVIOUS
  <2>1. j \in DOMAIN io
    BY <1>1, <1>n
  <2>2. io'[j] = io[j] /\ io[j].val <= h.origin /\ io[j].val \in Nat
    BY <1>0, <1>1, <1>4, <2>1, TailTyped
  <2> QED BY <1>n, <2>2
<1> QED BY <1>1, <1>3, <1>4, <1>5, <1>6 DEF SeedFirst, IsRecord, IsWrite

\* Nothing the host sends is a seed: what the module is to have stays.
LEMMA SeedKept ==
  ASSUME IInv, HostSent, h'.origin \in Int, h'.origin >= h.origin, h'.seed = h.seed, h.pc # "flr" \/ h'.pc = "flr",
         \A i \in DOMAIN io' : i \notin DOMAIN io => ~IsWrite(io'[i], "SEED")
  PROVE  SeedInv'
<1>0. TypeOK /\ SeedAll /\ SeedLast
  BY SeedParts DEF IInv
<1>1. /\ \A j \in DOMAIN io : j \in DOMAIN io' /\ io'[j] = io[j]
      /\ m' = m /\ DOMAIN io = 1 .. Len(io) /\ Len(io) \in Nat
      /\ Len(io') \in Nat /\ Len(io) <= Len(io') /\ DOMAIN io' = 1 .. Len(io')
  BY DEF HostSent
<1>2. \A j \in DOMAIN io' : IsWrite(io'[j], "SEED") => j \in DOMAIN io /\ io'[j] = io[j]
  BY <1>1
<1>3. SeedAll'
  <2>1. ASSUME NEW i \in DOMAIN io', IsWrite(io'[i], "SEED") PROVE SeedFirst(i)'
    BY <1>2, <2>1, SeedSent
  <2> QED BY <2>1 DEF SeedAll, IsWrite
<1>4. SeedLast'
  <2> SUFFICES ASSUME h.pc # "flr"
               PROVE  \/ m.seed = h.seed /\ \A i \in DOMAIN io' : ~IsWrite(io'[i], "SEED")
                      \/ \E i \in DOMAIN io' : /\ IsWrite(io'[i], "SEED") /\ io'[i].val = h.seed
                                               /\ \A j \in i + 1 .. Len(io') : ~IsWrite(io'[j], "SEED")
    BY <1>1 DEF SeedLast, IsWrite
  <2>1. CASE m.seed = h.seed /\ \A i \in DOMAIN io : ~IsWrite(io[i], "SEED")
    BY <1>2, <2>1
  <2>2. ASSUME NEW i \in DOMAIN io, IsWrite(io[i], "SEED"), io[i].val = h.seed,
               \A j \in i + 1 .. Len(io) : ~IsWrite(io[j], "SEED")
        PROVE  \E q \in DOMAIN io' : /\ IsWrite(io'[q], "SEED") /\ io'[q].val = h.seed
                                     /\ \A j \in q + 1 .. Len(io') : ~IsWrite(io'[j], "SEED")
    <3>1. \A j \in i + 1 .. Len(io') : ~IsWrite(io'[j], "SEED")
      <4> SUFFICES ASSUME NEW j \in i + 1 .. Len(io'), IsWrite(io'[j], "SEED") PROVE FALSE
        OBVIOUS
      <4>1. i \in Nat /\ j \in DOMAIN io'
        BY <1>1
      <4>2. j \in DOMAIN io /\ io'[j] = io[j]
        BY <1>2, <4>1
      <4>3. j \in i + 1 .. Len(io)
        BY <1>1, <4>1, <4>2
      <4> QED BY <2>2, <4>2, <4>3
    <3> QED BY <1>1, <2>2, <3>1
  <2> QED BY <1>0, <2>1, <2>2 DEF SeedLast
<1> QED BY <1>3, <1>4, SeedPartsNext

LEMMA SeedHost == ASSUME IInv, HostNext PROVE SeedInv'
<1>0. TypeOK /\ IndexInv /\ AskedInv /\ QuietInv /\ SeedAll /\ SeedLast
  BY SeedParts DEF IInv
<1>1. HostSent
  BY <1>0, HostSentLemma
<1>2. /\ \A i \in DOMAIN io : i \in DOMAIN io' /\ io'[i] = io[i]
      /\ m' = m /\ DOMAIN io = 1 .. Len(io) /\ Len(io) \in Nat
      /\ Len(io') \in Nat /\ Len(io) <= Len(io') /\ DOMAIN io' = 1 .. Len(io')
  BY <1>1 DEF HostSent
<1>n. h.next \in Nat /\ h.origin \in Nat /\ h.origin >= h.origin /\ h.next >= h.origin
  <2>1. h \in HostStates
    BY <1>0 DEF TypeOK
  <2>2. h.next \in Nat /\ h.origin \in Nat /\ h.hhead \in Nat /\ h.rung \in Nat
    BY <2>1 DEF HostStates
  <2>3. h.origin <= h.hhead /\ h.hhead <= h.rung /\ h.rung <= h.next
    BY <1>0 DEF IndexInv
  <2> QED BY <2>2, <2>3
<1>3. CASE Publish \/ PublishIrq
  <2>1. h'.origin = h.origin /\ h'.seed = h.seed /\ h.pc = "script"
    BY <1>0, <1>3, PublishIs, PublishIrqIs DEF SameConf
  <2>2. Publish => io' = io
    BY <1>0, PublishIs
  <2>3. \A i \in DOMAIN io' : i \notin DOMAIN io => ~IsWrite(io'[i], "SEED")
    BY <1>0, <1>3, <2>2, Fresh DEF IsReg, IsCtrl, IsWrite
  <2> QED BY <1>1, <1>n, <2>1, <2>3, SeedKept
<1>4. CASE Ring \/ IrqOff \/ Drain \/ Drained \/ TakeMsi \/ Awaited
  <2>1. h'.origin = h.origin /\ h'.seed = h.seed /\ (h.pc # "flr" \/ h'.pc = "flr")
    BY <1>0, <1>4, PlainHostIs DEF SameConf, SameIdx, SamePc
  <2>2. ~(Ring \/ IrqOff) => io' = io
    BY <1>0, <1>4, HostSends
  <2>3. \A i \in DOMAIN io' : i \notin DOMAIN io => ~IsWrite(io'[i], "SEED")
    BY <1>0, <2>2, Fresh DEF IsReg, IsCtrl, IsWrite
  <2> QED BY <1>1, <1>n, <2>1, <2>3, SeedKept
<1>5. CASE TryEnd
  <2>1. h'.origin = h.origin /\ h'.seed = h.seed /\ h.pc # "flr" /\ io' = io
    BY <1>0, <1>5, TryEndIs DEF SameConf
  <2> QED BY <1>1, <1>n, <2>1, SeedKept
<1>6. CASE DrainTimeout \/ Teardown
  <2>1. h'.origin = h.origin /\ h'.seed = h.seed /\ h.pc # "flr"
    BY <1>0, <1>6, DisableIs DEF SameConf, SameIdx
  <2>2. \A i \in DOMAIN io' : i \notin DOMAIN io => ~IsWrite(io'[i], "SEED")
    BY <1>0, <1>6, Fresh DEF IsRead, IsCtrl, IsWrite
  <2> QED BY <1>1, <1>n, <2>1, <2>2, SeedKept
<1>7. CASE StatusBack
  <2>1. h'.origin = h.origin /\ h'.seed = h.seed /\ h.pc = "status"
    BY <1>0, <1>7, StatusBackIs DEF SameConf, SameIdx
  <2>2. \A i \in DOMAIN io' : i \notin DOMAIN io => io'[i].op \in {"read", "flr"}
    BY <1>0, <1>7, Fresh DEF IsRead
  <2>3. \A i \in DOMAIN io' : i \notin DOMAIN io => ~IsWrite(io'[i], "SEED")
    BY <2>2 DEF IsWrite
  <2> QED BY <1>1, <1>n, <2>1, <2>3, SeedKept
<1>8. CASE HeadBack
  <2>1. h'.origin = h.next /\ h'.seed = h.seed /\ h.pc = "head"
    BY <1>0, <1>8, RestartIs
  <2>2. \A i \in DOMAIN io' : i \notin DOMAIN io => ~IsWrite(io'[i], "SEED")
    BY <1>0, <1>8, Fresh DEF IsReg, IsCtrl, IsWrite
  <2> QED BY <1>1, <1>n, <2>1, <2>2, SeedKept
<1>9. CASE SetSeed
  <2>1. h'.origin = h.origin /\ h'.seed = h.seed + 1 /\ Working /\ h.hhead = h.next
    BY <1>0, <1>9, PlainHostIs DEF SameIdx, Working
  <2>2. Keeps(1) /\ IsReg(At(1), "SEED", h.seed + 1)
    BY <1>0, <1>9, Sends
  <2>a. PICK n \in Nat : n = Len(io) + 1
    BY <1>2
  <2>3. n \in DOMAIN io' /\ io'[n] = At(1) /\ DOMAIN io' = 1 .. n /\ n \in Nat /\ n - 1 = Len(io) /\ Len(io') = n
    BY <1>0, <1>2, <2>a, <2>2, Posted DEF Keeps
  <2>4. SeedFirst(n)'
    <3>1. /\ ~m.wedged
          /\ \A i \in DOMAIN io : IsWrite(io[i], "TAIL") => io[i].val <= h.origin
          /\ m.enable => m.tail <= m.head + One(\E j \in DOMAIN io : IsRecord(io[j]))
      BY <2>1, AllEnded
    <3>2. \A j \in DOMAIN io' : IsRecord(io'[j]) => j \in DOMAIN io /\ io'[j] = io[j]
      BY <1>1, <1>2 DEF HostSent, IsRecord
    <3>3. One(\E j \in DOMAIN io' : IsRecord(io'[j])) = One(\E j \in DOMAIN io : IsRecord(io[j]))
      BY <1>2, <3>2
    <3>4. \A j \in 1 .. n - 1 : IsWrite(io'[j], "TAIL") => io'[j].val <= h.origin
      BY <1>2, <2>3, <3>1
    <3>5. \A j \in n + 1 .. Len(io') : FALSE
      BY <2>3
    <3> QED BY <1>2, <2>1, <3>1, <3>3, <3>4, <3>5 DEF SeedFirst, IsRecord, IsWrite
  <2>5. SeedAll'
    <3> SUFFICES ASSUME NEW i \in DOMAIN io', IsWrite(io'[i], "SEED") PROVE SeedFirst(i)'
      BY DEF SeedAll, IsWrite
    <3>1. CASE i = n
      BY <2>4, <3>1
    <3>2. CASE i # n
      <4>1. i \in DOMAIN io
        BY <1>2, <2>3, <3>2
      <4>2. IsWrite(io[i], "SEED")
        BY <1>2, <4>1
      <4> QED BY <1>1, <1>n, <2>1, <4>1, <4>2, SeedSent
    <3> QED BY <3>1, <3>2
  <2>6. SeedLast'
    <3>1. IsWrite(io'[n], "SEED") /\ io'[n].val = h'.seed
      BY <2>1, <2>2, <2>3 DEF IsReg, IsWrite
    <3>2. \A j \in n + 1 .. Len(io') : FALSE
      BY <2>3
    <3> QED BY <2>3, <3>1, <3>2 DEF SeedLast, IsWrite
  <2> QED BY <2>5, <2>6, SeedPartsNext
<1>10. CASE AfterReset
  <2>1. h'.origin = h.next /\ h'.seed = h.seed /\ h.pc = "flr" /\ \A i \in 1 .. Len(io) : io[i] # Flr
    BY <1>0, <1>10, RestartIs
  <2>2. io = <<>> /\ ~m.enable /\ ~m.wedged
    <3> DEFINE f == Flr
    <3>0. \A i \in 1 .. Len(io) : io[i] # f
      BY <2>1
    <3> HIDE DEF f
    <3>1. io # <<f>>
      BY <3>0
    <3> USE DEF f
    <3> QED BY <1>0, <2>1, <3>1 DEF QuietInv, ResetState
  <2>3. Len(io) = 0
    BY <2>2
  <2>4. Keeps(4) /\ IsReg(At(1), "RING", TRUE) /\ IsReg(At(2), "SEED", h.seed) /\ IsReg(At(3), "TAIL", h.next) /\ IsCtrl(At(4), TRUE)
    BY <1>0, <1>10, Sends
  <2>5. /\ DOMAIN io' = 1 .. 4 /\ Len(io') = 4 /\ IsReg(io'[1], "RING", TRUE) /\ IsReg(io'[2], "SEED", h.seed)
        /\ IsReg(io'[3], "TAIL", h.next) /\ IsCtrl(io'[4], TRUE)
    <3>1. Len(io) + 1 = 1 /\ Len(io) + 2 = 2 /\ Len(io) + 3 = 3 /\ Len(io) + 4 = 4
      BY <2>3
    <3> QED BY <2>4, <3>1 DEF Keeps, At
  <2>6. \A i \in DOMAIN io' : /\ IsWrite(io'[i], "SEED") => i = 2
                              /\ ~IsRecord(io'[i])
                              /\ IsWrite(io'[i], "TAIL") => i = 3
    BY <2>5 DEF IsReg, IsCtrl, IsWrite, IsRecord
  <2>7. SeedAll'
    <3> SUFFICES SeedFirst(2)'
      BY <2>6 DEF SeedAll, IsWrite
    <3>1. \A j \in 2 + 1 .. Len(io') : ~IsRecord(io'[j])
      BY <2>5, <2>6
    <3>2. \A j \in 1 .. 2 - 1 : ~IsWrite(io'[j], "TAIL")
      BY <2>5, <2>6
    <3> QED BY <1>2, <2>2, <3>1, <3>2 DEF SeedFirst, IsRecord, IsWrite
  <2>8. SeedLast'
    <3>1. 2 \in DOMAIN io' /\ IsWrite(io'[2], "SEED") /\ io'[2].val = h'.seed
      BY <2>1, <2>5 DEF IsReg, IsWrite
    <3>2. \A j \in 2 + 1 .. Len(io') : ~IsWrite(io'[j], "SEED")
      BY <2>5, <2>6
    <3> QED BY <3>1, <3>2 DEF SeedLast, IsWrite
  <2> QED BY <2>7, <2>8, SeedPartsNext
<1> QED BY <1>3, <1>4, <1>5, <1>6, <1>7, <1>8, <1>9, <1>10 DEF HostNext

LEMMA SeedStep == ASSUME IInv, [Next]_vars PROVE SeedInv'
<1>0. /\ TypeOK /\ SeedInv /\ StageInv /\ ErrandInv /\ ModuleInv /\ IndexInv /\ AskedInv /\ QuietInv /\ StartInv
      /\ SeedAll /\ SeedLast
  BY SeedParts DEF IInv, ModuleInv
<1>1. CASE ArriveSteps
  BY <1>1, SeedArrive
<1>2. CASE HostNext
  BY <1>2, SeedHost
<1>3. CASE Shot
  <2>1. io' = io /\ h' = h /\ m'.head = m.head /\ m'.tail = m.tail /\ m'.enable = m.enable
        /\ m'.wedged = m.wedged /\ m'.seed = m.seed
    BY <1>0, <1>3 DEF Shot, TypeOK, ModuleStates
  <2> QED BY <1>0, <2>1 DEF SeedInv, IsWrite, IsRecord, One
<1>4. ASSUME NEW l \in wire, Land(l) \/ AtHost(l) PROVE SeedInv'
  <2>1. /\ m' = m /\ h' = h /\ Len(io) \in Nat /\ Len(io') = Len(io) + 1 /\ DOMAIN io = 1 .. Len(io) /\ DOMAIN io' = 1 .. Len(io')
        /\ \A i \in DOMAIN io : i \in DOMAIN io' /\ io'[i] = io[i]
        /\ \A i \in DOMAIN io' : (i \in DOMAIN io /\ io'[i] = io[i]) \/ (i = Len(io) + 1 /\ io'[i] = At(1))
        /\ At(1).op \in {"go", "back"}
    BY <1>0, <1>4, LineReaches
  <2>n. m.head \in Nat /\ m.tail \in Nat
    <3>1. m \in ModuleStates
      BY <1>0 DEF TypeOK
    <3> QED BY <3>1 DEF ModuleStates
  <2>2. \A i \in DOMAIN io' : IsWrite(io'[i], "SEED") \/ IsWrite(io'[i], "TAIL") => i \in DOMAIN io /\ io'[i] = io[i]
    BY <2>1 DEF IsWrite
  <2>3. ASSUME NEW i \in DOMAIN io, IsWrite(io[i], "SEED") PROVE ~IsRecord(At(1))
    <3> SUFFICES ASSUME IsRecord(At(1)) PROVE FALSE
      OBVIOUS
    <3>1. l.op = "ItoMWr" /\ l.what = "rec"
      <4>1. Land(l)
        <5> SUFFICES ASSUME AtHost(l) PROVE FALSE
          BY <1>4
        <5>1. At(1) = [op |-> "back", what |-> l.what, idx |-> l.idx, job |-> l.job,
                     gen |-> l.gen, cmd |-> InMemory(l.at).cmd]
          BY <1>0, AtHostTypes
        <5>2. At(1).op = "back"
          BY <5>1
        <5> QED BY <5>2 DEF IsRecord
      <4>2. At(1) = [l EXCEPT !.op = "go"]
        BY <1>0, <4>1, LandTypes
      <4>3. l.op = "ItoMWr" /\ l \in Lines
        BY <1>0, <4>1 DEF Land, TypeOK
      <4>4. l \in Results("ItoMWr") \cup Records("ItoMWr")
        BY <4>3, LineShape
      <4>5. At(1).what = l.what
        BY <4>2, <4>4 DEF Results, Records
      <4> QED BY <4>3, <4>5 DEF IsRecord
    <3>2. Out(0)
      BY <3>1 DEF Out, Runs, Errand
    <3>3. \A j \in DOMAIN io : ~IsRecord(io[j])
      BY <1>0, <3>1, RecordOnce
    <3>4. One(\E j \in DOMAIN io : IsRecord(io[j])) = 0
      BY <3>3 DEF One
    <3>5. m.enable => m.tail <= m.head + One(\E j \in DOMAIN io : IsRecord(io[j]))
      BY <1>0, <2>3 DEF SeedAll, SeedFirst
    <3>6. m.enable => m.tail <= m.head
      <4>1. m.enable => m.tail <= m.head + 0
        BY <3>4, <3>5
      <4> QED BY <2>n, <4>1
    <3>7. ~m.enable /\ m.enabled
      BY <1>0, <2>n, <3>2, <3>6, RecordMeans
    <3>8. Working \/ Stopping
      BY <1>0, <2>3, WriteMeans DEF IsWrite
    <3> QED BY <1>0, <3>7, <3>8 DEF StartInv
  <2>4. One(\E j \in DOMAIN io : IsRecord(io[j])) <= One(\E j \in DOMAIN io' : IsRecord(io'[j]))
    <3>1. (\E j \in DOMAIN io : IsRecord(io[j])) => \E j \in DOMAIN io' : IsRecord(io'[j])
      BY <2>1
    <3> QED BY <3>1 DEF One
  <2>5. SeedAll'
    <3> SUFFICES ASSUME NEW i \in DOMAIN io', IsWrite(io'[i], "SEED")
                 PROVE  /\ ~m.wedged
                        /\ \A j \in i + 1 .. Len(io') : ~IsRecord(io'[j])
                        /\ \A j \in 1 .. i - 1 : IsWrite(io'[j], "TAIL") => io'[j].val <= h.origin
                        /\ m.enable => m.tail <= m.head + One(\E j \in DOMAIN io' : IsRecord(io'[j]))
      BY <2>1 DEF SeedAll, SeedFirst, IsWrite, IsRecord
    <3>1. i \in DOMAIN io /\ IsWrite(io[i], "SEED") /\ i \in Nat
      BY <2>1, <2>2
    <3>2. /\ ~m.wedged
          /\ \A j \in i + 1 .. Len(io) : ~IsRecord(io[j])
          /\ \A j \in 1 .. i - 1 : IsWrite(io[j], "TAIL") => io[j].val <= h.origin
          /\ m.enable => m.tail <= m.head + One(\E j \in DOMAIN io : IsRecord(io[j]))
      BY <1>0, <3>1 DEF SeedAll, SeedFirst
    <3>3. ~IsRecord(At(1))
      BY <2>3, <3>1
    <3>4. \A j \in i + 1 .. Len(io') : ~IsRecord(io'[j])
      <4> SUFFICES ASSUME NEW j \in i + 1 .. Len(io') PROVE ~IsRecord(io'[j])
        OBVIOUS
      <4>1. j \in DOMAIN io'
        BY <2>1, <3>1
      <4>2. (j \in i + 1 .. Len(io) /\ io'[j] = io[j]) \/ io'[j] = At(1)
        BY <2>1, <3>1, <4>1
      <4> QED BY <3>2, <3>3, <4>2
    <3>5. \A j \in 1 .. i - 1 : IsWrite(io'[j], "TAIL") => io'[j].val <= h.origin
      BY <2>1, <3>1, <3>2
    <3>6. m.enable => m.tail <= m.head + One(\E j \in DOMAIN io' : IsRecord(io'[j]))
      <4> DEFINE a == One(\E j \in DOMAIN io : IsRecord(io[j]))
                 b == One(\E j \in DOMAIN io' : IsRecord(io'[j]))
      <4>1. (m.enable => m.tail <= m.head + a) /\ a <= b /\ a \in Nat /\ b \in Nat
        <5>1. a \in Nat /\ b \in Nat
          BY DEF One
        <5> QED BY <2>4, <3>2, <5>1
      <4> HIDE DEF a, b
      <4>2. m.enable => m.tail <= m.head + b
        BY <2>n, <4>1
      <4> QED BY <4>2 DEF b
    <3> QED BY <3>2, <3>4, <3>5, <3>6
  <2>6. SeedLast'
    <3> SUFFICES ASSUME h.pc # "flr"
                 PROVE  \/ m.seed = h.seed /\ \A i \in DOMAIN io' : ~IsWrite(io'[i], "SEED")
                        \/ \E i \in DOMAIN io' : /\ IsWrite(io'[i], "SEED") /\ io'[i].val = h.seed
                                                 /\ \A j \in i + 1 .. Len(io') : ~IsWrite(io'[j], "SEED")
      BY <2>1 DEF SeedLast, IsWrite
    <3>1. CASE m.seed = h.seed /\ \A i \in DOMAIN io : ~IsWrite(io[i], "SEED")
      BY <2>2, <3>1
    <3>2. ASSUME NEW i \in DOMAIN io, IsWrite(io[i], "SEED"), io[i].val = h.seed,
                 \A j \in i + 1 .. Len(io) : ~IsWrite(io[j], "SEED")
          PROVE  \E q \in DOMAIN io' : /\ IsWrite(io'[q], "SEED") /\ io'[q].val = h.seed
                                       /\ \A j \in q + 1 .. Len(io') : ~IsWrite(io'[j], "SEED")
      <4>1. \A j \in i + 1 .. Len(io') : ~IsWrite(io'[j], "SEED")
        <5> SUFFICES ASSUME NEW j \in i + 1 .. Len(io'), IsWrite(io'[j], "SEED") PROVE FALSE
          OBVIOUS
        <5>1. i \in Nat /\ j \in DOMAIN io'
          BY <2>1
        <5>2. j \in DOMAIN io /\ io'[j] = io[j]
          BY <2>2, <5>1
        <5>3. j \in i + 1 .. Len(io)
          BY <2>1, <5>1, <5>2
        <5> QED BY <3>2, <5>2, <5>3
      <4> QED BY <2>1, <3>2, <4>1
    <3> QED BY <1>0, <3>1, <3>2 DEF SeedLast
  <2> QED BY <2>5, <2>6, SeedPartsNext
<1>5. CASE UNCHANGED vars
  <2>1. io' = io /\ h' = h /\ m' = m
    BY <1>5 DEF vars
  <2> QED BY <1>0, <2>1 DEF SeedInv, IsWrite, IsRecord, One
<1> QED BY <1>1, <1>2, <1>3, <1>4, <1>5, Steps

-----------------------------------------------------------------------------
(* The interrupt. *)

\* With nothing moving, the module has done all it was told of, unless it is wedged.
LEMMA QuietMeans ==
  ASSUME IInv, Working, Quiet(up), ~m.wedged
  PROVE  m.enable /\ m.head = h.rung /\ m.tail = h.rung /\ ~m.busy
<1>0. TypeOK /\ ModuleInv /\ StageInv /\ ErrandInv /\ IndexInv /\ StartInv
  BY DEF IInv, ModuleInv
<1>1. io = <<>> /\ wire = {} /\ ~(g.pc = "shots" /\ g.job = m.job /\ g.sent < OutLines(cmd[g.cmd].kind))
  BY DEF Quiet
<1>2. DOMAIN io = {}
  BY <1>1
<1>3. (\A k \in 0 .. 3 : ~Out(k)) /\ m.inflight = 0
  BY <1>0, <1>1, NothingOut
<1>4. m.enable
  <2> SUFFICES ASSUME ~m.enable PROVE FALSE
    OBVIOUS
  <2>1. StartBody
    BY <1>0, StartInvIs
  <2> QED BY <1>2, <2>1 DEF StartBody
<1>n. g.sent \in Nat /\ g.ordered \in Nat /\ m.inflight \in Int
  <2>1. g \in Works /\ m \in ModuleStates
    BY <1>0 DEF TypeOK
  <2> QED BY <2>1 DEF Works, ModuleStates
<1>5. ~Shooting
  <2> SUFFICES ASSUME Shooting PROVE FALSE
    OBVIOUS
  <2>1. /\ g.pc = "shots" /\ g.job = m.job /\ g.ordered < OutLines(cmd[g.cmd].kind)
        /\ m.inflight = g.sent - g.ordered
    BY DEF Shooting, OnHead
  <2>2. g.sent = g.ordered
    BY <1>n, <1>3, <2>1
  <2> QED BY <1>1, <2>1, <2>2
<1>6. ~m.busy
  BY <1>0, <1>3, <1>4, <1>5 DEF StageInv, Stopped, Waiting, Wedged, Fetching, Loading, Recording
<1>7. m.head = m.tail
  BY <1>0, <1>4, <1>6 DEF IndexInv
<1>8. m.tail = h.rung
  BY <1>0, <1>2 DEF IndexInv
<1> QED BY <1>4, <1>6, <1>7, <1>8

IrqOut == \E i \in DOMAIN io : IsWrite(io[i], "IRQ_AT")
Past   == m.wedged \/ m.irq_at <= m.head

MsiOff ==
  h.pc # "await" => ~IrqOut /\ Past /\ \A i \in DOMAIN up : up[i].op # "msi"

MsiOn ==
  h.pc = "await" =>
    /\ h.irq_at = h.next
    /\ \A i, j \in DOMAIN up : i = j
    /\ \A i, j \in DOMAIN io : IsWrite(io[i], "IRQ_AT") /\ IsWrite(io[j], "IRQ_AT") => i = j
    /\ \A i \in DOMAIN io : IsWrite(io[i], "IRQ_AT") =>
         /\ io[i].val = h.next /\ ~h.msi /\ up = <<>> /\ Past
         /\ \E j \in i + 1 .. Len(io) : IsWrite(io[j], "TAIL") /\ io[j].val = h.next
    /\ \/ IrqOut
       \/ m.wedged /\ up = <<>> /\ ~h.msi
       \/ m.enable /\ m.irq_at = h.next /\ ((h.msi \/ up # <<>>) => m.head = h.next)
    /\ h.msi => up = <<>>

LEMMA MsiParts == MsiInv <=> MsiOff /\ MsiOn
  BY DEF MsiInv, MsiOff, MsiOn, IrqOut, Past

LEMMA MsiPartsNext == MsiInv' <=> MsiOff' /\ MsiOn'
  BY DEF MsiInv, MsiOff, MsiOn, IrqOut, Past

\* The interrupt's index stays past, or the register is written.
LEMMA PastStays ==
  ASSUME IInv, ArriveSteps, Past, ~SetIrqAt
  PROVE  Past'
<1>0. TypeOK /\ AskedInv /\ StartInv /\ QuietInv /\ ModuleInv /\ IndexInv /\ StatusInv
  BY DEF IInv, ModuleInv
<1>n. m.irq_at \in Nat /\ m.head \in Nat /\ h.origin \in Nat
  <2>1. m \in ModuleStates /\ h \in HostStates
    BY <1>0 DEF TypeOK
  <2> QED BY <2>1 DEF ModuleStates, HostStates
<1>1. CASE TakeFlr
  <2>1. m'.irq_at = 0 /\ m'.head = 0
    BY <1>1 DEF TakeFlr, ResetState
  <2> QED BY <2>1 DEF Past
<1>2. CASE ~TakeFlr
  <2>1. m'.irq_at = m.irq_at /\ (m'.wedged = m.wedged \/ Wedge)
    BY <1>2, ArriveKeeps
  <2>2. m.wedged => m'.wedged
    BY <1>0, <2>1, RegisterIs
  <2>3. m.head <= m'.head
    <3>1. CASE NextSlot
      BY <1>0, <1>n, <3>1, NextSlotIs
    <3>2. CASE StartQueue
      <4>1. m'.head = h.origin
        BY <1>0, <3>2, StartQueueIs
      <4>2. m.head <= h.origin
        BY <1>0, <3>2, StartIs DEF StartQueue
      <4> QED BY <4>1, <4>2
    <3> QED BY <1>2, <1>n, <3>1, <3>2, ArriveKeeps
  <2>4. m'.head \in Int
    <3>1. TypeOK'
      BY <1>0, ArriveTypes DEF ModuleInv
    <3>2. m' \in ModuleStates
      BY <3>1 DEF TypeOK
    <3> QED BY <3>2 DEF ModuleStates
  <2>5. m.irq_at <= m.head => m'.irq_at <= m'.head
    BY <1>n, <2>1, <2>3, <2>4
  <2> QED BY <2>2, <2>5 DEF Past
<1> QED BY <1>1, <1>2

LEMMA MsiArrive == ASSUME IInv, ArriveSteps PROVE MsiInv'
<1>0. /\ TypeOK /\ ModuleInv /\ StageInv /\ AskedInv /\ QuietInv /\ IndexInv /\ StatusInv /\ StartInv
      /\ MsiOff /\ MsiOn
  BY MsiParts DEF IInv, ModuleInv
<1>1. Pop /\ Shifted /\ h' = h
  BY ArriveKeeps
<1>2. /\ \A i \in DOMAIN io' : i + 1 \in DOMAIN io /\ io'[i] = io[i + 1] /\ i \in Nat /\ 1 < i + 1 /\ i + 1 # 1
      /\ \A i \in DOMAIN io : i # 1 => i - 1 \in DOMAIN io' /\ io'[i - 1] = io[i]
      /\ Msg = io[1] /\ 1 \in DOMAIN io /\ DOMAIN io = 1 .. Len(io) /\ Len(io) \in Nat
      /\ DOMAIN io' = 1 .. Len(io') /\ Len(io') = Len(io) - 1
  BY <1>1 DEF Shifted
<1>u. up \in Seq(Answers) /\ Len(up) \in Nat /\ DOMAIN up = 1 .. Len(up)
  BY <1>0 DEF TypeOK
<1>n. h.rung \in Nat /\ h.next \in Nat /\ m.head \in Nat /\ m.tail \in Nat /\ m.irq_at \in Nat /\ h.rung <= h.next /\ m.tail <= h.rung
  <2>1. m \in ModuleStates /\ h \in HostStates
    BY <1>0 DEF TypeOK
  <2> QED BY <1>0, <2>1 DEF ModuleStates, HostStates, IndexInv
<1>3. CASE h.pc # "await"
  <2>1. ~IrqOut /\ Past /\ \A i \in DOMAIN up : up[i].op # "msi"
    BY <1>0, <1>3 DEF MsiOff
  <2>2. ~IrqOut'
    <3>1. ~\E i \in DOMAIN io' : IsWrite(io'[i], "IRQ_AT")
      BY <1>2, <2>1 DEF IrqOut
    <3> QED BY <3>1 DEF IrqOut, IsWrite
  <2>3. ~SetIrqAt
    BY <1>2, <2>1 DEF SetIrqAt, IrqOut
  <2>4. Past'
    BY <2>1, <2>3, PastStays
  <2>5. ~(NextSlot /\ m.irq_at = m.head + 1)
    <3> SUFFICES ASSUME NextSlot, m.irq_at = m.head + 1 PROVE FALSE
      OBVIOUS
    <3>1. ~m.wedged
      BY <1>0, NextSlotIs
    <3>2. m.irq_at <= m.head
      BY <2>1, <3>1 DEF Past
    <3> QED BY <1>n, <3>2
  <2>6. \A i \in DOMAIN up' : up'[i].op # "msi"
    <3>1. CASE up' = up
      BY <2>1, <3>1
    <3>2. CASE Answer
      <4>1. Msg.op = "read" /\ Msg \in Messages
        BY <1>0, <1>1, <3>2, HeadTyped DEF Answer, Pop
      <4>2. Msg \in Controls
        BY <4>1, MessageShape
      <4>3. Msg.reg \in {"STATUS", "HEAD"}
        <5>1. Flr.op = "flr"
          BY DEF Flr
        <5> QED BY <4>1, <4>2, <5>1 DEF Controls
      <4>4. NewAnswer.op # "msi"
        BY <4>3 DEF NewAnswer
      <4>5. up' = Append(up, NewAnswer)
        BY <3>2 DEF Answer, NewAnswer
      <4>6. ~NextSlot
        BY <4>1 DEF NextSlot, IsRecord
      <4>7. \A i \in DOMAIN up' : (i \in DOMAIN up /\ up'[i] = up[i]) \/ up'[i] = NewAnswer
        BY <4>6, UpGrows
      <4> QED BY <2>1, <4>4, <4>7
    <3> QED BY <2>5, <3>1, <3>2, UpGrows
  <2>7. MsiOff'
    BY <2>2, <2>4, <2>6 DEF MsiOff
  <2>8. MsiOn'
    BY <1>1, <1>3 DEF MsiOn
  <2> QED BY <2>7, <2>8, MsiPartsNext
<1>4. CASE h.pc = "await"
  <2>0. /\ h.irq_at = h.next
        /\ \A i, j \in DOMAIN up : i = j
        /\ \A i, j \in DOMAIN io : IsWrite(io[i], "IRQ_AT") /\ IsWrite(io[j], "IRQ_AT") => i = j
        /\ \A i \in DOMAIN io : IsWrite(io[i], "IRQ_AT") =>
             /\ io[i].val = h.next /\ ~h.msi /\ up = <<>> /\ Past
             /\ \E j \in i + 1 .. Len(io) : IsWrite(io[j], "TAIL") /\ io[j].val = h.next
        /\ \/ IrqOut
           \/ m.wedged /\ up = <<>> /\ ~h.msi
           \/ m.enable /\ m.irq_at = h.next /\ ((h.msi \/ up # <<>>) => m.head = h.next)
        /\ h.msi => up = <<>>
    BY <1>0, <1>4 DEF MsiOn
  <2>w. Working /\ \A i \in DOMAIN io : ~Stops(io[i]) /\ ~Asks(io[i])
    BY <1>0, <1>4 DEF Working, AskedInv
  <2>f. ~TakeFlr
    BY <1>0, <1>4, TakeFlrIs
  <2>a. Msg.op # "read"
    BY <1>2, <2>w DEF Asks
  <2>m. MsiOff'
    BY <1>1, <1>4 DEF MsiOff
  <2> SUFFICES MsiOn'
    BY <2>m, MsiPartsNext
  <2>1. \A i, j \in DOMAIN io' : IsWrite(io'[i], "IRQ_AT") /\ IsWrite(io'[j], "IRQ_AT") => i = j
    <3> SUFFICES ASSUME NEW i \in DOMAIN io', NEW j \in DOMAIN io', IsWrite(io'[i], "IRQ_AT"), IsWrite(io'[j], "IRQ_AT")
                 PROVE  i = j
      OBVIOUS
    <3>1. i + 1 \in DOMAIN io /\ j + 1 \in DOMAIN io /\ io'[i] = io[i + 1] /\ io'[j] = io[j + 1] /\ i \in Nat /\ j \in Nat
      BY <1>2
    <3>2. i + 1 = j + 1
      BY <2>0, <3>1
    <3> QED BY <3>1, <3>2
  <2>2. CASE NextSlot /\ up' = Append(up, [op |-> "msi"]) /\ m.irq_at = m.head + 1
    <3>1. ~m.wedged /\ m'.enable /\ m'.head = m.head + 1 /\ m'.irq_at = m.irq_at /\ m.head < m.tail
      BY <1>0, <2>2, NextSlotIs
    <3>2. ~Past
      BY <1>n, <2>2, <3>1 DEF Past
    <3>3. ~IrqOut
      BY <2>0, <3>2 DEF IrqOut
    <3>4. m.irq_at = h.next /\ ((h.msi \/ up # <<>>) => m.head = h.next)
      BY <2>0, <3>1, <3>3
    <3>5. ~h.msi /\ up = <<>>
      BY <1>n, <2>2, <3>4
    <3> DEFINE x == [op |-> "msi"]
    <3>6. up' = Append(<<>>, x)
      BY <2>2, <3>5
    <3> HIDE DEF x
    <3>7. DOMAIN up' = {1} /\ up' # <<>>
      BY <3>6
    <3>8. ~\E i \in DOMAIN io' : IsWrite(io'[i], "IRQ_AT")
      BY <1>2, <3>3 DEF IrqOut
    <3> QED BY <1>1, <2>0, <2>2, <3>1, <3>4, <3>5, <3>7, <3>8 DEF MsiOn, IsWrite
  <2>3. CASE up' = up
    <3>1. CASE IsWrite(Msg, "IRQ_AT")
      <4>1. ~\E i \in DOMAIN io' : IsWrite(io'[i], "IRQ_AT")
        <5> SUFFICES ASSUME NEW i \in DOMAIN io', IsWrite(io'[i], "IRQ_AT") PROVE FALSE
          OBVIOUS
        <5>1. i + 1 \in DOMAIN io /\ io'[i] = io[i + 1] /\ i + 1 # 1
          BY <1>2
        <5> QED BY <1>2, <2>0, <3>1, <5>1
      <4>2. Msg.val = h.next /\ ~h.msi /\ up = <<>>
        BY <1>2, <2>0, <3>1
      <4>3. CASE SetIrqAt
        <5>1. m'.irq_at = h.next /\ m'.enable = m.enable
          BY <1>0, <4>2, <4>3, RegisterIs
        <5>2. m.enable
          <6> SUFFICES ASSUME ~m.enable PROVE FALSE
            OBVIOUS
          <6>1. StartBody
            BY <1>0, <2>w, StartInvIs
          <6>2. PICK p \in DOMAIN io : StartAt(p)
            BY <6>1 DEF StartBody
          <6>3. p # 1
            BY <1>2, <3>1, <6>2 DEF StartAt, Starts, IsWrite
          <6>4. 1 \in 1 .. p - 1
            BY <1>2, <6>3
          <6> QED BY <1>2, <3>1, <6>2, <6>4 DEF StartAt
        <5> QED BY <1>1, <2>0, <2>3, <4>1, <4>2, <5>1, <5>2 DEF MsiOn, IsWrite
      <4>4. CASE m.wedged /\ m' = m
        BY <1>1, <2>0, <2>3, <4>1, <4>2, <4>4 DEF MsiOn, IsWrite
      <4> QED BY <3>1, <4>3, <4>4, RegTaken
    <3>2. CASE ~IsWrite(Msg, "IRQ_AT")
      <4>1. ~SetIrqAt
        BY <3>2 DEF SetIrqAt
      <4>2. \A i \in DOMAIN io' : IsWrite(io'[i], "IRQ_AT") =>
              /\ io'[i].val = h.next /\ ~h.msi /\ up = <<>> /\ Past'
              /\ \E j \in i + 1 .. Len(io') : IsWrite(io'[j], "TAIL") /\ io'[j].val = h.next
        <5> SUFFICES ASSUME NEW i \in DOMAIN io', IsWrite(io'[i], "IRQ_AT")
                     PROVE  /\ io'[i].val = h.next /\ ~h.msi /\ up = <<>> /\ Past'
                            /\ \E j \in i + 1 .. Len(io') : IsWrite(io'[j], "TAIL") /\ io'[j].val = h.next
          OBVIOUS
        <5>1. i + 1 \in DOMAIN io /\ io'[i] = io[i + 1] /\ i \in Nat
          BY <1>2
        <5>2. /\ io'[i].val = h.next /\ ~h.msi /\ up = <<>> /\ Past
              /\ \E j \in i + 1 + 1 .. Len(io) : IsWrite(io[j], "TAIL") /\ io[j].val = h.next
          BY <2>0, <5>1
        <5>3. PICK j \in i + 1 + 1 .. Len(io) : IsWrite(io[j], "TAIL") /\ io[j].val = h.next
          BY <5>2
        <5>4. j \in DOMAIN io /\ j # 1 /\ j - 1 \in i + 1 .. Len(io')
          BY <1>2, <5>1
        <5>5. io'[j - 1] = io[j]
          BY <1>2, <5>4
        <5> QED BY <4>1, <5>2, <5>3, <5>4, <5>5, PastStays
      <4>3. \/ \E i \in DOMAIN io' : IsWrite(io'[i], "IRQ_AT")
            \/ m'.wedged /\ up = <<>> /\ ~h.msi
            \/ m'.enable /\ m'.irq_at = h.next /\ ((h.msi \/ up # <<>>) => m'.head = h.next)
        <5>1. CASE IrqOut
          BY <1>2, <3>2, <5>1 DEF IrqOut
        <5>2. CASE m.wedged /\ up = <<>> /\ ~h.msi
          <6>1. m'.wedged = m.wedged \/ Wedge
            BY <2>f, ArriveKeeps
          <6>2. m'.wedged
            BY <1>0, <5>2, <6>1, RegisterIs
          <6> QED BY <5>2, <6>2
        <5>3. CASE m.enable /\ m.irq_at = h.next /\ ((h.msi \/ up # <<>>) => m.head = h.next)
          <6>1. ~StopQueue
            BY <1>2, <2>w DEF StopQueue
          <6>2. ~StartQueue
            BY <5>3 DEF StartQueue
          <6>3. m'.enable = m.enable /\ m'.irq_at = m.irq_at
            BY <2>f, <4>1, <6>1, <6>2, ArriveKeeps
          <6>4. m'.head = m.head \/ NextSlot
            BY <2>f, <6>2, ArriveKeeps
          <6>5. NextSlot => m.head < m.tail
            BY <1>0, NextSlotIs
          <6>6. m.head = h.next => ~NextSlot
            BY <1>n, <6>5
          <6> QED BY <5>3, <6>3, <6>4, <6>6
        <5> QED BY <2>0, <5>1, <5>2, <5>3
      <4> QED BY <1>1, <2>0, <2>1, <2>3, <4>2, <4>3 DEF MsiOn, IrqOut, IsWrite
    <3> QED BY <3>1, <3>2
  <2> QED BY <2>a, <2>2, <2>3, UpGrows
<1> QED BY <1>3, <1>4
\* Away from the interrupt's wait, with nothing new that concerns it.
LEMMA MsiKept ==
  ASSUME IInv, h.pc # "await", h'.pc # "await", m' = m,
         \A i \in DOMAIN up' : \E j \in DOMAIN up : up'[i] = up[j],
         \A i \in DOMAIN io' : IsWrite(io'[i], "IRQ_AT") => i \in DOMAIN io /\ io'[i] = io[i]
  PROVE  MsiInv'
<1>1. ~IrqOut /\ Past /\ \A i \in DOMAIN up : up[i].op # "msi"
  BY MsiParts DEF IInv, MsiOff
<1>2. ~\E i \in DOMAIN io' : IsWrite(io'[i], "IRQ_AT")
  BY <1>1 DEF IrqOut
<1>3. ~IrqOut'
  BY <1>2 DEF IrqOut, IsWrite
<1>4. Past'
  BY <1>1 DEF Past
<1>5. \A i \in DOMAIN up' : up'[i].op # "msi"
  BY <1>1
<1> QED BY <1>3, <1>4, <1>5, MsiPartsNext DEF MsiOff, MsiOn

LEMMA MsiHost == ASSUME IInv, HostNext PROVE MsiInv'
<1>0. TypeOK /\ IndexInv /\ AskedInv /\ QuietInv /\ MsiOff /\ MsiOn
  BY MsiParts DEF IInv
<1>1. HostSent
  BY <1>0, HostSentLemma
<1>2. /\ \A i \in DOMAIN io : i \in DOMAIN io' /\ io'[i] = io[i]
      /\ m' = m /\ DOMAIN io = 1 .. Len(io) /\ Len(io) \in Nat
      /\ Len(io') \in Nat /\ Len(io) <= Len(io') /\ DOMAIN io' = 1 .. Len(io')
  BY <1>1 DEF HostSent
<1>u. up \in Seq(Answers) /\ Len(up) \in Nat /\ DOMAIN up = 1 .. Len(up)
  BY <1>0 DEF TypeOK
<1>n. h.next \in Nat /\ h.rung \in Nat /\ m.head \in Nat /\ m.irq_at \in Nat
  <2>1. h \in HostStates /\ m \in ModuleStates
    BY <1>0 DEF TypeOK
  <2> QED BY <2>1 DEF HostStates, ModuleStates
<1>3. CASE Publish
  <2>1. h.pc = "script" /\ h'.pc = "script" /\ up' = up /\ io' = io
    BY <1>0, <1>3, PublishIs DEF SamePc
  <2> QED BY <1>2, <2>1, MsiKept
<1>4. CASE Ring \/ IrqOff \/ SetSeed \/ Drain \/ Drained
  <2>1. h.pc # "await" /\ h'.pc # "await" /\ up' = up
    BY <1>0, <1>4, PlainHostIs DEF SamePc
  <2>2. ~(Ring \/ IrqOff \/ SetSeed) => io' = io
    BY <1>0, <1>4, HostSends
  <2>3. \A i \in DOMAIN io' : IsWrite(io'[i], "IRQ_AT") => i \in DOMAIN io /\ io'[i] = io[i]
    BY <1>0, <1>2, <1>4, <2>2, Fresh DEF IsReg, IsCtrl, IsWrite
  <2> QED BY <1>2, <2>1, <2>3, MsiKept
<1>5. CASE TryEnd
  <2>1. h.pc # "await" /\ h'.pc # "await" /\ up' = up /\ io' = io
    BY <1>0, <1>5, TryEndIs DEF SamePc
  <2> QED BY <1>2, <2>1, MsiKept
<1>6. CASE DrainTimeout \/ Teardown
  <2>1. h.pc # "await" /\ h'.pc # "await" /\ up' = up
    BY <1>0, <1>6, DisableIs
  <2>2. \A i \in DOMAIN io' : IsWrite(io'[i], "IRQ_AT") => i \in DOMAIN io /\ io'[i] = io[i]
    BY <1>0, <1>2, <1>6, Fresh DEF IsRead, IsCtrl, IsWrite
  <2> QED BY <1>2, <2>1, <2>2, MsiKept
<1>7. CASE StatusBack
  <2>1. h.pc = "status" /\ h'.pc # "await" /\ up # <<>> /\ up' = Tail(up)
    BY <1>0, <1>7, StatusBackIs
  <2>2. \A i \in DOMAIN io' : i \notin DOMAIN io => io'[i].op \in {"read", "flr"}
    BY <1>0, <1>7, Fresh DEF IsRead
  <2>3. \A i \in DOMAIN io' : IsWrite(io'[i], "IRQ_AT") => i \in DOMAIN io /\ io'[i] = io[i]
    BY <1>2, <2>2 DEF IsWrite
  <2>4. \A i \in DOMAIN up' : \E j \in DOMAIN up : up'[i] = up[j]
    BY <1>0, <2>1, UpTakes
  <2> QED BY <1>2, <2>1, <2>3, <2>4, MsiKept
<1>8. CASE HeadBack \/ AfterReset
  <2>1. h.pc # "await" /\ h'.pc # "await" /\ ((up # <<>> /\ up' = Tail(up)) \/ up' = up)
    BY <1>0, <1>8, RestartIs
  <2>2. \A i \in DOMAIN io' : IsWrite(io'[i], "IRQ_AT") => i \in DOMAIN io /\ io'[i] = io[i]
    BY <1>0, <1>2, <1>8, Fresh DEF IsReg, IsCtrl, IsWrite
  <2>3. \A i \in DOMAIN up' : \E j \in DOMAIN up : up'[i] = up[j]
    BY <1>0, <2>1, UpTakes
  <2> QED BY <1>2, <2>1, <2>2, <2>3, MsiKept
<1>9. CASE PublishIrq
  <2>1. /\ h.pc = "script" /\ h'.pc = "await" /\ h'.irq_at = h.next + 1 /\ h'.next = h.next + 1
        /\ h'.msi = FALSE /\ up' = up
    BY <1>0, <1>9, PublishIrqIs
  <2>2. ~IrqOut /\ Past /\ \A i \in DOMAIN up : up[i].op # "msi"
    BY <1>0, <2>1 DEF MsiOff
  <2>3. \A i \in DOMAIN up : up[i].op = "msi"
    BY <1>0, <2>1 DEF AskedInv, Working
  <2>4. up = <<>> /\ DOMAIN up = {}
    BY <1>u, <2>2, <2>3
  <2>5. PICK q \in Nat : /\ q \in DOMAIN io' /\ q + 1 \in q + 1 .. Len(io') /\ q \notin DOMAIN io
                         /\ IsReg(io'[q], "IRQ_AT", h.next + 1)
                         /\ IsReg(io'[q + 1], "TAIL", h.next + 1)
                         /\ \A i \in DOMAIN io' : i \in DOMAIN io \/ i = q \/ ~IsWrite(io'[i], "IRQ_AT")
    <3>1. CASE h.irq
      <4>1. Keeps(2) /\ IsReg(At(1), "IRQ_AT", h.next + 1) /\ IsReg(At(2), "TAIL", h.next + 1)
        BY <1>0, <1>9, <3>1, Sends
      <4>2. Len(io) + 1 \in DOMAIN io' /\ Len(io) + 1 \notin DOMAIN io /\ io'[Len(io) + 1] = At(1) /\ io'[Len(io) + 2] = At(2)
        BY <1>0, <4>1, Posted
      <4> DEFINE q == Len(io) + 1
      <4>3. q \in Nat /\ q + 1 = Len(io) + 2 /\ Len(io') = q + 1
        BY <1>2, <4>1 DEF Keeps
      <4>4. \A i \in DOMAIN io' : i \in DOMAIN io \/ i = q \/ i = q + 1
        BY <1>2, <4>3
      <4>5. ~IsWrite(io'[q + 1], "IRQ_AT")
        BY <4>1, <4>2, <4>3 DEF IsReg, IsWrite
      <4>6. q + 1 \in q + 1 .. Len(io')
        BY <4>3
      <4> WITNESS q \in Nat
      <4> QED BY <4>1, <4>2, <4>3, <4>4, <4>5, <4>6
    <3>2. CASE ~h.irq
      <4>1. Keeps(3) /\ IsCtrl(At(1), TRUE) /\ IsReg(At(2), "IRQ_AT", h.next + 1) /\ IsReg(At(3), "TAIL", h.next + 1)
        BY <1>0, <1>9, <3>2, Sends
      <4>2. /\ Len(io) + 2 \in DOMAIN io' /\ Len(io) + 2 \notin DOMAIN io
            /\ io'[Len(io) + 1] = At(1) /\ io'[Len(io) + 2] = At(2) /\ io'[Len(io) + 3] = At(3)
        BY <1>0, <4>1, Posted
      <4> DEFINE q == Len(io) + 2
      <4>3. q \in Nat /\ q + 1 = Len(io) + 3 /\ Len(io') = q + 1 /\ q - 1 = Len(io) + 1
        BY <1>2, <4>1 DEF Keeps
      <4>4. \A i \in DOMAIN io' : i \in DOMAIN io \/ i = q - 1 \/ i = q \/ i = q + 1
        BY <1>2, <4>3
      <4>5. ~IsWrite(io'[q + 1], "IRQ_AT") /\ ~IsWrite(io'[q - 1], "IRQ_AT")
        BY <4>1, <4>2, <4>3 DEF IsReg, IsCtrl, IsWrite
      <4>6. q + 1 \in q + 1 .. Len(io')
        BY <4>3
      <4> WITNESS q \in Nat
      <4> QED BY <4>1, <4>2, <4>3, <4>4, <4>5, <4>6
    <3> QED BY <3>1, <3>2
  <2>6. \A i \in DOMAIN io' : IsWrite(io'[i], "IRQ_AT") => i = q
    BY <1>2, <2>2, <2>5 DEF IrqOut
  <2>7. \A i \in DOMAIN io' : IsWrite(io'[i], "IRQ_AT") =>
          /\ io'[i].val = h.next + 1
          /\ \E j \in i + 1 .. Len(io') : IsWrite(io'[j], "TAIL") /\ io'[j].val = h.next + 1
    BY <2>5, <2>6 DEF IsReg, IsWrite
  <2>8. \E i \in DOMAIN io' : IsWrite(io'[i], "IRQ_AT")
    BY <2>5 DEF IsReg, IsWrite
  <2>9. Past'
    BY <1>2, <2>2 DEF Past
  <2>10. MsiOn'
    BY <2>1, <2>4, <2>6, <2>7, <2>8, <2>9 DEF MsiOn, IrqOut, IsWrite
  <2> QED BY <2>1, <2>10, MsiPartsNext DEF MsiOff
<1>10. CASE TakeMsi
  <2>1. /\ up # <<>> /\ Head(up).op = "msi" /\ up' = Tail(up) /\ h'.pc = h.pc /\ h'.next = h.next
        /\ h'.irq_at = h.irq_at /\ h'.msi = TRUE /\ io' = io
    BY <1>0, <1>10, PlainHostIs, HostSends DEF SamePc, SameIdx
  <2>2. up[1].op = "msi" /\ 1 \in DOMAIN up
    BY <1>0, <2>1, UpTakes
  <2>3. h.pc = "await"
    BY <1>0, <2>2 DEF MsiOff
  <2>4. ~IrqOut /\ h.irq_at = h.next /\ m.enable /\ m.irq_at = h.next /\ m.head = h.next /\ \A i, j \in DOMAIN up : i = j
    BY <1>0, <2>1, <2>3 DEF MsiOn, IrqOut
  <2>5. up' = <<>>
    <3>1. Len(up) = 1
      <4>1. Len(up) \in DOMAIN up
        BY <1>u, <2>2
      <4> QED BY <2>2, <2>4, <4>1
    <3> QED BY <1>u, <2>1, <3>1
  <2>6. DOMAIN up' = {}
    BY <2>5
  <2>7. MsiOn'
    BY <1>2, <2>1, <2>3, <2>4, <2>5, <2>6 DEF MsiOn, IrqOut, IsWrite
  <2> QED BY <2>1, <2>3, <2>7, MsiPartsNext DEF MsiOff
<1>11. CASE Awaited
  <2>1. h.pc = "await" /\ (h.msi \/ Quiet(up)) /\ h'.pc = "drain" /\ up' = up /\ io' = io
    BY <1>0, <1>11, PlainHostIs, HostSends
  <2>2. ~IrqOut /\ up = <<>> /\ Past
    <3>1. CASE h.msi
      <4>1. ~IrqOut /\ up = <<>>
        BY <1>0, <2>1, <3>1 DEF MsiOn, IrqOut
      <4>2. m.irq_at = h.next /\ m.head = h.next
        BY <1>0, <2>1, <3>1, <4>1 DEF MsiOn
      <4> QED BY <1>n, <4>1, <4>2 DEF Past
    <3>2. CASE Quiet(up)
      <4>1. io = <<>> /\ up = <<>>
        BY <3>2 DEF Quiet
      <4>2. ~IrqOut
        BY <4>1 DEF IrqOut
      <4>3. m.wedged \/ m.irq_at = h.next
        BY <1>0, <2>1, <4>2 DEF MsiOn
      <4>4. h.rung = h.next
        BY <1>0, <2>1 DEF IndexInv
      <4>5. Past
        BY <1>n, <2>1, <3>2, <4>3, <4>4, QuietMeans DEF Past, Working
      <4> QED BY <4>1, <4>2, <4>5
    <3> QED BY <2>1, <3>1, <3>2
  <2>3. ~IrqOut' /\ Past' /\ DOMAIN up' = {}
    BY <1>2, <2>1, <2>2 DEF IrqOut, Past, IsWrite
  <2> QED BY <2>1, <2>3, MsiPartsNext DEF MsiOff, MsiOn
<1> QED BY <1>3, <1>4, <1>5, <1>6, <1>7, <1>8, <1>9, <1>10, <1>11 DEF HostNext

LEMMA MsiStep == ASSUME IInv, [Next]_vars PROVE MsiInv'
<1>0. TypeOK /\ MsiInv /\ MsiOff /\ MsiOn
  BY MsiParts DEF IInv
<1>1. CASE ArriveSteps
  BY <1>1, MsiArrive
<1>2. CASE HostNext
  BY <1>2, MsiHost
<1>3. CASE Shot
  <2>1. io' = io /\ h' = h /\ up' = up /\ m'.head = m.head /\ m'.irq_at = m.irq_at /\ m'.enable = m.enable
        /\ m'.wedged = m.wedged
    BY <1>0, <1>3 DEF Shot, TypeOK, ModuleStates
  <2> QED BY <1>0, <2>1 DEF MsiInv, IsWrite
<1>4. ASSUME NEW l \in wire, Land(l) \/ AtHost(l) PROVE MsiInv'
  <2>1. /\ m' = m /\ h' = h /\ up' = up /\ Len(io) \in Nat /\ Len(io') = Len(io) + 1 /\ DOMAIN io = 1 .. Len(io)
        /\ \A i \in DOMAIN io : i \in DOMAIN io' /\ io'[i] = io[i]
        /\ \A i \in DOMAIN io' : (i \in DOMAIN io /\ io'[i] = io[i]) \/ io'[i] = At(1)
        /\ At(1).op \in {"go", "back"}
    BY <1>0, <1>4, LineReaches
  <2>2. \A i \in DOMAIN io' : IsWrite(io'[i], "IRQ_AT") => i \in DOMAIN io /\ io'[i] = io[i]
    BY <2>1 DEF IsWrite
  <2>3. CASE h.pc # "await"
    BY <2>1, <2>2, <2>3, MsiKept
  <2>4. CASE h.pc = "await"
    <3>1. \A i \in DOMAIN io' : IsWrite(io'[i], "IRQ_AT") =>
              \E j \in i + 1 .. Len(io') : IsWrite(io'[j], "TAIL") /\ io'[j].val = h.next
      <4> SUFFICES ASSUME NEW i \in DOMAIN io', IsWrite(io'[i], "IRQ_AT")
                   PROVE  \E j \in i + 1 .. Len(io') : IsWrite(io'[j], "TAIL") /\ io'[j].val = h.next
        OBVIOUS
      <4>1. i \in DOMAIN io /\ io'[i] = io[i] /\ i \in Nat
        BY <2>1, <2>2
      <4>2. PICK j \in i + 1 .. Len(io) : IsWrite(io[j], "TAIL") /\ io[j].val = h.next
        BY <1>0, <2>4, <4>1 DEF MsiOn
      <4>3. j \in DOMAIN io /\ j \in i + 1 .. Len(io')
        BY <2>1, <4>1
      <4> QED BY <2>1, <4>2, <4>3
    <3>2. IrqOut => \E i \in DOMAIN io' : IsWrite(io'[i], "IRQ_AT")
      BY <2>1 DEF IrqOut
    <3>3. \A i \in DOMAIN io' : IsWrite(io'[i], "IRQ_AT") =>
            io'[i].val = h.next /\ ~h.msi /\ up = <<>> /\ Past
      BY <1>0, <2>2, <2>4 DEF MsiOn
    <3>4. \A i, j \in DOMAIN io' : IsWrite(io'[i], "IRQ_AT") /\ IsWrite(io'[j], "IRQ_AT") => i = j
      BY <1>0, <2>2, <2>4 DEF MsiOn
    <3>5. /\ h.irq_at = h.next /\ (\A i, j \in DOMAIN up : i = j) /\ (h.msi => up = <<>>)
          /\ \/ IrqOut
             \/ m.wedged /\ up = <<>> /\ ~h.msi
             \/ m.enable /\ m.irq_at = h.next /\ ((h.msi \/ up # <<>>) => m.head = h.next)
      BY <1>0, <2>4 DEF MsiOn
    <3>6. MsiOn'
      BY <2>1, <3>1, <3>2, <3>3, <3>4, <3>5 DEF MsiOn, IrqOut, IsWrite, Past
    <3> QED BY <2>1, <2>4, <3>6, MsiPartsNext DEF MsiOff
  <2> QED BY <2>3, <2>4
<1>5. CASE UNCHANGED vars
  <2>1. io' = io /\ h' = h /\ m' = m /\ up' = up
    BY <1>5 DEF vars
  <2> QED BY <1>0, <2>1 DEF MsiInv, IsWrite
<1> QED BY <1>1, <1>2, <1>3, <1>4, <1>5, Steps

=============================================================================

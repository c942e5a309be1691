-------------------------- MODULE BoardModuleProofs --------------------------
(***************************************************************************)
(* The module's side of BoardTransport: what it has on the link, counted,  *)
(* and the stages of its work.                                             *)
(***************************************************************************)
EXTENDS BoardTransportInv, TLAPS

-----------------------------------------------------------------------------
(* Sequences. *)

\* Taking the head of a sequence moves the others up by one.
LEMMA Popped ==
  ASSUME NEW S, NEW s \in Seq(S), s # <<>>
  PROVE  /\ Tail(s) \in Seq(S) /\ Head(s) = s[1] /\ Head(s) \in S /\ 1 \in DOMAIN s
         /\ Len(s) \in Nat \ {0} /\ DOMAIN s = 1 .. Len(s)
         /\ DOMAIN Tail(s) = 1 .. Len(s) - 1 /\ Len(Tail(s)) = Len(s) - 1
         /\ \A i \in DOMAIN Tail(s) : i + 1 \in DOMAIN s /\ Tail(s)[i] = s[i + 1] /\ Tail(s)[i] \in S
         /\ \A i \in DOMAIN s : i # 1 => i - 1 \in DOMAIN Tail(s) /\ Tail(s)[i - 1] = s[i]
  OBVIOUS

LEMMA Appended ==
  ASSUME NEW S, NEW s \in Seq(S), NEW x \in S
  PROVE  /\ Append(s, x) \in Seq(S) /\ DOMAIN s = 1 .. Len(s) /\ Len(s) \in Nat
         /\ DOMAIN Append(s, x) = 1 .. Len(s) + 1 /\ Len(Append(s, x)) = Len(s) + 1
         /\ \A i \in DOMAIN s : Append(s, x)[i] = s[i]
         /\ Append(s, x)[Len(s) + 1] = x
  OBVIOUS

-----------------------------------------------------------------------------
(* Errands. *)

LEMMA MessageShape ==
  \A x \in Messages :
    /\ x.op \in {"write", "read", "flr", "back", "go"}
    /\ x.op \in {"write", "read", "flr"} => x \in Controls
    /\ x.op = "go" => x \in Results("go") \cup Records("go")
    /\ x.op = "back" => x \in Backs
<1> TAKE x \in Messages
<1>1. CASE x \in Controls
  <2>1. x = Flr => x.op = "flr"
    BY DEF Flr
  <2>2. x.op \in {"write", "read", "flr"}
    BY <1>1, <2>1 DEF Controls
  <2> QED BY <1>1, <2>2
<1>2. CASE x \in Results("go") \cup Records("go")
  BY <1>2 DEF Results, Records
<1>3. CASE x \in Backs
  BY <1>3 DEF Backs
<1> QED BY <1>1, <1>2, <1>3 DEF Messages

LEMMA LineShape ==
  \A x \in Lines :
    /\ x.op \in {"ItoMWr", "RdCurr"}
    /\ x.op = "ItoMWr" => x \in Results("ItoMWr") \cup Records("ItoMWr")
    /\ x.op = "RdCurr" => x \in Reads
  BY DEF Lines, Results, Records, Reads

\* Which errand a line or a message is on.
LEMMA ErrandIs ==
  ASSUME NEW x, NEW j, NEW k
  PROVE  /\ x \in Records("ItoMWr") \cup Records("go") => (Errand(x, j, k) <=> k = 0)
         /\ x \in Results("ItoMWr") \cup Results("go") => x.line \in 1 .. 2 /\ (Errand(x, j, k) <=> k = x.line)
         /\ x \in Reads \cup Backs => (Errand(x, j, k) <=> x.job = j /\ k = 3)
         /\ x.op \in {"write", "read", "flr"} => ~Errand(x, j, k)
<1>1. x \in Records("ItoMWr") \cup Records("go") => (Errand(x, j, k) <=> k = 0)
  BY DEF Records, Errand
<1>2. x \in Results("ItoMWr") \cup Results("go") => x.line \in 1 .. 2 /\ (Errand(x, j, k) <=> k = x.line)
  BY DEF Results, Errand
<1>3. x \in Reads \cup Backs => (Errand(x, j, k) <=> x.job = j /\ k = 3)
  BY DEF Reads, Backs, Errand
<1> QED BY <1>1, <1>2, <1>3 DEF Errand

LEMMA PopErrand ==
  ASSUME NEW s \in Seq(Messages), s # <<>>, NEW w, NEW j, RunsOnce(s, w, j)
  PROVE  /\ RunsOnce(Tail(s), w, j)
         /\ \A k \in 0 .. 3 : Runs(Tail(s), w, j, k) <=> Runs(s, w, j, k) /\ ~Errand(Head(s), j, k)
<1>1. RunsOnce(Tail(s), w, j)
  BY Popped DEF RunsOnce
<1>2. ASSUME NEW k \in 0 .. 3
      PROVE  Runs(Tail(s), w, j, k) <=> Runs(s, w, j, k) /\ ~Errand(Head(s), j, k)
  <2>1. Errand(Head(s), j, k) => ~Runs(Tail(s), w, j, k)
    BY Popped DEF RunsOnce, Runs
  <2>2. Runs(Tail(s), w, j, k) => Runs(s, w, j, k)
    BY Popped DEF Runs
  <2>3. ASSUME Runs(s, w, j, k), ~Errand(Head(s), j, k) PROVE Runs(Tail(s), w, j, k)
    <3>1. CASE \E l \in w : Errand(l, j, k)
      BY <3>1 DEF Runs
    <3>2. ASSUME NEW i \in DOMAIN s, Errand(s[i], j, k) PROVE Runs(Tail(s), w, j, k)
      <4>1. i - 1 \in DOMAIN Tail(s) /\ Tail(s)[i - 1] = s[i]
        BY <2>3, <3>2, Popped
      <4> QED BY <3>2, <4>1 DEF Runs
    <3> QED BY <2>3, <3>1, <3>2 DEF Runs
  <2> QED BY <2>1, <2>2, <2>3
<1> QED BY <1>1, <1>2

LEMMA AddErrand ==
  ASSUME NEW s \in Seq(Messages), NEW w, NEW j, NEW x, RunsOnce(s, w, j),
         \A k \in 0 .. 3 : Errand(x, j, k) => ~Runs(s, w, j, k)
  PROVE  /\ RunsOnce(s, w \cup {x}, j)
         /\ \A k \in 0 .. 3 : Runs(s, w \cup {x}, j, k) <=> Runs(s, w, j, k) \/ Errand(x, j, k)
<1>1. RunsOnce(s, w \cup {x}, j)
  BY DEF RunsOnce, Runs
<1>2. \A k \in 0 .. 3 : Runs(s, w \cup {x}, j, k) <=> Runs(s, w, j, k) \/ Errand(x, j, k)
  BY DEF Runs
<1> QED BY <1>1, <1>2

LEMMA SendErrand ==
  ASSUME NEW s \in Seq(Messages), NEW w, NEW j, NEW x \in Messages, RunsOnce(s, w, j),
         x.op \in {"write", "read", "flr"}
  PROVE  /\ RunsOnce(Append(s, x), w, j)
         /\ \A k \in 0 .. 3 : Runs(Append(s, x), w, j, k) <=> Runs(s, w, j, k)
<1>1. \A k \in 0 .. 3 : ~Errand(x, j, k)
  BY DEF Errand
<1>2. RunsOnce(Append(s, x), w, j)
  BY <1>1, Appended DEF RunsOnce
<1>3. \A k \in 0 .. 3 : Runs(Append(s, x), w, j, k) <=> Runs(s, w, j, k)
  BY <1>1, Appended DEF Runs
<1> QED BY <1>2, <1>3

LEMMA MoveErrand ==
  ASSUME NEW s \in Seq(Messages), NEW w, NEW j, NEW l \in w, NEW y \in Messages,
         RunsOnce(s, w, j), \A k \in 0 .. 3 : Errand(y, j, k) <=> Errand(l, j, k)
  PROVE  /\ RunsOnce(Append(s, y), w \ {l}, j)
         /\ \A k \in 0 .. 3 : Runs(Append(s, y), w \ {l}, j, k) <=> Runs(s, w, j, k)
<1>2. RunsOnce(Append(s, y), w \ {l}, j)
  BY Appended DEF RunsOnce
<1>3. ASSUME NEW k \in 0 .. 3 PROVE Runs(Append(s, y), w \ {l}, j, k) <=> Runs(s, w, j, k)
  <2>1. Errand(l, j, k) => Runs(Append(s, y), w \ {l}, j, k) /\ Runs(s, w, j, k)
    <3> HAVE Errand(l, j, k)
    <3>1. Len(s) + 1 \in DOMAIN Append(s, y) /\ Errand(Append(s, y)[Len(s) + 1], j, k)
      BY Appended
    <3> QED BY <3>1 DEF Runs
  <2>2. ~Errand(l, j, k) => (Runs(Append(s, y), w \ {l}, j, k) <=> Runs(s, w, j, k))
    BY Appended DEF Runs
  <2> QED BY <2>1, <2>2
<1> QED BY <1>2, <1>3

\* A new job has none of the old one's reads.
LEMMA NewJobErrand ==
  ASSUME NEW s \in Seq(Messages), NEW w \in SUBSET Lines, NEW j \in Nat, RunsOnce(s, w, j),
         \A l \in w : l.job <= j,
         \A i \in DOMAIN s : s[i].op \in {"back", "go"} => s[i].job <= j
  PROVE  /\ RunsOnce(s, w, j + 1)
         /\ \A k \in 0 .. 2 : Runs(s, w, j + 1, k) <=> Runs(s, w, j, k)
         /\ ~Runs(s, w, j + 1, 3)
<1>1. ASSUME NEW l \in w, NEW k \in 0 .. 3 PROVE Errand(l, j + 1, k) <=> k # 3 /\ Errand(l, j, k)
  <2>1. CASE l \in Records("ItoMWr")
    BY <2>1, ErrandIs
  <2>2. CASE l \in Results("ItoMWr")
    BY <2>2, ErrandIs
  <2>3. CASE l \in Reads
    <3>1. l.job \in Nat
      BY <2>3 DEF Reads
    <3> QED BY <2>3, <3>1, ErrandIs
  <2> QED BY <2>1, <2>2, <2>3 DEF Lines
<1>2. ASSUME NEW i \in DOMAIN s, NEW k \in 0 .. 3
      PROVE  Errand(s[i], j + 1, k) <=> k # 3 /\ Errand(s[i], j, k)
  <2>0. s[i] \in Messages
    OBVIOUS
  <2>1. CASE s[i] \in Records("go")
    BY <2>1, ErrandIs
  <2>2. CASE s[i] \in Results("go")
    BY <2>2, ErrandIs
  <2>3. CASE s[i] \in Backs
    <3>1. s[i].job \in Nat /\ s[i].op = "back"
      BY <2>3 DEF Backs
    <3> QED BY <2>3, <3>1, ErrandIs
  <2>4. CASE s[i].op \in {"write", "read", "flr"}
    BY <2>4, ErrandIs
  <2> QED BY <2>0, <2>1, <2>2, <2>3, <2>4, MessageShape
<1>3. RunsOnce(s, w, j + 1)
  BY <1>1, <1>2 DEF RunsOnce
<1>4. \A k \in 0 .. 3 : Runs(s, w, j + 1, k) <=> k # 3 /\ Runs(s, w, j, k)
  BY <1>1, <1>2 DEF Runs
<1> QED BY <1>3, <1>4

-----------------------------------------------------------------------------
(* What can happen to a message that arrives. *)

\* The message at the head is taken; the host is not concerned.
Pop == io # <<>> /\ io' = Tail(io) /\ UNCHANGED <<script, slot, res, cmd, ended, h>>

Msg == Head(io)

\* A write a wedged module does not take; a line a dropped command asked for.
Ignored ==
  /\ Pop /\ UNCHANGED <<m, g, wire, up>>
  /\ (Msg.op = "write" /\ m.wedged) \/ (Msg.op = "back" /\ Msg.job # m.job)

\* PTQ_CTRL: start the queue, stop it, or neither.
StartQueue ==
  /\ Pop /\ Starts(Msg) /\ ~m.wedged /\ ~m.enable
  /\ Kick([m EXCEPT !.irq_en = Msg.val.irq, !.enable = TRUE, !.enabled = TRUE, !.head = m.tail,
                    !.prev = "none", !.halted = FALSE], wire)
  /\ UNCHANGED <<g, up>>
StopQueue ==
  /\ Pop /\ Stops(Msg) /\ ~m.wedged /\ m.enable
  /\ m' = Settle([m EXCEPT !.irq_en = Msg.val.irq, !.enable = FALSE, !.job = m.job + 1,
                           !.busy = FALSE, !.draining = TRUE])
  /\ g' = Idle
  /\ UNCHANGED <<wire, up>>
SameQueue ==
  /\ Pop /\ IsWrite(Msg, "CTRL") /\ ~m.wedged /\ Msg.val.en = m.enable
  /\ m' = [m EXCEPT !.irq_en = Msg.val.irq]
  /\ UNCHANGED <<g, wire, up>>

\* PTQ_TAIL: where the ring starts, or a doorbell, good or bad.
TailOff ==
  /\ Pop /\ IsWrite(Msg, "TAIL") /\ ~m.wedged /\ ~m.enable
  /\ m' = [m EXCEPT !.tail = Msg.val]
  /\ UNCHANGED <<g, wire, up>>
TailOn ==
  /\ Pop /\ IsWrite(Msg, "TAIL") /\ ~m.wedged /\ m.enable
  /\ Msg.val - m.head \in 0 .. RingSize /\ ~(Msg.val < m.tail)
  /\ Kick([m EXCEPT !.tail = Msg.val], wire)
  /\ UNCHANGED <<g, up>>
TailBad ==
  /\ Pop /\ IsWrite(Msg, "TAIL") /\ ~m.wedged /\ m.enable
  /\ Msg.val - m.head \notin 0 .. RingSize \/ Msg.val < m.tail
  /\ m' = [m EXCEPT !.halted = TRUE]
  /\ UNCHANGED <<g, wire, up>>

\* The other registers.
SetRing ==
  /\ Pop /\ IsWrite(Msg, "RING") /\ ~m.wedged
  /\ m' = IF m.enable THEN m ELSE [m EXCEPT !.ring = TRUE]
  /\ UNCHANGED <<g, wire, up>>
SetIrqAt ==
  /\ Pop /\ IsWrite(Msg, "IRQ_AT") /\ ~m.wedged
  /\ m' = [m EXCEPT !.irq_at = Msg.val]
  /\ UNCHANGED <<g, wire, up>>
TakeSeed ==
  /\ Pop /\ IsWrite(Msg, "SEED") /\ ~m.wedged
  /\ m' = [m EXCEPT !.seed = Msg.val, !.gemm_ct = 0]
  /\ UNCHANGED <<g, wire, up>>

Answer ==
  /\ Pop /\ Msg.op = "read"
  /\ up' = Append(up, [op |-> Msg.reg, val |-> IF Msg.reg = "STATUS" THEN m.enabled ELSE m.head])
  /\ UNCHANGED <<m, g, wire>>
TakeFlr ==
  /\ Pop /\ Msg.op = "flr"
  /\ m' = ResetState(m.gen + 1)
  /\ UNCHANGED <<g, up, wire>>

\* The descriptor: the module wedges, ends the command at once, or starts it.
IsDescriptor == Pop /\ Msg.op = "back" /\ Msg.job = m.job /\ Msg.what = "desc" /\ UNCHANGED up
Wedge ==
  /\ IsDescriptor
  /\ m' = [m EXCEPT !.wedged = TRUE]
  /\ UNCHANGED <<g, wire>>
EndsEarly(status) ==
  /\ IsDescriptor
  /\ CASE status = "not_issued" -> ~Usable(Msg.cmd)
       [] status = "refused" -> Usable(Msg.cmd) /\ cmd[Msg.cmd].kind = "badbank"
       [] status = "not_run" -> Usable(Msg.cmd) /\ MustNotRun(Msg.cmd)
  /\ m' = [m EXCEPT !.inflight = @ + 1]
  /\ wire' = wire \cup {RecordLine(m, Msg.idx, Msg.cmd, status, None)}
  /\ UNCHANGED g
StartGemm ==
  /\ IsDescriptor
  /\ Usable(Msg.cmd) /\ cmd[Msg.cmd].kind # "badbank" /\ ~MustNotRun(Msg.cmd)
  /\ m' = [m EXCEPT !.gemm_ct = @ + 1]
  /\ g' = [Idle EXCEPT !.pc = "operands", !.idx = Msg.idx, !.cmd = Msg.cmd, !.job = m.job,
                       !.seed = m.seed, !.index = m.gemm_ct]
  /\ wire' = wire \cup {ReadLine(m, "operands", Msg.idx)}
Operands ==
  /\ Pop /\ Msg.op = "back" /\ Msg.job = m.job /\ Msg.what = "operands"
  /\ g' = [g EXCEPT !.pc = "shots"]
  /\ UNCHANGED <<m, wire, up>>

\* A line is ordered: of a command dropped since; the record; a line of results, the
\* last or not.
Dropped ==
  /\ Pop /\ Msg.op = "go" /\ (Msg.what = "rec" => ~m.enable \/ Msg.job # m.job)
  /\ Msg.what = "res" => Msg.job # m.job
  /\ m' = Settle([m EXCEPT !.inflight = @ - 1, !.busy = IF Msg.what = "rec" THEN FALSE ELSE @])
  /\ UNCHANGED <<g, up, wire>>
NextSlot ==
  LET past == [m EXCEPT !.inflight = @ - 1, !.busy = FALSE, !.head = Msg.idx + 1, !.prev = Msg.status] IN
  /\ Pop /\ IsRecord(Msg) /\ Msg.job = m.job /\ m.enable
  /\ Kick(past, wire)
  /\ up' = up \o Msi(past)
  /\ UNCHANGED g
OneOrdered ==
  /\ Pop /\ Msg.op = "go" /\ Msg.what = "res" /\ Msg.job = m.job
  /\ g' = [g EXCEPT !.ordered = @ + 1]
  /\ ~AllOrdered(g')
  /\ m' = [m EXCEPT !.inflight = @ - 1]
  /\ UNCHANGED <<wire, up>>
LastOrdered ==
  LET mm == [m EXCEPT !.inflight = @ - 1] IN
  /\ Pop /\ Msg.op = "go" /\ Msg.what = "res" /\ Msg.job = m.job
  /\ g' = [g EXCEPT !.ordered = @ + 1]
  /\ AllOrdered(g')
  /\ m' = [mm EXCEPT !.inflight = @ + 1]
  /\ wire' = wire \cup {RecordLine(mm, g.idx, g.cmd, "done", g.index)}
  /\ UNCHANGED up

ArriveSteps ==
  \/ Ignored \/ StartQueue \/ StopQueue \/ SameQueue \/ TailOff \/ TailOn \/ TailBad
  \/ SetRing \/ SetIrqAt \/ TakeSeed \/ Answer \/ TakeFlr
  \/ Wedge \/ (\E s \in Failed : EndsEarly(s)) \/ StartGemm \/ Operands
  \/ Dropped \/ NextSlot \/ OneOrdered \/ LastOrdered

LEMMA HeadTyped ==
  ASSUME TypeOK, io # <<>>
  PROVE  Msg \in Messages /\ Msg = io[1] /\ 1 \in DOMAIN io
  BY Popped DEF TypeOK, Msg

\* An arrival is one of these: all that arrives is of this generation.
LEMMA ArriveIs ==
  ASSUME TypeOK, JobInv, Arrive
  PROVE  ArriveSteps
<1>1. Pop /\ io # <<>>
  BY DEF Arrive, Pop
<1>2. Msg \in Messages /\ (Msg.op \in {"back", "go"} => Msg.gen = m.gen)
  BY <1>1, HeadTyped DEF JobInv, OfJob
<1>3. ASSUME Write(Msg) PROVE ArriveSteps
  <2>1. CASE m.wedged
    BY <1>1, <1>3, <2>1 DEF Write, ArriveSteps, Ignored
  <2>2. CASE ~m.wedged /\ Msg.reg = "CTRL"
    BY <1>1, <1>3, <2>2
    DEF Write, WriteCtrl, ArriveSteps, StartQueue, StopQueue, SameQueue, IsWrite, Starts, Stops
  <2>3. CASE ~m.wedged /\ Msg.reg = "TAIL"
    BY <1>1, <1>3, <2>3 DEF Write, WriteTail, ArriveSteps, TailOff, TailOn, TailBad, IsWrite
  <2>4. CASE ~m.wedged /\ Msg.reg \in {"RING", "IRQ_AT", "SEED"}
    BY <1>1, <1>3, <2>4
    DEF Write, NewSeed, ArriveSteps, SetRing, SetIrqAt, TakeSeed, IsWrite
  <2> QED BY <1>3, <2>1, <2>2, <2>3, <2>4 DEF Write
<1>4. ASSUME Read(Msg) PROVE ArriveSteps
  BY <1>1, <1>4 DEF Read, ArriveSteps, Answer
<1>5. ASSUME FunctionReset(Msg) PROVE ArriveSteps
  BY <1>1, <1>5 DEF FunctionReset, ArriveSteps, TakeFlr
<1>6. ASSUME Back(Msg) PROVE ArriveSteps
  <2>1. CASE Msg.job # m.job
    BY <1>1, <1>2, <1>6, <2>1 DEF Back, ArriveSteps, Ignored
  <2>2. CASE Msg.job = m.job /\ Msg.what = "operands"
    BY <1>1, <1>2, <1>6, <2>2 DEF Back, ArriveSteps, Operands
  <2>3. CASE Msg.job = m.job /\ Msg.what = "desc"
    <3>1. GotDescriptor(Msg.idx, Msg.cmd) /\ IsDescriptor
      BY <1>1, <1>2, <1>6, <2>3 DEF Back, IsDescriptor
    <3>2. CASE Wedge \/ StartGemm
      BY <3>2 DEF ArriveSteps
    <3>3. CASE \E s \in Failed : EndsEarly(s)
      BY <3>3 DEF ArriveSteps
    <3> QED BY <3>1, <3>2, <3>3 DEF GotDescriptor, Wedge, StartGemm, EndsEarly, End, Failed
  <2> QED BY <1>2, <1>6, <2>1, <2>2, <2>3 DEF Back
<1>7. ASSUME Go(Msg) PROVE ArriveSteps
  <2>0. Msg \in Results("go") \cup Records("go") /\ Msg.gen = m.gen
    BY <1>2, <1>7, MessageShape DEF Go
  <2>1. CASE Msg.what = "rec"
    <3> DEFINE mm == [m EXCEPT !.inflight = @ - 1]
               free == [mm EXCEPT !.busy = FALSE]
               past == [free EXCEPT !.head = Msg.idx + 1, !.prev = Msg.status]
    <3>1. free = [m EXCEPT !.inflight = @ - 1, !.busy = IF Msg.what = "rec" THEN FALSE ELSE @]
      BY <2>1
    <3>2. past = [m EXCEPT !.inflight = @ - 1, !.busy = FALSE, !.head = Msg.idx + 1, !.prev = Msg.status]
      OBVIOUS
    <3>3. Msg.op = "go" /\ Ended(mm, Msg) /\ UNCHANGED g
      BY <1>7, <2>0, <2>1 DEF Go
    <3>4. CASE Msg.job # m.job \/ ~m.enable
      <4>1. m' = Settle(free) /\ UNCHANGED <<up, wire>>
        BY <3>3, <3>4 DEF Ended
      <4> HIDE DEF free
      <4> QED BY <1>1, <2>1, <3>1, <3>3, <3>4, <4>1 DEF ArriveSteps, Dropped
    <3>5. CASE Msg.job = m.job /\ m.enable
      <4>1. Kick(past, wire) /\ up' = up \o Msi(past)
        BY <3>3, <3>5 DEF Ended
      <4> HIDE DEF past
      <4> QED BY <1>1, <2>1, <3>2, <3>3, <3>5, <4>1 DEF ArriveSteps, NextSlot, IsRecord
    <3> QED BY <3>4, <3>5 DEF TypeOK
  <2>2. CASE Msg.what = "res"
    <3> DEFINE mm == [m EXCEPT !.inflight = @ - 1]
    <3>1. mm = [m EXCEPT !.inflight = @ - 1, !.busy = IF Msg.what = "rec" THEN FALSE ELSE @]
      BY <2>2 DEF TypeOK, ModuleStates
    <3>2. Msg.op = "go" /\ UNCHANGED up
      BY <1>7, <2>0, <2>2 DEF Go
    <3>3. CASE Msg.job # m.job
      <4>1. m' = Settle(mm) /\ UNCHANGED <<g, wire>>
        BY <1>7, <2>0, <2>2, <3>3 DEF Go
      <4> HIDE DEF mm
      <4> QED BY <1>1, <2>2, <3>1, <3>2, <3>3, <4>1 DEF ArriveSteps, Dropped
    <3>4. CASE Msg.job = m.job
      BY <1>1, <1>7, <2>0, <2>2, <3>2, <3>4 DEF Go, End, ArriveSteps, OneOrdered, LastOrdered
    <3> QED BY <3>3, <3>4
  <2> QED BY <2>0, <2>1, <2>2 DEF Results, Records
<1> QED BY <1>3, <1>4, <1>5, <1>6, <1>7 DEF Arrive, Msg

-----------------------------------------------------------------------------
(* What the host does to the link. *)

\* What is on the link stays, and n messages come after it.
Keeps(n) ==
  /\ io \in Seq(Messages) /\ io' \in Seq(Messages) /\ Len(io) \in Nat
  /\ DOMAIN io = 1 .. Len(io) /\ DOMAIN io' = 1 .. Len(io) + n /\ Len(io') = Len(io) + n
  /\ \A i \in 1 .. Len(io) : io'[i] = io[i]
At(n) == io'[Len(io) + n]

LEMMA Adds1 ==
  ASSUME TypeOK, NEW x \in Messages, io' = Append(io, x)
  PROVE  Keeps(1) /\ At(1) = x
  BY DEF TypeOK, Keeps, At

LEMMA Adds2 ==
  ASSUME TypeOK, NEW x \in Messages, NEW y \in Messages, io' = io \o <<x, y>>
  PROVE  Keeps(2) /\ At(1) = x /\ At(2) = y
  BY DEF TypeOK, Keeps, At

LEMMA Adds3 ==
  ASSUME TypeOK, NEW x \in Messages, NEW y \in Messages, NEW z \in Messages,
         io' = io \o <<x>> \o <<y, z>>
  PROVE  Keeps(3) /\ At(1) = x /\ At(2) = y /\ At(3) = z
  BY DEF TypeOK, Keeps, At

LEMMA Adds4 ==
  ASSUME TypeOK, NEW x \in Messages, NEW y \in Messages, NEW z \in Messages, NEW w \in Messages,
         io' = io \o <<x, y>> \o <<z, w>>
  PROVE  Keeps(4) /\ At(1) = x /\ At(2) = y /\ At(3) = z /\ At(4) = w
  BY DEF TypeOK, Keeps, At

LEMMA WriteTyped ==
  /\ \A n \in Nat, r \in {"TAIL", "IRQ_AT", "SEED"} :
       W(r, n) \in Messages /\ W(r, n).op = "write" /\ W(r, n).reg = r /\ W(r, n).val = n
  /\ \A e, i \in BOOLEAN :
       LET x == W("CTRL", [en |-> e, irq |-> i]) IN
         x \in Messages /\ x.op = "write" /\ x.reg = "CTRL" /\ x.val.en = e
  /\ W("RING", TRUE) \in Messages /\ W("RING", TRUE).op = "write" /\ W("RING", TRUE).reg = "RING"
  /\ \A r \in {"STATUS", "HEAD"} : R(r) \in Messages /\ R(r).op = "read" /\ R(r).reg = r
  /\ Flr \in Messages /\ Flr.op = "flr"
<1>1. \A n \in Nat, r \in {"TAIL", "IRQ_AT", "SEED"} :
       W(r, n) \in Messages /\ W(r, n).op = "write" /\ W(r, n).reg = r /\ W(r, n).val = n
  BY DEF W, Messages, Controls
<1>2. \A e, i \in BOOLEAN :
       LET x == W("CTRL", [en |-> e, irq |-> i]) IN
         x \in Messages /\ x.op = "write" /\ x.reg = "CTRL" /\ x.val.en = e
  BY DEF W, Messages, Controls
<1>3. W("RING", TRUE) \in Messages /\ W("RING", TRUE).op = "write" /\ W("RING", TRUE).reg = "RING"
  BY DEF W, Messages, Controls
<1>4. \A r \in {"STATUS", "HEAD"} : R(r) \in Messages /\ R(r).op = "read" /\ R(r).reg = r
  BY DEF R, Messages, Controls
<1>5. Flr \in Messages /\ Flr.op = "flr"
  BY DEF Flr, Messages, Controls
<1> QED BY <1>1, <1>2, <1>3, <1>4, <1>5

\* What each of the host's actions sends.
LEMMA HostSends ==
  ASSUME TypeOK
  PROVE  /\ Publish \/ TryEnd \/ Drain \/ Drained \/ TakeMsi \/ Awaited => io' = io
         /\ Ring => Keeps(1) /\ At(1) = W("TAIL", h.next)
         /\ PublishIrq /\ h.irq => Keeps(2) /\ At(1) = W("IRQ_AT", h.next + 1) /\ At(2) = W("TAIL", h.next + 1)
         /\ PublishIrq /\ ~h.irq =>
              /\ Keeps(3) /\ At(1) = W("CTRL", [en |-> TRUE, irq |-> TRUE])
              /\ At(2) = W("IRQ_AT", h.next + 1) /\ At(3) = W("TAIL", h.next + 1)
         /\ IrqOff => Keeps(1) /\ At(1) = W("CTRL", [en |-> TRUE, irq |-> FALSE])
         /\ SetSeed => Keeps(1) /\ At(1) = W("SEED", h.seed + 1)
         /\ DrainTimeout \/ Teardown =>
              Keeps(2) /\ At(1) = W("CTRL", [en |-> FALSE, irq |-> h.irq]) /\ At(2) = R("STATUS")
         /\ StatusBack => /\ Keeps(1)
                          /\ At(1) = IF ~Head(up).val THEN R("HEAD")
                                     ELSE IF h.quiesced THEN Flr ELSE R("STATUS")
         /\ HeadBack => /\ Keeps(2) /\ At(1) = W("TAIL", h.next)
                        /\ At(2) = W("CTRL", [en |-> TRUE, irq |-> h.irq])
         /\ AfterReset => /\ Keeps(4) /\ At(1) = W("RING", TRUE) /\ At(2) = W("SEED", h.seed)
                          /\ At(3) = W("TAIL", h.next) /\ At(4) = W("CTRL", [en |-> TRUE, irq |-> h.irq])
<1>0. /\ W("TAIL", h.next) \in Messages /\ W("TAIL", h.next + 1) \in Messages
      /\ W("IRQ_AT", h.next + 1) \in Messages /\ W("SEED", h.seed) \in Messages
      /\ W("SEED", h.seed + 1) \in Messages /\ io \in Seq(Messages)
  <2>1. h.next \in Nat /\ h.next + 1 \in Nat /\ h.seed \in Nat /\ h.seed + 1 \in Nat /\ io \in Seq(Messages)
    BY SMTT(30) DEF TypeOK, HostStates
  <2> QED BY <2>1, WriteTyped
<1>1. /\ W("CTRL", [en |-> TRUE, irq |-> TRUE]) \in Messages
      /\ W("CTRL", [en |-> TRUE, irq |-> FALSE]) \in Messages
      /\ W("CTRL", [en |-> TRUE, irq |-> h.irq]) \in Messages
      /\ W("CTRL", [en |-> FALSE, irq |-> h.irq]) \in Messages
  BY WriteTyped DEF TypeOK, HostStates
<1>2. R("STATUS") \in Messages /\ R("HEAD") \in Messages /\ Flr \in Messages /\ W("RING", TRUE) \in Messages
  BY WriteTyped
<1>3. Publish \/ TryEnd \/ Drain \/ Drained \/ TakeMsi \/ Awaited => io' = io
  BY DEF Publish, TryEnd, Drain, Drained, TakeMsi, Awaited
<1>4. Ring => Keeps(1) /\ At(1) = W("TAIL", h.next)
  BY <1>0, Adds1 DEF Ring
<1>5. PublishIrq /\ h.irq => Keeps(2) /\ At(1) = W("IRQ_AT", h.next + 1) /\ At(2) = W("TAIL", h.next + 1)
  <2> HAVE PublishIrq /\ h.irq
  <2>1. io' = io \o <<>> \o <<W("IRQ_AT", h.next + 1), W("TAIL", h.next + 1)>>
    BY DEF PublishIrq
  <2>2. io \o <<>> = io
    BY <1>0
  <2> QED BY <1>0, <2>1, <2>2, Adds2
<1>6. PublishIrq /\ ~h.irq =>
              /\ Keeps(3) /\ At(1) = W("CTRL", [en |-> TRUE, irq |-> TRUE])
              /\ At(2) = W("IRQ_AT", h.next + 1) /\ At(3) = W("TAIL", h.next + 1)
  <2> HAVE PublishIrq /\ ~h.irq
  <2> DEFINE x == W("CTRL", [en |-> TRUE, irq |-> TRUE])
             y == W("IRQ_AT", h.next + 1)
             z == W("TAIL", h.next + 1)
  <2>1. x \in Messages /\ y \in Messages /\ z \in Messages /\ io' = io \o <<x>> \o <<y, z>>
    BY <1>0, <1>1 DEF PublishIrq
  <2> HIDE DEF x, y, z
  <2>2. Keeps(3) /\ At(1) = x /\ At(2) = y /\ At(3) = z
    BY <2>1, Adds3
  <2> QED BY <2>2 DEF x, y, z
<1>7. IrqOff => Keeps(1) /\ At(1) = W("CTRL", [en |-> TRUE, irq |-> FALSE])
  BY <1>1, Adds1 DEF IrqOff
<1>8. SetSeed => Keeps(1) /\ At(1) = W("SEED", h.seed + 1)
  BY <1>0, Adds1 DEF SetSeed
<1>9. DrainTimeout \/ Teardown =>
              Keeps(2) /\ At(1) = W("CTRL", [en |-> FALSE, irq |-> h.irq]) /\ At(2) = R("STATUS")
  BY <1>1, <1>2, Adds2 DEF DrainTimeout, Teardown, Disable
<1>10. StatusBack => /\ Keeps(1)
                     /\ At(1) = IF ~Head(up).val THEN R("HEAD")
                                ELSE IF h.quiesced THEN Flr ELSE R("STATUS")
  <2> HAVE StatusBack
  <2>1. CASE ~Head(up).val
    BY <1>2, <2>1, Adds1 DEF StatusBack
  <2>2. CASE Head(up).val /\ h.quiesced
    BY <1>2, <2>2, Adds1 DEF StatusBack
  <2>3. CASE Head(up).val /\ ~h.quiesced
    BY <1>2, <2>3, Adds1 DEF StatusBack
  <2> QED BY <2>1, <2>2, <2>3
<1>11. HeadBack => /\ Keeps(2) /\ At(1) = W("TAIL", h.next)
                   /\ At(2) = W("CTRL", [en |-> TRUE, irq |-> h.irq])
  BY <1>0, <1>1, Adds2 DEF HeadBack, RestartQueue
<1>12. AfterReset => /\ Keeps(4) /\ At(1) = W("RING", TRUE) /\ At(2) = W("SEED", h.seed)
                     /\ At(3) = W("TAIL", h.next) /\ At(4) = W("CTRL", [en |-> TRUE, irq |-> h.irq])
  <2> HAVE AfterReset
  <2> DEFINE x == W("RING", TRUE)
             y == W("SEED", h.seed)
             z == W("TAIL", h.next)
             w == W("CTRL", [en |-> TRUE, irq |-> h.irq])
  <2>1. x \in Messages /\ y \in Messages /\ z \in Messages /\ w \in Messages
    BY <1>0, <1>1, <1>2
  <2>2. io' = io \o <<x, y>> \o <<z, w>>
    BY DEF AfterReset, RestartQueue
  <2> HIDE DEF x, y, z, w
  <2>3. Keeps(4) /\ At(1) = x /\ At(2) = y /\ At(3) = z /\ At(4) = w
    BY <2>1, <2>2, Adds4
  <2> QED BY <2>3 DEF x, y, z, w
<1> QED BY <1>3, <1>4, <1>5, <1>6, <1>7, <1>8, <1>9, <1>10, <1>11, <1>12

\* The host leaves the module alone, and all it sends are writes, reads and resets.
HostSent ==
  /\ io \in Seq(Messages) /\ io' \in Seq(Messages) /\ Len(io) \in Nat /\ Len(io') \in Nat
  /\ DOMAIN io = 1 .. Len(io) /\ DOMAIN io' = 1 .. Len(io') /\ Len(io) <= Len(io')
  /\ \A i \in DOMAIN io : i \in DOMAIN io' /\ io'[i] = io[i]
  /\ \A i \in DOMAIN io' : i \notin DOMAIN io => io'[i].op \in {"write", "read", "flr"}
  /\ UNCHANGED <<m, g, wire, script>>

LEMMA HostSentLemma ==
  ASSUME TypeOK, HostNext
  PROVE  HostSent
<1>0. io \in Seq(Messages)
  BY DEF TypeOK
<1>1. UNCHANGED <<m, g, wire, script>>
  BY DEF HostNext, Publish, PublishIrq, Store, Ring, IrqOff, SetSeed, TryEnd, Drain, Drained, TakeMsi,
     Awaited, DrainTimeout, Teardown, Disable, StatusBack, HeadBack, AfterReset
<1>2. CASE Publish \/ TryEnd \/ Drain \/ Drained \/ TakeMsi \/ Awaited
  <2>1. io' = io
    BY <1>2, HostSends
  <2> QED BY <1>0, <1>1, <2>1 DEF HostSent
<1>3. CASE Ring \/ IrqOff \/ SetSeed
  <2>1. Keeps(1) /\ At(1).op = "write"
    BY <1>3, HostSends DEF W
  <2> QED BY <1>1, <2>1 DEF HostSent, Keeps, At
<1>4. CASE StatusBack
  <2>1. Keeps(1) /\ At(1).op \in {"read", "flr"}
    BY <1>4, HostSends DEF R, Flr
  <2> QED BY <1>1, <2>1 DEF HostSent, Keeps, At
<1>5. CASE DrainTimeout \/ Teardown \/ HeadBack \/ (PublishIrq /\ h.irq)
  <2>1. Keeps(2) /\ At(1).op = "write" /\ At(2).op \in {"write", "read"}
    BY <1>5, HostSends DEF W, R
  <2> QED BY <1>1, <2>1 DEF HostSent, Keeps, At
<1>6. CASE PublishIrq /\ ~h.irq
  <2>1. Keeps(3) /\ At(1).op = "write" /\ At(2).op = "write" /\ At(3).op = "write"
    BY <1>6, HostSends DEF W
  <2> QED BY <1>1, <2>1 DEF HostSent, Keeps, At
<1>7. CASE AfterReset
  <2>1. Keeps(4) /\ At(1).op = "write" /\ At(2).op = "write" /\ At(3).op = "write" /\ At(4).op = "write"
    BY <1>7, HostSends DEF W
  <2> QED BY <1>1, <2>1 DEF HostSent, Keeps, At
<1> QED BY <1>2, <1>3, <1>4, <1>5, <1>6, <1>7 DEF HostNext

-----------------------------------------------------------------------------
(* Types. *)

LEMMA SlotRange == \A i \in Int : SlotOf(i) \in 0 .. RingSize - 1 /\ SlotOf(i) \in Int
  BY TransportAssumption DEF SlotOf

LEMMA LinesOf == \A k : OutLines(k) \in 1 .. 2
  BY DEF OutLines

\* The message at the head is gone and the others have moved up.
Shifted ==
  /\ io \in Seq(Messages) /\ io' \in Seq(Messages) /\ Len(io) \in Nat \ {0}
  /\ DOMAIN io = 1 .. Len(io) /\ DOMAIN io' = 1 .. Len(io) - 1 /\ Len(io') = Len(io) - 1
  /\ Msg = io[1] /\ Msg \in Messages /\ 1 \in DOMAIN io
  /\ \A i \in DOMAIN io' : i + 1 \in DOMAIN io /\ io'[i] = io[i + 1]
  /\ \A i \in DOMAIN io : i # 1 => i - 1 \in DOMAIN io' /\ io'[i - 1] = io[i]

LEMMA PopShifts == ASSUME TypeOK, Pop PROVE Shifted
<1>1. io \in Seq(Messages) /\ io # <<>> /\ io' = Tail(io)
  BY DEF TypeOK, Pop
<1> QED BY <1>1, Popped DEF Shifted, Msg

LEMMA SlotAddrTyped ==
  ASSUME NEW mm, NEW i \in Int
  PROVE  SlotAddr(mm, i) \in Int
  BY SlotRange DEF SlotAddr, None

LEMMA ReadLineTyped ==
  ASSUME NEW mm \in ModuleStates, NEW i \in Int, NEW what \in {"desc", "operands"}
  PROVE  ReadLine(mm, what, i) \in Reads
<1>1. SlotAddr(mm, i) \in Int
  BY SlotAddrTyped
<1> QED BY <1>1 DEF ReadLine, Reads, ModuleStates

LEMMA RecordLineTyped ==
  ASSUME NEW mm \in ModuleStates, NEW i \in Int, NEW c \in Int, NEW s \in Statuses, NEW n \in Int
  PROVE  RecordLine(mm, i, c, s, n) \in Records("ItoMWr")
<1>1. SlotAddr(mm, i) \in Int
  BY SlotAddrTyped
<1> QED BY <1>1 DEF RecordLine, Records, ModuleStates

LEMMA KickTyped ==
  ASSUME NEW mm \in ModuleStates, wire \subseteq Lines, Kick(mm, wire)
  PROVE  m' \in ModuleStates /\ wire' \subseteq Lines
<1>1. ReadLine(mm, "desc", mm.head) \in Lines
  BY ReadLineTyped DEF ModuleStates, Lines
<1>2. [mm EXCEPT !.busy = TRUE] \in ModuleStates
  BY DEF ModuleStates
<1> QED BY <1>1, <1>2 DEF Kick

LEMMA SettleTyped ==
  ASSUME NEW mm \in ModuleStates
  PROVE  Settle(mm) \in ModuleStates
  BY ZenonT(60) DEF Settle, ModuleStates

\* An arrival keeps the types.
LEMMA ArriveTypes ==
  ASSUME TypeOK, StageInv, StatusInv, ReadInv, ArriveSteps
  PROVE  TypeOK'
<1>0. Pop /\ Shifted
  BY PopShifts DEF ArriveSteps, Ignored, StartQueue, StopQueue, SameQueue, TailOff, TailOn, TailBad,
     SetRing, SetIrqAt, TakeSeed, Answer, TakeFlr, Wedge, EndsEarly, StartGemm, IsDescriptor, Operands,
     Dropped, NextSlot, OneOrdered, LastOrdered
<1>1. SUFFICES m' \in ModuleStates /\ g' \in Works /\ wire' \subseteq Lines /\ up' \in Seq(Answers)
  BY <1>0 DEF TypeOK, Pop, Shifted, Cmds, NumCmds
<1>t. m \in ModuleStates /\ g \in Works /\ wire \subseteq Lines /\ up \in Seq(Answers)
  BY DEF TypeOK
<1>a. m \in ModuleStates
  BY DEF TypeOK
<1>b. g \in Works
  BY DEF TypeOK
<1>n. /\ m.job + 1 \in Nat /\ m.inflight + 1 \in Int /\ m.inflight - 1 \in Int /\ m.gemm_ct + 1 \in Nat
      /\ m.head + 1 \in Nat /\ m.gen + 1 \in Nat /\ m.gemm_ct \in Int /\ m.seed \in Int /\ m.job \in Nat
  BY <1>a DEF ModuleStates
<1>o. g.ordered + 1 \in Nat
  BY <1>b DEF Works
<1>m. /\ Msg \in Messages
      /\ Msg.op = "write" => /\ Msg.reg \in {"TAIL", "IRQ_AT", "SEED"} => Msg.val \in Nat
                             /\ Msg.reg = "CTRL" => Msg.val.irq \in BOOLEAN
      /\ Msg.op = "read" => Msg.reg \in {"STATUS", "HEAD"}
      /\ Msg.op = "back" => Msg.idx \in Int /\ Msg.cmd \in Int
      /\ IsRecord(Msg) => Msg.idx \in Int /\ Msg.status \in Statuses
  <2>0. Msg \in Messages
    BY <1>0 DEF Shifted
  <2>1. Msg.op = "write" => /\ Msg.reg \in {"TAIL", "IRQ_AT", "SEED"} => Msg.val \in Nat
                            /\ Msg.reg = "CTRL" => Msg.val.irq \in BOOLEAN
    BY <2>0, MessageShape DEF Controls, Flr
  <2>2. Msg.op = "read" => Msg.reg \in {"STATUS", "HEAD"}
    BY <2>0, MessageShape DEF Controls, Flr
  <2>3. Msg.op = "back" => Msg.idx \in Int /\ Msg.cmd \in Int
    BY <2>0, MessageShape DEF Backs
  <2>4. IsRecord(Msg) => Msg.idx \in Int /\ Msg.status \in Statuses
    BY <2>0, MessageShape DEF Records, Results, IsRecord
  <2> QED BY <2>0, <2>1, <2>2, <2>3, <2>4
<1>2. CASE Ignored
  BY <1>t, <1>2 DEF Ignored
<1>3. CASE StartQueue
  <2> DEFINE mm == [m EXCEPT !.irq_en = Msg.val.irq, !.enable = TRUE, !.enabled = TRUE, !.head = m.tail,
                             !.prev = "none", !.halted = FALSE]
  <2>1. mm \in ModuleStates
    BY <1>a, <1>n, <1>3, <1>m DEF StartQueue, Starts, IsWrite, ModuleStates
  <2>2. Kick(mm, wire) /\ UNCHANGED <<g, up>>
    BY <1>t, <1>3 DEF StartQueue
  <2> HIDE DEF mm
  <2> QED BY <1>t, <2>1, <2>2, KickTyped
<1>4. CASE StopQueue
  <2>1. [m EXCEPT !.irq_en = Msg.val.irq, !.enable = FALSE, !.job = m.job + 1,
                           !.busy = FALSE, !.draining = TRUE] \in ModuleStates
    BY ZenonT(60), <1>a, <1>n, <1>4, <1>m DEF StopQueue, Stops, IsWrite, ModuleStates
  <2>2. Idle \in Works
    BY <1>b, <1>n, <1>o DEF Idle, Works, None
  <2> QED BY <1>t, <1>4, <2>1, <2>2, SettleTyped DEF StopQueue
<1>5. CASE SameQueue \/ TailOff \/ SetRing \/ SetIrqAt \/ TakeSeed \/ TailBad
  <2>1. m' \in ModuleStates
    <3>1. CASE SameQueue
      <4>1. Msg.val.irq \in BOOLEAN /\ m' = [m EXCEPT !.irq_en = Msg.val.irq]
        BY <1>m, <3>1 DEF SameQueue, IsWrite
      <4> QED BY <1>a, <4>1 DEF ModuleStates
    <3>2. CASE TailOff \/ SetIrqAt \/ TakeSeed
      <4>1. Msg.val \in Nat
        BY <1>m, <3>2 DEF TailOff, SetIrqAt, TakeSeed, IsWrite
      <4>2. \/ m' = [m EXCEPT !.tail = Msg.val] \/ m' = [m EXCEPT !.irq_at = Msg.val]
            \/ m' = [m EXCEPT !.seed = Msg.val, !.gemm_ct = 0]
        BY <3>2 DEF TailOff, SetIrqAt, TakeSeed
      <4>3. CASE m' = [m EXCEPT !.tail = Msg.val]
        BY <1>a, <4>1, <4>3 DEF ModuleStates
      <4>4. CASE m' = [m EXCEPT !.irq_at = Msg.val]
        BY <1>a, <4>1, <4>4 DEF ModuleStates
      <4>5. CASE m' = [m EXCEPT !.seed = Msg.val, !.gemm_ct = 0]
        BY <1>a, <4>1, <4>5 DEF ModuleStates
      <4> QED BY <4>2, <4>3, <4>4, <4>5
    <3>3. CASE SetRing
      BY <1>a, <3>3 DEF ModuleStates, SetRing
    <3>4. CASE TailBad
      BY <1>a, <3>4 DEF ModuleStates, TailBad
    <3> QED BY <1>5, <3>1, <3>2, <3>3, <3>4
  <2> QED BY <1>t, <1>5, <2>1 DEF SameQueue, TailOff, SetRing, SetIrqAt, TakeSeed, TailBad
<1>6. CASE TailOn
  <2>1. [m EXCEPT !.tail = Msg.val] \in ModuleStates
    BY <1>a, <1>n, <1>6, <1>m DEF TailOn, IsWrite, ModuleStates
  <2> QED BY <1>t, <1>6, <2>1, KickTyped DEF TailOn
<1>7. CASE Answer
  <2>1. [op |-> Msg.reg, val |-> IF Msg.reg = "STATUS" THEN m.enabled ELSE m.head] \in Answers
    <3>1. Msg.reg \in {"STATUS", "HEAD"} /\ m.enabled \in BOOLEAN /\ m.head \in Int
      BY <1>a, <1>7, <1>m DEF Answer, ModuleStates
    <3> QED BY <3>1 DEF Answers
  <2> QED BY <1>t, <1>7, <2>1 DEF Answer
<1>8. CASE TakeFlr
  <2>1. ResetState(m.gen + 1) \in ModuleStates
    BY <1>a, <1>n DEF ResetState, ModuleStates
  <2> QED BY <1>t, <1>8, <2>1 DEF TakeFlr
<1>9. CASE Wedge
  <2>1. m' \in ModuleStates
    BY <1>a, <1>9 DEF Wedge, ModuleStates
  <2> QED BY <1>t, <1>9, <2>1 DEF Wedge, IsDescriptor
<1>10. ASSUME NEW s \in Failed, EndsEarly(s) PROVE m' \in ModuleStates /\ g' \in Works /\ wire' \subseteq Lines /\ up' \in Seq(Answers)
  <2>1. RecordLine(m, Msg.idx, Msg.cmd, s, None) \in Lines
    BY <1>t, <1>10, <1>m, RecordLineTyped DEF EndsEarly, IsDescriptor, Failed, Statuses, None, Lines
  <2>2. m' \in ModuleStates
    BY <1>a, <1>n, <1>10 DEF EndsEarly, ModuleStates
  <2> QED BY <1>t, <1>10, <2>1, <2>2 DEF EndsEarly, IsDescriptor
<1>11. CASE StartGemm
  <2>1. ReadLine(m, "operands", Msg.idx) \in Lines
    BY <1>t, <1>11, <1>m, ReadLineTyped DEF StartGemm, IsDescriptor, Lines
  <2>2. m' \in ModuleStates
    BY <1>a, <1>n, <1>11 DEF StartGemm, ModuleStates
  <2>3. g' \in Works
    BY <1>a, <1>n, <1>11, <1>m DEF StartGemm, IsDescriptor, Works, Idle, ModuleStates
  <2> QED BY <1>t, <1>11, <2>1, <2>2, <2>3 DEF StartGemm, IsDescriptor
<1>12. CASE Operands
  <2>1. g' \in Works
    BY <1>b, <1>n, <1>o, <1>12 DEF Operands, Works
  <2> QED BY <1>t, <1>12, <2>1 DEF Operands
<1>13. CASE Dropped
  <2>1. [m EXCEPT !.inflight = @ - 1, !.busy = IF Msg.what = "rec" THEN FALSE ELSE @] \in ModuleStates
    BY <1>a, <1>n DEF ModuleStates
  <2> QED BY <1>t, <1>13, <2>1, SettleTyped DEF Dropped
<1>14. CASE NextSlot
  <2> DEFINE past == [m EXCEPT !.inflight = @ - 1, !.busy = FALSE, !.head = Msg.idx + 1, !.prev = Msg.status]
  <2>0. IsRecord(Msg) /\ m.enable
    BY <1>t, <1>14 DEF NextSlot
  <2>1. Msg.idx = m.head
    BY <1>t, <1>0, <2>0 DEF StatusInv, Shifted
  <2>2. past \in ModuleStates
    BY <1>a, <1>n, <1>m, <2>0, <2>1 DEF ModuleStates
  <2>3. Msi(past) \in Seq(Answers)
    <3>1. [op |-> "msi"] \in Answers
      BY DEF Answers
    <3> QED BY <3>1 DEF Msi
  <2>4. Kick(past, wire) /\ up' = up \o Msi(past) /\ UNCHANGED g
    BY <1>t, <1>14 DEF NextSlot
  <2> HIDE DEF past
  <2>5. up' \in Seq(Answers)
    BY <1>t, <2>3, <2>4
  <2> QED BY <1>t, <2>2, <2>4, <2>5, KickTyped
<1>15. CASE OneOrdered
  <2>1. m' \in ModuleStates
    BY <1>a, <1>n, <1>15 DEF OneOrdered, ModuleStates
  <2>2. g' \in Works
    BY <1>b, <1>n, <1>o, <1>15 DEF OneOrdered, Works
  <2> QED BY <1>t, <1>15, <2>1, <2>2 DEF OneOrdered
<1>16. CASE LastOrdered
  <2> DEFINE mm == [m EXCEPT !.inflight = @ - 1]
  <2>0. mm \in ModuleStates
    BY <1>a, <1>n DEF ModuleStates
  <2>1. m' \in ModuleStates
    <3>1. m' = [mm EXCEPT !.inflight = @ + 1]
      BY <1>16 DEF LastOrdered
    <3> HIDE DEF mm
    <3>2. mm.inflight + 1 \in Int
      BY <2>0 DEF ModuleStates
    <3> QED BY <2>0, <3>1, <3>2 DEF ModuleStates
  <2>2. g' \in Works
    BY <1>b, <1>n, <1>o, <1>16 DEF LastOrdered, Works
  <2>3. wire' = wire \cup {RecordLine(mm, g.idx, g.cmd, "done", g.index)} /\ UNCHANGED up
    BY <1>t, <1>16 DEF LastOrdered
  <2> HIDE DEF mm
  <2>4. RecordLine(mm, g.idx, g.cmd, "done", g.index) \in Lines
    <3>1. g.idx \in Int /\ g.cmd \in Int /\ g.index \in Int /\ "done" \in Statuses
      BY <1>b DEF Works, Statuses
    <3> QED BY <2>0, <3>1, RecordLineTyped DEF Lines
  <2> QED BY <1>t, <2>1, <2>2, <2>3, <2>4
<1> QED BY <1>2, <1>3, <1>4, <1>5, <1>6, <1>7, <1>8, <1>9, <1>10, <1>11, <1>12, <1>13, <1>14, <1>15, <1>16
        DEF ArriveSteps

\* A line reaches the host.
LEMMA LandTypes ==
  ASSUME TypeOK, NEW l \in wire, Land(l)
  PROVE  TypeOK' /\ Keeps(1) /\ At(1) = [l EXCEPT !.op = "go"]
<1>1. l \in Results("ItoMWr") \cup Records("ItoMWr")
  BY LineShape DEF TypeOK, Land
<1>2. [l EXCEPT !.op = "go"] \in Messages
  BY <1>1 DEF Results, Records, Messages
<1>3. Keeps(1) /\ At(1) = [l EXCEPT !.op = "go"]
  BY <1>2, Adds1 DEF Land
<1>4. slot' \in [0 .. RingSize - 1 -> SlotLines] /\ DOMAIN res' = Cmds
  <2>0. slot \in [0 .. RingSize - 1 -> SlotLines] /\ DOMAIN res = Cmds
    BY DEF TypeOK
  <2>1. CASE l.what = "rec"
    <3>1. l \in Records("ItoMWr")
      BY <1>1, <2>1 DEF Results
    <3>2. [cmd |-> l.cmd, status |-> l.status, index |-> l.index] \in SlotLines
      BY <3>1 DEF Records, SlotLines
    <3> QED BY <2>0, <2>1, <3>2 DEF Land
  <2>2. CASE l.what # "rec"
    BY <2>0, <2>2 DEF Land
  <2> QED BY <2>1, <2>2
<1>5. m' \in ModuleStates /\ g' \in Works /\ h' \in HostStates /\ script' \in Scripts
      /\ up' \in Seq(Answers) /\ wire' \subseteq Lines
      /\ ended' \in [Cmds -> SlotLines] /\ cmd' \in [Cmds -> Published] /\ Cmds' = Cmds
  BY DEF TypeOK, Land, Cmds, NumCmds
<1> QED BY <1>3, <1>4, <1>5 DEF TypeOK, Keeps

LEMMA AtHostTypes ==
  ASSUME TypeOK, NEW l \in wire, AtHost(l)
  PROVE  /\ TypeOK' /\ l \in Reads /\ Keeps(1)
         /\ At(1) = [op |-> "back", what |-> l.what, idx |-> l.idx, job |-> l.job,
                     gen |-> l.gen, cmd |-> InMemory(l.at).cmd]
<1>1. l \in Reads
  BY LineShape DEF TypeOK, AtHost
<1>2. InMemory(l.at).cmd \in Int
  BY DEF InMemory, TypeOK, SlotLines, Blank, None
<1>3. [op |-> "back", what |-> l.what, idx |-> l.idx, job |-> l.job,
       gen |-> l.gen, cmd |-> InMemory(l.at).cmd] \in Messages
  BY <1>1, <1>2 DEF Reads, Backs, Messages
<1>4. Keeps(1) /\ At(1) = [op |-> "back", what |-> l.what, idx |-> l.idx, job |-> l.job,
                           gen |-> l.gen, cmd |-> InMemory(l.at).cmd]
  BY <1>3, Adds1 DEF AtHost
<1> QED BY <1>1, <1>4 DEF TypeOK, AtHost, Keeps, Cmds, NumCmds

LEMMA ShotTypes ==
  ASSUME TypeOK, Shot
  PROVE  TypeOK' /\ g.sent + 1 \in 1 .. 2
<1>1. g \in Works /\ m \in ModuleStates
  BY DEF TypeOK
<1>2. g.sent + 1 \in 1 .. 2 /\ m.inflight + 1 \in Int
  BY <1>1, LinesOf DEF Works, Shot, ModuleStates
<1>3. ResultLine(m, g, g.sent + 1) \in Lines
  BY <1>1, <1>2 DEF Works, ModuleStates, ResultLine, Results, Lines
<1>4. g' \in Works
  BY <1>1, <1>2 DEF Works, Shot
<1>5. m' \in ModuleStates
  <2>1. m' = [m EXCEPT !.inflight = @ + 1]
    BY DEF Shot
  <2> QED BY <1>1, <1>2, <2>1 DEF ModuleStates
<1> QED BY <1>2, <1>3, <1>4, <1>5 DEF TypeOK, Shot, Cmds, NumCmds

\* The host's actions keep the types.
LEMMA ExpectTyped == \A k, b : Expect(k, b) \in Failed \cup {"done"}
  BY DEF Expect, Failed

LEMMA CommandTyped ==
  ASSUME TypeOK, h.next < NumCmds
  PROVE  Command.kind \in AllKinds /\ Command.irq \in BOOLEAN /\ h.next \in Cmds
<1>1. script.cmds \in Seq([kind : AllKinds, irq : BOOLEAN, room : BOOLEAN])
  BY TransportAssumption DEF TypeOK
<1>2. h.next \in Nat /\ Len(script.cmds) \in Nat
  BY <1>1 DEF TypeOK, HostStates
<1>3. h.next + 1 \in 1 .. Len(script.cmds)
  BY <1>2 DEF NumCmds
<1>4. script.cmds[h.next + 1] \in [kind : AllKinds, irq : BOOLEAN, room : BOOLEAN]
  <2> DEFINE S == [kind : AllKinds, irq : BOOLEAN, room : BOOLEAN]
             s == script.cmds
             i == h.next + 1
  <2>1. s \in Seq(S) /\ i \in 1 .. Len(s)
    BY <1>1, <1>3
  <2> HIDE DEF S, s, i
  <2>2. s[i] \in S
    BY <2>1
  <2> QED BY <2>2 DEF S, s, i
<1>5. h.next \in Cmds
  BY <1>2, <1>3 DEF Cmds, NumCmds
<1> QED BY <1>4, <1>5 DEF Command

LEMMA NumCmdsNat == ASSUME TypeOK PROVE NumCmds \in Nat
<1>1. script.cmds \in Seq([kind : AllKinds, irq : BOOLEAN, room : BOOLEAN])
  BY TransportAssumption DEF TypeOK
<1> QED BY <1>1 DEF NumCmds

LEMMA StoreTypes ==
  ASSUME TypeOK, h.next < NumCmds, Store
  PROVE  /\ cmd' \in [Cmds -> Published] /\ DOMAIN res' = Cmds
         /\ slot' \in [0 .. RingSize - 1 -> SlotLines]
         /\ UNCHANGED <<m, g, script, up, wire, ended>>
<1>1. Expect(Command.kind, h.before) \in Statuses
  BY ExpectTyped DEF Failed, Statuses
<1>2. h.seed \in Nat /\ h.epoch \in Nat /\ h.tears \in Nat /\ h.next \in Int
  BY DEF TypeOK, HostStates
<1>3. [kind |-> Command.kind, due |-> Expect(Command.kind, h.before), seed |-> h.seed,
       epoch |-> h.epoch, tears |-> h.tears] \in Published
  BY <1>1, <1>2, CommandTyped DEF Published
<1>4. [cmd |-> h.next, status |-> Pending, index |-> 0] \in SlotLines
  BY <1>2 DEF SlotLines, Statuses
<1>5. cmd \in [Cmds -> Published] /\ DOMAIN res = Cmds /\ slot \in [0 .. RingSize - 1 -> SlotLines]
  BY DEF TypeOK
<1>6. cmd' \in [Cmds -> Published]
  BY <1>3, <1>5 DEF Store
<1>7. slot' \in [0 .. RingSize - 1 -> SlotLines]
  BY <1>4, <1>5 DEF Store
<1> QED BY <1>5, <1>6, <1>7 DEF Store

LEMMA EndLostTypes ==
  ASSUME TypeOK, NEW from, EndLost(from)
  PROVE  slot' \in [0 .. RingSize - 1 -> SlotLines]
<1>1. slot \in [0 .. RingSize - 1 -> SlotLines]
  BY DEF TypeOK
<1>2. \A s \in 0 .. RingSize - 1 : [slot[s] EXCEPT !.status = "lost"] \in SlotLines
  BY <1>1 DEF SlotLines, Statuses
<1> QED BY <1>1, <1>2 DEF EndLost

LEMMA CompleteTypes ==
  ASSUME TypeOK, NEW idxs, NEW mem \in [0 .. RingSize - 1 -> SlotLines], Complete(idxs, mem)
  PROVE  ended' \in [Cmds -> SlotLines]
<1>1. \A i \in Cmds : mem[SlotOf(i)] \in SlotLines
  BY SlotRange DEF Cmds
<1> QED BY <1>1 DEF Complete, TypeOK

LEMMA HostTypes ==
  ASSUME TypeOK, HostNext
  PROVE  TypeOK'
<1>0. HostSent
  BY HostSentLemma
<1>1. SUFFICES /\ h' \in HostStates /\ up' \in Seq(Answers) /\ cmd' \in [Cmds -> Published]
               /\ slot' \in [0 .. RingSize - 1 -> SlotLines] /\ ended' \in [Cmds -> SlotLines]
               /\ DOMAIN res' = Cmds
  BY <1>0 DEF HostSent, TypeOK, Cmds, NumCmds
<1>h. h \in HostStates
  BY DEF TypeOK
<1>n. /\ h.next \in Nat /\ h.next + 1 \in Nat /\ h.hhead + 1 \in Nat /\ h.seed + 1 \in Nat
      /\ h.epoch + 1 \in Nat /\ h.tears + 1 \in Nat /\ h.timeouts + 1 \in Nat /\ h.downs + 1 \in Nat
      /\ Quiet(Tail(up)) \in BOOLEAN
  <2>1. Quiet(Tail(up)) \in BOOLEAN
    BY DEF Quiet
  <2> QED BY <1>h, <2>1 DEF HostStates
<1>e. Expect(Command.kind, h.before) \in Statuses \cup {"none"}
  BY ExpectTyped DEF Failed, Statuses
<1>t. /\ up \in Seq(Answers) /\ cmd \in [Cmds -> Published]
      /\ slot \in [0 .. RingSize - 1 -> SlotLines] /\ ended \in [Cmds -> SlotLines]
      /\ DOMAIN res = Cmds
  BY DEF TypeOK
<1>u. up # <<>> => Tail(up) \in Seq(Answers)
  BY <1>t
<1>2. CASE Publish
  <2>1. h' \in HostStates
    <3>1. h' = [h EXCEPT !.next = h.next + 1, !.before = Expect(Command.kind, h.before)]
      BY <1>2 DEF Publish
    <3> QED BY <1>h, <1>n, <1>e, <3>1 DEF HostStates
  <2>2. Store /\ h.next < NumCmds
    BY <1>2 DEF Publish
  <2> QED BY <1>t, <2>1, <2>2, StoreTypes
<1>3. CASE PublishIrq
  <2>1. h' \in HostStates
    <3>1. h' = [h EXCEPT !.pc = "await", !.next = h.next + 1, !.rung = h.next + 1, !.irq = TRUE,
                    !.irq_at = h.next + 1, !.msi = FALSE, !.before = Expect(Command.kind, h.before)]
      BY <1>3 DEF PublishIrq
    <3> QED BY <1>h, <1>n, <1>e, <3>1 DEF HostStates
  <2>2. Store /\ h.next < NumCmds
    BY <1>3 DEF PublishIrq
  <2> QED BY <1>t, <2>1, <2>2, StoreTypes
<1>4. CASE Ring \/ IrqOff
  <2>1. h' \in HostStates
    <3>1. CASE Ring
      <4>1. h' = [h EXCEPT !.rung = h.next]
        BY <3>1 DEF Ring
      <4> QED BY <1>h, <1>n, <4>1 DEF HostStates
    <3>2. CASE IrqOff
      <4>1. h' = [h EXCEPT !.irq = FALSE]
        BY <3>2 DEF IrqOff
      <4> QED BY <1>h, <1>n, <4>1 DEF HostStates
    <3> QED BY <1>4, <3>1, <3>2
  <2> QED BY <1>t, <1>4, <2>1 DEF Ring, IrqOff
<1>5. CASE SetSeed
  <2>1. h' \in HostStates
    <3>1. h' = [h EXCEPT !.seed = h.seed + 1, !.epoch = h.epoch + 1, !.tears = 0]
      BY <1>5 DEF SetSeed
    <3> QED BY <1>h, <1>n, <3>1 DEF HostStates
  <2> QED BY <1>t, <1>5, <2>1 DEF SetSeed
<1>6. CASE TryEnd
  <2>1. h' \in HostStates
    <3>1. h' = [h EXCEPT !.hhead = h.hhead + 1]
      BY <1>6 DEF TryEnd
    <3> QED BY <1>h, <1>n, <3>1 DEF HostStates
  <2>2. ended' \in [Cmds -> SlotLines]
    BY <1>t, <1>6, CompleteTypes DEF TryEnd
  <2> QED BY <1>t, <1>6, <2>1, <2>2 DEF TryEnd
<1>7. CASE Drain \/ Drained \/ Awaited
  <2>1. h' \in HostStates
    BY <1>h, <1>7 DEF HostStates, Drain, Drained, Awaited
  <2> QED BY <1>t, <1>7, <2>1 DEF Drain, Drained, Awaited
<1>8. CASE TakeMsi
  <2>1. h' \in HostStates
    BY <1>h, <1>8 DEF HostStates, TakeMsi
  <2> QED BY <1>t, <1>u, <1>8, <2>1 DEF TakeMsi
<1>9. CASE DrainTimeout \/ Teardown
  <2>1. \/ h' = [[h EXCEPT !.timeouts = h.timeouts + 1] EXCEPT !.pc = "status", !.quiesced = FALSE]
        \/ h' = [[h EXCEPT !.downs = h.downs + 1] EXCEPT !.pc = "status", !.quiesced = FALSE]
    BY <1>9 DEF DrainTimeout, Teardown, Disable
  <2>2. h' \in HostStates
    <3>1. CASE h' = [[h EXCEPT !.timeouts = h.timeouts + 1] EXCEPT !.pc = "status", !.quiesced = FALSE]
      BY <1>h, <1>n, <3>1 DEF HostStates
    <3>2. CASE h' = [[h EXCEPT !.downs = h.downs + 1] EXCEPT !.pc = "status", !.quiesced = FALSE]
      BY <1>h, <1>n, <3>2 DEF HostStates
    <3> QED BY <2>1, <3>1, <3>2
  <2> QED BY <1>t, <1>9, <2>2 DEF DrainTimeout, Teardown
<1>10. CASE StatusBack
  <2>1. \/ h' = [h EXCEPT !.pc = "head"] \/ h' = [h EXCEPT !.pc = "flr"]
        \/ h' = [h EXCEPT !.quiesced = Quiet(Tail(up))]
    BY <1>10 DEF StatusBack
  <2>2. h' \in HostStates
    <3>1. CASE h' = [h EXCEPT !.pc = "head"] \/ h' = [h EXCEPT !.pc = "flr"]
      BY <1>h, <3>1 DEF HostStates
    <3>2. CASE h' = [h EXCEPT !.quiesced = Quiet(Tail(up))]
      BY <1>h, <1>n, <3>2 DEF HostStates
    <3> QED BY <2>1, <3>1, <3>2
  <2> QED BY <1>t, <1>u, <1>10, <2>2 DEF StatusBack
<1>11. CASE HeadBack
  <2>1. h' \in HostStates
    <3>1. h' = [h EXCEPT !.pc = "script", !.hhead = h.next, !.origin = h.next,
                    !.before = "none", !.tears = h.tears + 1]
      BY <1>11 DEF HeadBack
    <3> QED BY <1>h, <1>n, <3>1 DEF HostStates
  <2>2. slot' \in [0 .. RingSize - 1 -> SlotLines]
    BY <1>11, EndLostTypes DEF HeadBack
  <2>3. ended' \in [Cmds -> SlotLines]
    <3>1. Complete(h.hhead .. h.next - 1, slot')
      BY <1>11 DEF HeadBack
    <3> QED BY <2>2, <3>1, CompleteTypes
  <2> QED BY <1>t, <1>u, <1>11, <2>1, <2>2, <2>3 DEF HeadBack
<1>12. CASE AfterReset
  <2>1. h' \in HostStates
    <3>1. h' = [h EXCEPT !.pc = "script", !.hhead = h.next, !.origin = h.next,
                    !.before = "none", !.epoch = h.epoch + 1, !.tears = 0]
      BY <1>12 DEF AfterReset
    <3> QED BY <1>h, <1>n, <3>1 DEF HostStates
  <2>2. slot' \in [0 .. RingSize - 1 -> SlotLines]
    BY <1>12, EndLostTypes DEF AfterReset
  <2>3. ended' \in [Cmds -> SlotLines]
    <3>1. Complete(h.hhead .. h.next - 1, slot')
      BY <1>12 DEF AfterReset
    <3> QED BY <2>2, <3>1, CompleteTypes
  <2> QED BY <1>t, <1>12, <2>1, <2>2, <2>3 DEF AfterReset
<1> QED BY <1>2, <1>3, <1>4, <1>5, <1>6, <1>7, <1>8, <1>9, <1>10, <1>11, <1>12 DEF HostNext

-----------------------------------------------------------------------------
(* What the module has on the link, and the stage it is in. *)

ModuleInv == JobInv /\ ErrandInv /\ StageInv /\ ReadInv

\* What these speak of is as it was.
SameModule ==
  /\ m'.gen = m.gen /\ m'.job = m.job /\ m'.enable = m.enable /\ m'.enabled = m.enabled
  /\ m'.busy = m.busy /\ m'.inflight = m.inflight /\ m'.wedged = m.wedged
  /\ m'.draining = m.draining /\ m'.head = m.head
SameCmds == h'.next >= h.next /\ \A c \in 0 .. h.next - 1 : cmd'[c] = cmd[c]

LEMMA StageSame ==
  ASSUME TypeOK, TypeOK', StageInv, SameModule, SameCmds, g' = g, \A k \in 0 .. 3 : Out(k)' <=> Out(k)
  PROVE  StageInv'
<1>0. h.next \in Nat /\ h'.next \in Nat /\ g \in Works
  BY DEF TypeOK, HostStates
<1>1. g.pc # "idle" => g.cmd \in 0 .. h.next - 1 /\ cmd'[g.cmd] = cmd[g.cmd]
  BY DEF StageInv, SameCmds
<1>2. g'.pc # "idle" => g'.cmd \in 0 .. h'.next - 1
  BY <1>0, <1>1 DEF SameCmds, Works
<1>3. GDone' <=> GDone
  BY <1>1 DEF GDone
<1>4. OnHead' <=> OnHead
  BY DEF OnHead, SameModule
<1>5. (Stopped' <=> Stopped) /\ (Waiting' <=> Waiting) /\ (Wedged' <=> Wedged) /\ (Fetching' <=> Fetching)
  BY <1>3 DEF Stopped, Waiting, Wedged, Fetching, SameModule
<1>6. (Loading' <=> Loading) /\ (Recording' <=> Recording)
  BY <1>3, <1>4 DEF Loading, Recording, SameModule
<1>7. Shooting' <=> Shooting
  BY <1>1, <1>4 DEF Shooting, SameModule
<1>8. m'.enabled = (m'.enable \/ m'.draining) /\ ~(m'.enable /\ m'.draining)
      /\ (~m'.enable => (m'.draining <=> m'.inflight # 0))
  BY DEF SameModule, StageInv
<1> QED BY <1>2, <1>5, <1>6, <1>7, <1>8 DEF StageInv

LEMMA ErrandSame ==
  ASSUME ErrandInv, m'.inflight = m.inflight, RunsOnce(io', wire', m'.job), \A k \in 0 .. 3 : Out(k)' <=> Out(k)
  PROVE  ErrandInv'
<1>1. (Out(0)' <=> Out(0)) /\ (Out(1)' <=> Out(1)) /\ (Out(2)' <=> Out(2))
  OBVIOUS
<1> QED BY <1>1 DEF ErrandInv, One

\* The host's actions.
LEMMA HostCmds == ASSUME TypeOK, HostNext PROVE SameCmds
<1>1. h \in HostStates /\ h.next \in Nat /\ cmd \in [Cmds -> Published]
  BY DEF TypeOK, HostStates
<1>2. CASE Publish \/ PublishIrq
  <2>1. h'.next = h.next + 1
    BY <1>1, <1>2 DEF Publish, PublishIrq, HostStates
  <2>2. \A c \in 0 .. h.next - 1 : cmd'[c] = cmd[c]
    <3>1. h.next \in Cmds
      BY <1>2, CommandTyped DEF Publish, PublishIrq
    <3>2. 0 .. h.next - 1 \subseteq Cmds
      BY <1>1, <3>1, NumCmdsNat DEF Cmds
    <3>3. \E x : cmd' = [cmd EXCEPT ![h.next] = x]
      BY <1>2 DEF Publish, PublishIrq, Store
    <3> QED BY <1>1, <3>2, <3>3
  <2> QED BY <1>1, <2>1, <2>2 DEF SameCmds
<1>3. CASE Ring \/ IrqOff \/ SetSeed \/ TryEnd \/ Drain \/ Drained \/ TakeMsi \/ Awaited
  <2>1. cmd' = cmd
    BY <1>3 DEF Ring, IrqOff, SetSeed, TryEnd, Drain, Drained, TakeMsi, Awaited
  <2>2. h'.next = h.next
    BY <1>1, <1>3 DEF Ring, IrqOff, SetSeed, TryEnd, Drain, Drained, TakeMsi, Awaited, HostStates
  <2> QED BY <1>1, <2>1, <2>2 DEF SameCmds
<1>4. CASE DrainTimeout \/ Teardown \/ StatusBack \/ HeadBack \/ AfterReset
  <2>1. cmd' = cmd
    BY <1>4 DEF DrainTimeout, Teardown, StatusBack, HeadBack, AfterReset
  <2>2. h'.next = h.next
    BY ZenonT(60), <1>1, <1>4 DEF DrainTimeout, Teardown, Disable, StatusBack, HeadBack, AfterReset, HostStates
  <2> QED BY <1>1, <2>1, <2>2 DEF SameCmds
<1> QED BY <1>2, <1>3, <1>4 DEF HostNext

LEMMA HostModule ==
  ASSUME TypeOK, ModuleInv, HostNext
  PROVE  ModuleInv'
<1>0. HostSent /\ SameCmds /\ TypeOK'
  BY HostSentLemma, HostCmds, HostTypes
<1>1. \A i \in DOMAIN io' : (i \in DOMAIN io /\ io'[i] = io[i]) \/ io'[i].op \in {"write", "read", "flr"}
  BY <1>0 DEF HostSent
<1>2. \A i \in DOMAIN io' : \A k \in 0 .. 3 : Errand(io'[i], m.job, k) => i \in DOMAIN io /\ io'[i] = io[i]
  BY <1>1 DEF Errand
<1>3. \A i \in DOMAIN io : i \in DOMAIN io' /\ io'[i] = io[i]
  BY <1>0 DEF HostSent
<1>4. wire' = wire /\ m' = m /\ g' = g
  BY <1>0 DEF HostSent
<1>5. \A k \in 0 .. 3 : Out(k)' <=> Out(k)
  BY <1>2, <1>3, <1>4 DEF Out, Runs
<1>6. RunsOnce(io', wire', m'.job)
  BY <1>2, <1>3, <1>4 DEF RunsOnce, ModuleInv, ErrandInv
<1>7. StageInv'
  BY <1>0, <1>4, <1>5, StageSame DEF SameModule, ModuleInv
<1>8. ErrandInv'
  BY <1>4, <1>5, <1>6, ErrandSame DEF ModuleInv
<1>9. JobInv'
  BY <1>1, <1>4 DEF ModuleInv, JobInv, OfJob
<1>10. ReadInv'
  BY <1>1, <1>4 DEF ModuleInv, ReadInv
<1> QED BY <1>7, <1>8, <1>9, <1>10 DEF ModuleInv

\* A line reaches the host.
LEMMA LandModule ==
  ASSUME TypeOK, ModuleInv, NEW l \in wire, Land(l)
  PROVE  ModuleInv'
<1> DEFINE y == [l EXCEPT !.op = "go"]
<1>1. TypeOK' /\ Keeps(1) /\ At(1) = y
  BY LandTypes
<1>2. l \in Results("ItoMWr") \cup Records("ItoMWr")
  BY LineShape DEF TypeOK, Land
<1>3. y \in Messages /\ y.op = "go" /\ y.gen = l.gen /\ y.job = l.job /\ y.what = l.what
  BY <1>2 DEF Results, Records, Messages
<1>4. \A k \in 0 .. 3 : Errand(y, m.job, k) <=> Errand(l, m.job, k)
  BY <1>2 DEF Results, Records, Errand
<1>5. wire' = wire \ {l} /\ io' = Append(io, y) /\ UNCHANGED <<m, g, h, cmd>>
  BY DEF Land
<1>6. SameModule /\ SameCmds
  BY <1>5 DEF SameModule, SameCmds, TypeOK, HostStates
<1> HIDE DEF y
<1>7. RunsOnce(io', wire', m'.job) /\ \A k \in 0 .. 3 : Out(k)' <=> Out(k)
  BY <1>3, <1>4, <1>5, MoveErrand DEF TypeOK, ModuleInv, ErrandInv, Out
<1>8. StageInv' /\ ErrandInv'
  BY <1>1, <1>5, <1>6, <1>7, StageSame, ErrandSame DEF ModuleInv
<1>9. \A i \in DOMAIN io' : (i \in DOMAIN io /\ io'[i] = io[i]) \/ io'[i] = y
  BY <1>1 DEF Keeps, At
<1>10. JobInv'
  <2>1. OfJob(y) /\ OfJob(l)
    BY <1>2, <1>3 DEF ModuleInv, JobInv, OfJob, Land
  <2> QED BY <1>5, <1>9, <2>1 DEF ModuleInv, JobInv, OfJob
<1>11. ReadInv'
  BY <1>3, <1>5, <1>9 DEF ModuleInv, ReadInv
<1> QED BY <1>8, <1>10, <1>11 DEF ModuleInv

\* The command at PTQ_HEAD is one the host waits for, whenever the module reads.
LEMMA ReadsLive ==
  ASSUME TypeOK, ModuleInv, IndexInv, Out(3)
  PROVE  m.head \in Live /\ m.head < m.tail /\ m.enable /\ m.ring /\ m.inflight = 0
<1>1. m.enable /\ m.busy /\ m.inflight = 0
  BY DEF ModuleInv, StageInv, Stopped, Waiting, Wedged, Fetching, Loading, Shooting, Recording
<1>2. m.head \in Nat /\ m.tail \in Nat /\ h.hhead \in Nat /\ h.next \in Nat /\ h.rung \in Nat
  BY DEF TypeOK, ModuleStates, HostStates
<1>3. ~Out(0)
  BY <1>1 DEF ModuleInv, ErrandInv, One
<1>4. \A i \in DOMAIN io : ~IsRecord(io[i])
  BY <1>3 DEF IsRecord, Out, Runs, Errand
<1> QED BY <1>1, <1>2, <1>4 DEF IndexInv, Live

LEMMA AtHostModule ==
  ASSUME TypeOK, ModuleInv, IndexInv, CmdInv, NEW l \in wire, AtHost(l)
  PROVE  ModuleInv'
<1> DEFINE y == [op |-> "back", what |-> l.what, idx |-> l.idx, job |-> l.job,
                 gen |-> l.gen, cmd |-> InMemory(l.at).cmd]
<1>1. TypeOK' /\ Keeps(1) /\ At(1) = y /\ l \in Reads
  BY AtHostTypes
<1>3. y.op = "back" /\ y.gen = l.gen /\ y.job = l.job /\ y.what = l.what /\ y.idx = l.idx
      /\ y.cmd = InMemory(l.at).cmd
  OBVIOUS
<1>4. \A k \in 0 .. 3 : Errand(y, m.job, k) <=> Errand(l, m.job, k)
  BY <1>1 DEF Reads, Errand
<1>5. wire' = wire \ {l} /\ io' = Append(io, y) /\ UNCHANGED <<m, g, h, cmd>>
  BY DEF AtHost
<1>6. SameModule /\ SameCmds
  BY <1>5 DEF SameModule, SameCmds, TypeOK, HostStates
<1> HIDE DEF y
<1>9. y \in Messages /\ \A i \in DOMAIN io' : (i \in DOMAIN io /\ io'[i] = io[i]) \/ io'[i] = y
  BY <1>1 DEF Keeps, At
<1>7. RunsOnce(io', wire', m'.job) /\ \A k \in 0 .. 3 : Out(k)' <=> Out(k)
  BY <1>4, <1>5, <1>9, MoveErrand DEF TypeOK, ModuleInv, ErrandInv, Out
<1>8. StageInv' /\ ErrandInv'
  BY <1>1, <1>5, <1>6, <1>7, StageSame, ErrandSame DEF ModuleInv
<1>10. JobInv'
  <2>1. OfJob(l) /\ OfJob(y)
    BY <1>3 DEF ModuleInv, JobInv, OfJob
  <2> QED BY <1>5, <1>9, <2>1 DEF ModuleInv, JobInv, OfJob
<1>11. ReadInv'
  <2>1. ASSUME y.job = m.job
        PROVE  y.idx = m.head /\ y.cmd = m.head /\ y.what = (IF g.pc = "operands" THEN "operands" ELSE "desc")
    <3>1. l.op = "RdCurr" /\ l.job = m.job
      BY <1>3, <2>1 DEF AtHost
    <3>2. Out(3)
      BY <3>1 DEF Out, Runs, Errand
    <3>3. m.head \in Live /\ m.head \in Int
      BY <3>2, ReadsLive DEF TypeOK, ModuleStates
    <3>4. l.at = SlotOf(m.head) /\ SlotOf(m.head) \in DOMAIN slot
      BY <3>1, <3>3, SlotRange DEF ModuleInv, ReadInv, TypeOK
    <3>5. InMemory(l.at).cmd = m.head
      BY <3>3, <3>4 DEF InMemory, CmdInv
    <3> QED BY <1>3, <3>1, <3>5 DEF ModuleInv, ReadInv
  <2> QED BY <1>3, <1>5, <1>9, <2>1 DEF ModuleInv, ReadInv
<1> QED BY <1>8, <1>10, <1>11 DEF ModuleInv

\* A line of results is sent.
LEMMA ShotStage ==
  ASSUME TypeOK, StageInv, Shot
  PROVE  Shooting /\ ~GDone
<1>1. g.sent \in Nat /\ g.ordered \in Nat
  BY DEF TypeOK, Works
<1>2. g.pc = "shots" /\ g.sent < OutLines(cmd[g.cmd].kind)
  BY DEF Shot
<1>3. ~GDone
  BY <1>1, <1>2, LinesOf DEF GDone
<1> QED BY <1>2, <1>3 DEF StageInv, Stopped, Waiting, Wedged, Fetching, Loading, Recording

LEMMA ShotModule ==
  ASSUME TypeOK, ModuleInv, Shot
  PROVE  ModuleInv'
<1> DEFINE x == ResultLine(m, g, g.sent + 1)
<1>1. TypeOK' /\ g.sent + 1 \in 1 .. 2
  BY ShotTypes
<1>2. Shooting
  BY ShotStage DEF ModuleInv
<1>3. /\ wire' = wire \cup {x} /\ io' = io /\ cmd' = cmd /\ h' = h
      /\ m' = [m EXCEPT !.inflight = @ + 1] /\ g' = [g EXCEPT !.sent = @ + 1]
      /\ g.sent < OutLines(cmd[g.cmd].kind)
  BY DEF Shot
<1>4. m \in ModuleStates /\ g \in Works /\ io \in Seq(Messages) /\ m.inflight \in Int /\ g.sent \in Nat /\ g.ordered \in Nat
  BY DEF TypeOK, ModuleStates, Works
<1>5. /\ m'.gen = m.gen /\ m'.job = m.job /\ m'.enable = m.enable /\ m'.enabled = m.enabled
      /\ m'.busy = m.busy /\ m'.inflight = m.inflight + 1 /\ m'.wedged = m.wedged
      /\ m'.draining = m.draining /\ m'.head = m.head
  BY <1>3, <1>4 DEF ModuleStates
<1>6. /\ g'.pc = g.pc /\ g'.idx = g.idx /\ g'.cmd = g.cmd /\ g'.job = g.job /\ g'.sent = g.sent + 1
      /\ g'.ordered = g.ordered
  BY <1>3, <1>4 DEF Works
<1>7. x.op = "ItoMWr" /\ x.what = "res" /\ x.line = g.sent + 1 /\ x.job = g.job /\ x.gen = m.gen
  BY DEF ResultLine
<1>8. \A k \in 0 .. 3 : Errand(x, m.job, k) <=> k = g.sent + 1
  BY <1>7 DEF Errand
<1> HIDE DEF x
<1>9. RunsOnce(io, wire, m.job) /\ \A k \in 0 .. 3 : Errand(x, m.job, k) => ~Out(k)
  BY <1>1, <1>2, <1>4, <1>8 DEF ModuleInv, ErrandInv, Shooting
<1>10. RunsOnce(io', wire', m'.job) /\ \A k \in 0 .. 3 : Out(k)' <=> Out(k) \/ k = g.sent + 1
  BY <1>3, <1>4, <1>5, <1>8, <1>9, AddErrand DEF Out
<1>11. ErrandInv'
  <2>1. ~Out(0) /\ ~Out(g.sent + 1) /\ m.inflight = One(Out(1)) + One(Out(2))
    BY <1>1, <1>2, <1>4 DEF ModuleInv, ErrandInv, Shooting, One
  <2>2. ~Out(0)'
    BY <1>1, <1>10, <2>1
  <2>3. (Out(1)' <=> Out(1) \/ 1 = g.sent + 1) /\ (Out(2)' <=> Out(2) \/ 2 = g.sent + 1)
    BY <1>10
  <2>4. m'.inflight = One(Out(1)') + One(Out(2)')
    <3>1. CASE g.sent = 0
      BY <1>4, <1>5, <2>1, <2>3, <3>1 DEF One
    <3>2. CASE g.sent = 1
      BY <1>4, <1>5, <2>1, <2>3, <3>2 DEF One
    <3> QED BY <1>1, <1>4, <3>1, <3>2
  <2> QED BY <1>10, <2>2, <2>4 DEF ErrandInv, One
<1>12. StageInv'
  <2>1. ~Out(0)' /\ ~Out(3)'
    BY <1>1, <1>2, <1>4, <1>10 DEF Shooting
  <2>2. OnHead'
    BY <1>2, <1>5, <1>6 DEF Shooting, OnHead
  <2>3. \A k \in 1 .. 2 : Out(k)' => k <= g'.sent
    BY <1>2, <1>4, <1>6, <1>10 DEF Shooting
  <2>4. g'.ordered < OutLines(cmd'[g'.cmd].kind) /\ g'.sent <= OutLines(cmd'[g'.cmd].kind)
    BY <1>2, <1>3, <1>4, <1>6, LinesOf DEF Shooting
  <2>5. m'.inflight = g'.sent - g'.ordered
    BY <1>2, <1>4, <1>5, <1>6 DEF Shooting
  <2>6. Shooting'
    BY <1>2, <1>5, <1>6, <2>1, <2>2, <2>3, <2>4, <2>5 DEF Shooting
  <2>7. m'.enabled = (m'.enable \/ m'.draining) /\ ~(m'.enable /\ m'.draining) /\ m'.enable
    BY <1>2, <1>5 DEF ModuleInv, StageInv, Shooting
  <2>8. g'.pc # "idle" => g'.cmd \in 0 .. h'.next - 1
    BY <1>3, <1>6 DEF ModuleInv, StageInv
  <2> QED BY <2>6, <2>7, <2>8 DEF StageInv
<1>13. JobInv'
  <2>1. x.gen = m.gen /\ x.job = m.job /\ m.enable
    BY <1>2, <1>7 DEF Shooting, OnHead
  <2> QED BY SMTT(30), <1>3, <1>4, <1>5, <2>1 DEF ModuleInv, JobInv, OfJob, ModuleStates
<1>14. ReadInv'
  BY <1>3, <1>5, <1>6, <1>7 DEF ModuleInv, ReadInv
<1> QED BY <1>11, <1>12, <1>13, <1>14 DEF ModuleInv

-----------------------------------------------------------------------------
(* An arrival, by its kind. *)

\* What is left on the link once the message is taken.
LEMMA Left ==
  ASSUME TypeOK, ErrandInv, Pop
  PROVE  /\ RunsOnce(io', wire, m.job)
         /\ \A k \in 0 .. 3 : Runs(io', wire, m.job, k) <=> Out(k) /\ ~Errand(Msg, m.job, k)
         /\ \A k \in 0 .. 3 : Errand(Msg, m.job, k) => Out(k)
<1>1. io \in Seq(Messages) /\ io # <<>> /\ io' = Tail(io) /\ Shifted
  BY PopShifts DEF TypeOK, Pop
<1>2. RunsOnce(io, wire, m.job)
  BY DEF ErrandInv
<1>3. \A k \in 0 .. 3 : Errand(Msg, m.job, k) => Out(k)
  BY <1>1 DEF Out, Runs, Shifted
<1> QED BY <1>1, <1>2, <1>3, PopErrand DEF Out, Msg

\* Nothing that these speak of changes.
LEMMA PopSame ==
  ASSUME TypeOK, TypeOK', ModuleInv, Pop, SameModule, g' = g, wire' = wire,
         \A k \in 0 .. 3 : ~Errand(Msg, m.job, k)
  PROVE  ModuleInv'
<1>1. Shifted /\ ErrandInv /\ StageInv
  BY PopShifts DEF ModuleInv
<1>2. RunsOnce(io', wire', m'.job) /\ \A k \in 0 .. 3 : Out(k)' <=> Out(k)
  BY <1>1, Left DEF SameModule, Out
<1>3. SameCmds
  BY DEF Pop, SameCmds, TypeOK, HostStates
<1>4. StageInv'
  BY <1>1, <1>2, <1>3, StageSame
<1>5. ErrandInv'
  BY <1>1, <1>2, ErrandSame DEF SameModule
<1>6. JobInv'
  BY <1>1 DEF ModuleInv, JobInv, OfJob, Shifted, SameModule
<1>7. ReadInv'
  <2>1. m'.job = m.job /\ m'.head = m.head
    BY DEF SameModule
  <2>2. \A i \in DOMAIN io' : \E j \in DOMAIN io : io'[i] = io[j]
    BY <1>1 DEF Shifted
  <2> QED BY <2>1, <2>2 DEF ModuleInv, ReadInv
<1> QED BY <1>4, <1>5, <1>6, <1>7 DEF ModuleInv

LEMMA ControlErrand ==
  ASSUME NEW x, x.op \in {"write", "read", "flr"}, NEW j
  PROVE  \A k \in 0 .. 3 : ~Errand(x, j, k)
  BY DEF Errand

LEMMA PlainArrivals ==
  ASSUME TypeOK, TypeOK', ModuleInv,
         Ignored \/ SameQueue \/ TailOff \/ TailBad \/ SetRing \/ SetIrqAt \/ TakeSeed \/ Answer
  PROVE  ModuleInv'
<1>0. m \in ModuleStates
  BY DEF TypeOK
<1>1. Pop /\ g' = g /\ wire' = wire
  BY DEF Ignored, SameQueue, TailOff, TailBad, SetRing, SetIrqAt, TakeSeed, Answer
<1>2. SameModule
  <2>1. CASE Ignored \/ Answer
    BY <2>1 DEF SameModule, Ignored, Answer
  <2>2. CASE SameQueue \/ TailOff \/ TailBad
    BY <1>0, <2>2 DEF SameModule, SameQueue, TailOff, TailBad, ModuleStates
  <2>3. CASE SetRing \/ SetIrqAt \/ TakeSeed
    BY ZenonT(60), <1>0, <2>3 DEF SameModule, SetRing, SetIrqAt, TakeSeed, ModuleStates
  <2> QED BY <2>1, <2>2, <2>3
<1>3. \A k \in 0 .. 3 : ~Errand(Msg, m.job, k)
  <2>1. CASE Msg.op \in {"write", "read", "flr"}
    BY <2>1, ControlErrand
  <2>2. CASE Msg.op = "back" /\ Msg.job # m.job
    BY <2>2 DEF Errand
  <2> QED BY <2>1, <2>2 DEF Ignored, SameQueue, TailOff, TailBad, SetRing, SetIrqAt, TakeSeed, Answer, IsWrite
<1> QED BY <1>1, <1>2, <1>3, PopSame

\* kick, from a module that waits.
LEMMA KickIs ==
  ASSUME NEW mm \in ModuleStates, Kick(mm, wire)
  PROVE  /\ m'.gen = mm.gen /\ m'.job = mm.job /\ m'.enable = mm.enable /\ m'.enabled = mm.enabled
         /\ m'.inflight = mm.inflight /\ m'.wedged = mm.wedged /\ m'.draining = mm.draining
         /\ m'.head = mm.head /\ m'.tail = mm.tail /\ m'.ring = mm.ring /\ m'.irq_at = mm.irq_at
         /\ m'.irq_en = mm.irq_en /\ m'.seed = mm.seed /\ m'.gemm_ct = mm.gemm_ct /\ m'.prev = mm.prev
         /\ m'.halted = mm.halted
         /\ m'.busy = (mm.busy \/ CanKick(mm))
         /\ wire' = IF CanKick(mm) THEN wire \cup {ReadLine(mm, "desc", mm.head)} ELSE wire
<1>1. CASE CanKick(mm)
  BY ZenonT(60), <1>1 DEF Kick, ModuleStates
<1>2. CASE ~CanKick(mm)
  BY <1>2 DEF Kick, ModuleStates
<1> QED BY <1>1, <1>2

\* The module, enabled and free with nothing on the link, waits or reads the next slot.
LEMMA KickModule ==
  ASSUME TypeOK, TypeOK', NEW mm \in ModuleStates, Pop, Kick(mm, wire), g' = g,
         StageInv, RunsOnce(io', wire, mm.job), \A k \in 0 .. 3 : ~Runs(io', wire, mm.job, k),
         \A l \in wire : l.gen = mm.gen /\ l.job <= mm.job,
         \A i \in DOMAIN io' : io'[i].op \in {"back", "go"} => io'[i].gen = mm.gen /\ io'[i].job <= mm.job,
         GDone, mm.enable, mm.enabled, ~mm.draining, ~mm.busy, ~mm.wedged, mm.inflight = 0, mm.ring
  PROVE  ModuleInv'
<1> DEFINE x == ReadLine(mm, "desc", mm.head)
<1>0. SameCmds /\ cmd' = cmd /\ h' = h /\ g' = g
  BY DEF Pop, SameCmds, TypeOK, HostStates
<1>1. /\ m'.gen = mm.gen /\ m'.job = mm.job /\ m'.enable /\ m'.enabled
      /\ m'.inflight = 0 /\ ~m'.wedged /\ ~m'.draining /\ m'.head = mm.head
      /\ m'.busy = CanKick(mm)
      /\ wire' = IF CanKick(mm) THEN wire \cup {x} ELSE wire
  <2>1. CanKick(mm) \in BOOLEAN
    BY DEF CanKick
  <2>2. m'.busy = (mm.busy \/ CanKick(mm)) /\ wire' = IF CanKick(mm) THEN wire \cup {x} ELSE wire
    BY KickIs
  <2>3. m'.busy = CanKick(mm)
    BY <2>1, <2>2
  <2> QED BY <2>2, <2>3, KickIs
<1>2. x.op = "RdCurr" /\ x.what = "desc" /\ x.idx = mm.head /\ x.at = SlotOf(mm.head)
      /\ x.job = mm.job /\ x.gen = mm.gen
  BY DEF ReadLine, SlotAddr
<1>t. /\ io' \in Seq(Messages) /\ wire \subseteq Lines /\ mm.job \in Nat /\ m'.enable \in BOOLEAN
      /\ m'.enabled \in BOOLEAN /\ m'.draining \in BOOLEAN /\ m'.busy \in BOOLEAN /\ m'.inflight \in Int
  BY DEF TypeOK, ModuleStates
<1> HIDE DEF x
<1>3. \A k \in 0 .. 3 : Errand(x, mm.job, k) <=> k = 3
  BY <1>2 DEF Errand
<1>4. RunsOnce(io', wire', m'.job) /\ \A k \in 0 .. 3 : Out(k)' <=> CanKick(mm) /\ k = 3
  <2>1. CASE CanKick(mm)
    <3>1. RunsOnce(io', wire \cup {x}, mm.job) /\ \A k \in 0 .. 3 : Runs(io', wire \cup {x}, mm.job, k) <=> k = 3
      BY <1>t, <1>3, AddErrand
    <3> QED BY <1>1, <2>1, <3>1 DEF Out
  <2>2. CASE ~CanKick(mm)
    BY <1>1, <2>2 DEF Out
  <2> QED BY <2>1, <2>2
<1>5. ErrandInv'
  <2>1. ~Out(0)' /\ ~Out(1)' /\ ~Out(2)'
    BY <1>4
  <2> QED BY <1>1, <1>4, <2>1 DEF ErrandInv, One
<1>6. GDone'
  BY <1>0 DEF GDone
<1>7. StageInv'
  <2>1. CASE CanKick(mm)
    <3>1. Fetching'
      BY <1>1, <1>4, <1>6, <2>1 DEF Fetching
    <3> QED BY <1>0, <1>1, <1>t, <3>1 DEF StageInv
  <2>2. CASE ~CanKick(mm)
    <3>1. Waiting'
      BY <1>1, <1>4, <1>6, <2>2 DEF Waiting
    <3> QED BY <1>0, <1>1, <1>t, <3>1 DEF StageInv
  <2> QED BY <2>1, <2>2
<1>8. /\ \A l \in wire : l.op = "RdCurr" /\ l.job # mm.job
      /\ \A i \in DOMAIN io' : io'[i].op # "go" /\ (io'[i].op = "back" => io'[i].job # mm.job)
  <2>1. ASSUME NEW l \in wire PROVE l.op = "RdCurr" /\ l.job # mm.job
    <3>1. \A k \in 0 .. 3 : ~Errand(l, mm.job, k)
      BY DEF Runs
    <3>2. l \in Lines
      BY <1>t
    <3> QED BY <3>1, <3>2, ErrandIs, LineShape DEF Lines
  <2>2. ASSUME NEW i \in DOMAIN io' PROVE io'[i].op # "go" /\ (io'[i].op = "back" => io'[i].job # mm.job)
    <3>1. \A k \in 0 .. 3 : ~Errand(io'[i], mm.job, k)
      BY DEF Runs
    <3>2. io'[i] \in Messages
      BY <1>t
    <3> QED BY <3>1, <3>2, ErrandIs, MessageShape
  <2> QED BY <2>1, <2>2
<1>9. JobInv'
  <2>1. \A l \in wire' : l.op = "RdCurr" /\ l.gen = mm.gen /\ l.job <= mm.job
    BY <1>1, <1>2, <1>8, <1>t
  <2> QED BY <1>1, <1>8, <2>1 DEF JobInv, OfJob
<1>10. ReadInv'
  <2>1. g'.pc # "operands"
    BY <1>0 DEF GDone
  <2>2. \A l \in wire' : l.op = "RdCurr" /\ l.job = mm.job => l = x
    BY <1>1, <1>8
  <2> QED BY <1>1, <1>2, <1>8, <2>1, <2>2 DEF ReadInv
<1> QED BY <1>5, <1>7, <1>9, <1>10 DEF ModuleInv

\* With no errand out, all that is on the link are reads of dropped jobs.
LEMMA Alone ==
  ASSUME TypeOK, io' \in Seq(Messages), NEW j, \A k \in 0 .. 3 : ~Runs(io', wire, j, k)
  PROVE  /\ \A l \in wire : l.op = "RdCurr" /\ l.job # j
         /\ \A i \in DOMAIN io' : io'[i].op # "go" /\ (io'[i].op = "back" => io'[i].job # j)
<1>1. ASSUME NEW l \in wire PROVE l.op = "RdCurr" /\ l.job # j
  <2>1. \A k \in 0 .. 3 : ~Errand(l, j, k)
    BY DEF Runs
  <2>2. l \in Lines
    BY DEF TypeOK
  <2> QED BY <2>1, <2>2, ErrandIs, LineShape DEF Lines
<1>2. ASSUME NEW i \in DOMAIN io' PROVE io'[i].op # "go" /\ (io'[i].op = "back" => io'[i].job # j)
  <2>1. \A k \in 0 .. 3 : ~Errand(io'[i], j, k)
    BY DEF Runs
  <2>2. io'[i] \in Messages
    OBVIOUS
  <2> QED BY <2>1, <2>2, ErrandIs, MessageShape
<1> QED BY <1>1, <1>2

\* What is of this generation still is once a message is taken.
LEMMA PopJobs ==
  ASSUME TypeOK, JobInv, Pop
  PROVE  /\ \A l \in wire : l.gen = m.gen /\ l.job <= m.job
         /\ \A i \in DOMAIN io' : io'[i].op \in {"back", "go"} => io'[i].gen = m.gen /\ io'[i].job <= m.job
<1>1. Shifted
  BY PopShifts
<1> QED BY <1>1 DEF Shifted, JobInv, OfJob

\* The one errand that is out is x.
LEMMA OneOut ==
  ASSUME TypeOK, TypeOK', JobInv, Pop, NEW x, wire' = wire \cup {x}, NEW n \in {0, 3},
         RunsOnce(io', wire, m.job), \A k \in 0 .. 3 : ~Runs(io', wire, m.job, k),
         \A k \in 0 .. 3 : Errand(x, m.job, k) <=> k = n,
         x.gen = m.gen, x.job = m.job, x.op \in {"RdCurr", "ItoMWr"},
         m'.job = m.job, m'.gen = m.gen, m.enable, m'.enable, m'.inflight = One(n = 0)
  PROVE  /\ JobInv' /\ ErrandInv' /\ \A k \in 0 .. 3 : Out(k)' <=> k = n
         /\ \A l \in wire' : l.op = "RdCurr" /\ l.job = m.job => l = x
         /\ \A i \in DOMAIN io' : io'[i].op = "back" => io'[i].job # m.job
<1>0. io' \in Seq(Messages) /\ m.job \in Nat
  BY DEF TypeOK, ModuleStates
<1>1. /\ \A l \in wire : l.op = "RdCurr" /\ l.job # m.job
      /\ \A i \in DOMAIN io' : io'[i].op # "go" /\ (io'[i].op = "back" => io'[i].job # m.job)
  BY <1>0, Alone
<1>2. RunsOnce(io', wire', m'.job) /\ \A k \in 0 .. 3 : Out(k)' <=> k = n
  <2>1. RunsOnce(io', wire \cup {x}, m.job) /\ \A k \in 0 .. 3 : Runs(io', wire \cup {x}, m.job, k) <=> k = n
    BY <1>0, AddErrand
  <2> QED BY <2>1 DEF Out
<1>3. ErrandInv'
  <2>1. (Out(0)' <=> n = 0) /\ ~Out(1)' /\ ~Out(2)'
    BY <1>2
  <2> QED BY <1>2, <2>1 DEF ErrandInv, One
<1>4. JobInv'
  <2>1. \A l \in wire' : l.gen = m.gen /\ l.job <= m.job /\ (l.op \in {"ItoMWr", "go"} => l.job = m.job)
    BY <1>0, <1>1, PopJobs
  <2>2. \A i \in DOMAIN io' : io'[i].op \in {"back", "go"} => io'[i].gen = m.gen /\ io'[i].job <= m.job
    BY PopJobs
  <2> QED BY <1>1, <2>1, <2>2 DEF JobInv, OfJob
<1> QED BY <1>1, <1>2, <1>3, <1>4

\* A line read is back: the module is on the command at PTQ_HEAD and has no other errand.
LEMMA BackIs ==
  ASSUME TypeOK, ModuleInv, Pop, Msg.op = "back", Msg.job = m.job
  PROVE  /\ m.enable /\ m.enabled /\ ~m.draining /\ m.busy /\ ~m.wedged /\ m.inflight = 0 /\ Out(3)
         /\ RunsOnce(io', wire, m.job) /\ \A k \in 0 .. 3 : ~Runs(io', wire, m.job, k)
         /\ Msg.idx = m.head /\ Msg.cmd = m.head
         /\ Msg.what = "desc" => GDone
         /\ Msg.what = "operands" => Loading
<1>1. Shifted /\ ErrandInv /\ StageInv /\ ReadInv
  BY PopShifts DEF ModuleInv
<1>2. \A k \in 0 .. 3 : Errand(Msg, m.job, k) <=> k = 3
  BY DEF Errand
<1>3. Out(3)
  BY <1>1, <1>2, Left
<1>4. Fetching \/ Loading
  BY <1>1, <1>3 DEF StageInv, Stopped, Waiting, Wedged, Shooting, Recording
<1>5. m.enable /\ m.enabled /\ ~m.draining /\ m.busy /\ ~m.wedged /\ m.inflight = 0
  BY <1>1, <1>4 DEF StageInv, Fetching, Loading
<1>6. ~Out(0) /\ ~Out(1) /\ ~Out(2)
  BY <1>1, <1>5 DEF ErrandInv, One
<1>7. RunsOnce(io', wire, m.job) /\ \A k \in 0 .. 3 : ~Runs(io', wire, m.job, k)
  BY <1>1, <1>2, <1>6, Left
<1>8. /\ Msg.idx = m.head /\ Msg.cmd = m.head
      /\ Msg.what = IF g.pc = "operands" THEN "operands" ELSE "desc"
  BY <1>1 DEF ReadInv, Shifted
<1>9. (Msg.what = "desc" => GDone) /\ (Msg.what = "operands" => Loading)
  BY <1>4, <1>8 DEF Fetching, Loading, GDone
<1> QED BY <1>3, <1>5, <1>7, <1>8, <1>9

LEMMA WedgeModule ==
  ASSUME TypeOK, TypeOK', ModuleInv, Wedge
  PROVE  ModuleInv'
<1>1. Pop /\ Msg.op = "back" /\ Msg.job = m.job /\ Msg.what = "desc" /\ g' = g /\ wire' = wire
      /\ m' = [m EXCEPT !.wedged = TRUE] /\ m \in ModuleStates
  BY DEF Wedge, IsDescriptor, TypeOK
<1>2. /\ m'.gen = m.gen /\ m'.job = m.job /\ m'.enable /\ m'.enabled /\ m'.busy /\ m'.inflight = 0
      /\ m'.wedged /\ ~m'.draining /\ m'.head = m.head
  BY <1>1, BackIs DEF ModuleStates
<1>3. \A k \in 0 .. 3 : ~Out(k)'
  BY <1>1, <1>2, BackIs DEF Out
<1>4. io' \in Seq(Messages)
  BY DEF TypeOK
<1>5. ErrandInv'
  <2>1. RunsOnce(io', wire', m'.job)
    BY <1>1, <1>2, BackIs
  <2>2. ~Out(0)' /\ ~Out(1)' /\ ~Out(2)'
    BY <1>3
  <2> QED BY <1>2, <2>1, <2>2 DEF ErrandInv, One
<1>6. /\ \A l \in wire : l.op = "RdCurr" /\ l.job # m.job
      /\ \A i \in DOMAIN io' : io'[i].op # "go" /\ (io'[i].op = "back" => io'[i].job # m.job)
  BY <1>1, <1>4, BackIs, Alone
<1>7. JobInv'
  BY <1>1, <1>2, <1>6, PopJobs DEF JobInv, OfJob, ModuleInv
<1>8. ReadInv'
  BY <1>1, <1>2, <1>6 DEF ReadInv
<1>9. StageInv'
  <2>1. GDone'
    BY <1>1, BackIs DEF GDone, Pop
  <2>2. Wedged'
    BY <1>2, <1>3, <2>1 DEF Wedged
  <2>3. g'.pc # "idle" => g'.cmd \in 0 .. h'.next - 1
    BY <1>1 DEF ModuleInv, StageInv, Pop
  <2>4. m'.enabled = (m'.enable \/ m'.draining)
    BY <1>2 DEF TypeOK, ModuleStates
  <2> QED BY <1>2, <2>2, <2>3, <2>4 DEF StageInv
<1> QED BY <1>5, <1>7, <1>8, <1>9 DEF ModuleInv

LEMMA EndsEarlyModule ==
  ASSUME TypeOK, TypeOK', ModuleInv, NEW s \in Failed, EndsEarly(s)
  PROVE  ModuleInv'
<1> DEFINE x == RecordLine(m, Msg.idx, Msg.cmd, s, None)
<1>1. Pop /\ Msg.op = "back" /\ Msg.job = m.job /\ Msg.what = "desc" /\ g' = g /\ wire' = wire \cup {x}
      /\ m' = [m EXCEPT !.inflight = @ + 1] /\ m \in ModuleStates
  BY DEF EndsEarly, IsDescriptor, TypeOK
<1>2. /\ m'.gen = m.gen /\ m'.job = m.job /\ m'.enable /\ m'.enabled /\ m'.busy /\ m'.inflight = 1
      /\ ~m'.wedged /\ ~m'.draining /\ m'.head = m.head /\ m.enable
  BY <1>1, BackIs DEF ModuleStates
<1>3. x.op = "ItoMWr" /\ x.what = "rec" /\ x.gen = m.gen /\ x.job = m.job
  BY DEF RecordLine
<1> HIDE DEF x
<1>4. \A k \in 0 .. 3 : Errand(x, m.job, k) <=> k = 0
  BY <1>3 DEF Errand
<1>5. RunsOnce(io', wire, m.job) /\ \A k \in 0 .. 3 : ~Runs(io', wire, m.job, k)
  BY <1>1, BackIs
<1>6. m'.inflight = One(0 = 0)
  BY <1>2 DEF One
<1>7. /\ JobInv' /\ ErrandInv' /\ \A k \in 0 .. 3 : Out(k)' <=> k = 0
      /\ \A l \in wire' : l.op = "RdCurr" /\ l.job = m.job => l = x
      /\ \A i \in DOMAIN io' : io'[i].op = "back" => io'[i].job # m.job
  BY <1>1, <1>2, <1>3, <1>4, <1>5, <1>6, OneOut DEF ModuleInv
<1>8. ReadInv'
  BY <1>2, <1>3, <1>7 DEF ReadInv
<1>9. StageInv'
  <2>1. GDone'
    BY <1>1, BackIs DEF GDone, Pop
  <2>2. Recording'
    BY <1>2, <1>7, <2>1 DEF Recording
  <2>3. g'.pc # "idle" => g'.cmd \in 0 .. h'.next - 1
    BY <1>1 DEF ModuleInv, StageInv, Pop
  <2>4. m'.enabled = (m'.enable \/ m'.draining)
    BY <1>2 DEF TypeOK, ModuleStates
  <2> QED BY <1>2, <2>2, <2>3, <2>4 DEF StageInv
<1> QED BY <1>7, <1>8, <1>9 DEF ModuleInv

LEMMA StartGemmModule ==
  ASSUME TypeOK, TypeOK', ModuleInv, IndexInv, StartGemm
  PROVE  ModuleInv'
<1> DEFINE x == ReadLine(m, "operands", Msg.idx)
<1>1. Pop /\ Msg.op = "back" /\ Msg.job = m.job /\ Msg.what = "desc" /\ wire' = wire \cup {x}
      /\ m' = [m EXCEPT !.gemm_ct = @ + 1] /\ m \in ModuleStates
  BY DEF StartGemm, IsDescriptor, TypeOK
<1>2. /\ m'.gen = m.gen /\ m'.job = m.job /\ m'.enable /\ m'.enabled /\ m'.busy /\ m'.inflight = 0
      /\ ~m'.wedged /\ ~m'.draining /\ m'.head = m.head /\ m.enable
  BY <1>1, BackIs DEF ModuleStates
<1>3. Msg.idx = m.head /\ Msg.cmd = m.head /\ Out(3)
  BY <1>1, BackIs
<1>4. m.ring /\ m.head \in 0 .. h.next - 1
  <2>1. m.head \in Nat /\ h.next \in Nat /\ h.hhead \in Nat
    BY DEF TypeOK, HostStates, ModuleStates
  <2>2. m.head \in Live /\ m.ring
    BY <1>3, ReadsLive
  <2> QED BY <2>1, <2>2 DEF Live
<1>5. /\ g'.pc = "operands" /\ g'.idx = m.head /\ g'.cmd = m.head /\ g'.job = m.job /\ g'.sent = 0
      /\ g'.ordered = 0
  BY <1>3 DEF StartGemm, Idle
<1>6. x.op = "RdCurr" /\ x.what = "operands" /\ x.gen = m.gen /\ x.job = m.job /\ x.idx = m.head
      /\ x.at = SlotOf(m.head)
  BY <1>3, <1>4 DEF ReadLine, SlotAddr
<1> HIDE DEF x
<1>7. \A k \in 0 .. 3 : Errand(x, m.job, k) <=> k = 3
  BY <1>6 DEF Errand
<1>8. RunsOnce(io', wire, m.job) /\ \A k \in 0 .. 3 : ~Runs(io', wire, m.job, k)
  BY <1>1, BackIs
<1>9. m'.inflight = One(3 = 0)
  BY <1>2 DEF One
<1>10. /\ JobInv' /\ ErrandInv' /\ \A k \in 0 .. 3 : Out(k)' <=> k = 3
       /\ \A l \in wire' : l.op = "RdCurr" /\ l.job = m.job => l = x
       /\ \A i \in DOMAIN io' : io'[i].op = "back" => io'[i].job # m.job
  BY <1>1, <1>2, <1>6, <1>7, <1>8, <1>9, OneOut DEF ModuleInv
<1>11. ReadInv'
  BY <1>2, <1>5, <1>6, <1>10 DEF ReadInv
<1>12. StageInv'
  <2>1. OnHead'
    BY <1>2, <1>5 DEF OnHead
  <2>2. Loading'
    BY <1>2, <1>5, <1>10, <2>1 DEF Loading
  <2>3. g'.cmd \in 0 .. h'.next - 1
    BY <1>1, <1>4, <1>5 DEF Pop
  <2>4. m'.enabled = (m'.enable \/ m'.draining)
    BY <1>2 DEF TypeOK, ModuleStates
  <2> QED BY <1>2, <2>2, <2>3, <2>4 DEF StageInv
<1> QED BY <1>10, <1>11, <1>12 DEF ModuleInv

LEMMA OperandsModule ==
  ASSUME TypeOK, TypeOK', ModuleInv, Operands
  PROVE  ModuleInv'
<1>1. Pop /\ Msg.op = "back" /\ Msg.job = m.job /\ Msg.what = "operands" /\ wire' = wire /\ m' = m
      /\ g' = [g EXCEPT !.pc = "shots"] /\ g \in Works /\ cmd' = cmd
  BY DEF Operands, TypeOK, Pop
<1>2. Loading /\ m.enable /\ m.enabled /\ ~m.draining /\ m.busy /\ ~m.wedged /\ m.inflight = 0
  BY <1>1, BackIs
<1>3. \A k \in 0 .. 3 : ~Out(k)'
  BY <1>1, BackIs DEF Out
<1>4. io' \in Seq(Messages)
  BY DEF TypeOK
<1>5. ErrandInv'
  <2>1. RunsOnce(io', wire', m'.job)
    BY <1>1, BackIs
  <2>2. ~Out(0)' /\ ~Out(1)' /\ ~Out(2)'
    BY <1>3
  <2> QED BY <1>1, <1>2, <2>1, <2>2 DEF ErrandInv, One
<1>6. /\ \A l \in wire : l.op = "RdCurr" /\ l.job # m.job
      /\ \A i \in DOMAIN io' : io'[i].op # "go" /\ (io'[i].op = "back" => io'[i].job # m.job)
  BY <1>1, <1>4, BackIs, Alone
<1>7. JobInv'
  BY <1>1, <1>6, PopJobs DEF JobInv, OfJob, ModuleInv
<1>8. ReadInv'
  BY <1>1, <1>6 DEF ReadInv
<1>9. StageInv'
  <2>1. g'.pc = "shots" /\ g'.sent = 0 /\ g'.ordered = 0 /\ g'.cmd = g.cmd /\ g'.idx = g.idx /\ g'.job = g.job
    BY <1>1, <1>2 DEF Works, Loading
  <2>2. OnHead'
    BY <1>1, <1>2, <2>1 DEF OnHead, Loading
  <2>3. Shooting'
    BY <1>1, <1>2, <1>3, <2>1, <2>2, LinesOf DEF Shooting
  <2>4. g'.pc # "idle" => g'.cmd \in 0 .. h'.next - 1
    BY <1>1, <1>2, <2>1 DEF ModuleInv, StageInv, Pop, Loading
  <2> QED BY <1>1, <1>2, <2>3, <2>4 DEF StageInv, ModuleInv
<1> QED BY <1>5, <1>7, <1>8, <1>9 DEF ModuleInv

\* The enable that starts the queue arrives: the registers it needs are written.
LEMMA StartIs ==
  ASSUME TypeOK, AskedInv, StartInv, QuietInv, Pop, Starts(Msg), ~m.enable
  PROVE  /\ Working \/ Stopping
         /\ ~m.enabled /\ m.ring /\ m.tail = h.origin /\ h.hhead = h.origin /\ m.head <= h.origin
         /\ \A i \in DOMAIN io' : IsWrite(io'[i], "TAIL") => io'[i].val > h.origin
<1>0. Shifted /\ Msg.op = "write" /\ ~Stops(Msg)
  BY PopShifts DEF Starts, Stops, IsWrite
<1>1. Working \/ Stopping
  <2>1. CASE h.pc = "status" /\ ~Stopping
    BY <1>0, <2>1 DEF AskedInv, Shifted
  <2>2. CASE h.pc = "head"
    BY <1>0, <2>2 DEF AskedInv, Shifted
  <2>3. CASE h.pc = "flr"
    <3>1. io = <<Flr>> \/ io = <<>>
      BY <2>3 DEF QuietInv
    <3>2. Msg.op = "flr"
      BY <1>0, <3>1 DEF Shifted, Flr
    <3> QED BY <1>0, <3>2
  <2>4. h.pc \in {"script", "drain", "await", "status", "head", "flr"}
    BY DEF TypeOK, HostStates
  <2> QED BY <2>1, <2>2, <2>3, <2>4 DEF Working
<1>2. PICK p \in DOMAIN io :
         /\ Starts(io[p])
         /\ \A q \in DOMAIN io : IsWrite(io[q], "TAIL") =>
              IF q < p THEN io[q].val = h.origin ELSE io[q].val > h.origin
         /\ \A q \in 1 .. p - 1 : ~Starts(io[q]) /\ ~Stops(io[q]) /\ ~IsWrite(io[q], "IRQ_AT")
         /\ m.tail = h.origin \/ \E q \in 1 .. p - 1 : IsWrite(io[q], "TAIL")
         /\ m.ring \/ \E q \in 1 .. p - 1 : IsWrite(io[q], "RING")
  BY <1>1 DEF StartInv
<1>3. p = 1
  BY <1>0, <1>2 DEF Shifted
<1>4. m.tail = h.origin /\ m.ring
  BY <1>2, <1>3
<1>5. \A i \in DOMAIN io' : IsWrite(io'[i], "TAIL") => io'[i].val > h.origin
  <2> TAKE i \in DOMAIN io'
  <2>1. i + 1 \in DOMAIN io /\ io'[i] = io[i + 1] /\ ~(i + 1 < 1)
    BY <1>0 DEF Shifted
  <2> QED BY <1>2, <1>3, <2>1
<1>6. ~m.enabled /\ h.hhead = h.origin /\ m.head <= h.origin
  BY <1>1 DEF StartInv
<1> QED BY <1>1, <1>4, <1>5, <1>6

LEMMA StartQueueModule ==
  ASSUME TypeOK, TypeOK', ModuleInv, AskedInv, StartInv, QuietInv, StartQueue
  PROVE  ModuleInv'
<1> DEFINE mm == [m EXCEPT !.irq_en = Msg.val.irq, !.enable = TRUE, !.enabled = TRUE, !.head = m.tail,
                           !.prev = "none", !.halted = FALSE]
<1>1. Pop /\ Starts(Msg) /\ ~m.wedged /\ ~m.enable /\ Kick(mm, wire) /\ g' = g
  BY DEF StartQueue
<1>2. m \in ModuleStates /\ Msg \in Messages /\ Msg.op = "write" /\ Msg.reg = "CTRL"
  BY <1>1, HeadTyped DEF TypeOK, Starts, IsWrite, Pop
<1>3. Msg.val.irq \in BOOLEAN
  BY <1>2, MessageShape DEF Controls, Flr
<1>4. mm \in ModuleStates
  BY <1>2, <1>3 DEF ModuleStates
<1>5. ~m.enabled /\ m.ring
  BY <1>1, StartIs
<1>6. StageInv /\ ErrandInv /\ JobInv
  BY DEF ModuleInv
<1>7. ~m.draining /\ m.inflight = 0
  BY <1>1, <1>5, <1>6 DEF StageInv
<1>8. ~m.busy /\ GDone /\ ~Out(3)
  BY <1>1, <1>6 DEF StageInv, Stopped, Waiting, Wedged, Fetching, Loading, Shooting, Recording
<1>9. ~Out(0) /\ ~Out(1) /\ ~Out(2)
  BY <1>6, <1>7 DEF ErrandInv, One
<1>10. mm.gen = m.gen /\ mm.job = m.job /\ mm.enable /\ mm.enabled /\ ~mm.draining /\ ~mm.busy
       /\ ~mm.wedged /\ mm.inflight = 0 /\ mm.ring
  BY <1>1, <1>2, <1>5, <1>7, <1>8 DEF ModuleStates
<1> HIDE DEF mm
<1>11. RunsOnce(io', wire, mm.job) /\ \A k \in 0 .. 3 : ~Runs(io', wire, mm.job, k)
  BY <1>1, <1>6, <1>8, <1>9, <1>10, Left
<1>12. /\ \A l \in wire : l.gen = mm.gen /\ l.job <= mm.job
       /\ \A i \in DOMAIN io' : io'[i].op \in {"back", "go"} => io'[i].gen = mm.gen /\ io'[i].job <= mm.job
  BY <1>1, <1>6, <1>10, PopJobs
<1> QED BY <1>1, <1>4, <1>6, <1>8, <1>10, <1>11, <1>12, KickModule

LEMMA SettleIs ==
  ASSUME NEW mm \in ModuleStates, mm.draining = mm.enabled, mm.draining, m' = Settle(mm)
  PROVE  /\ m'.gen = mm.gen /\ m'.job = mm.job /\ m'.enable = mm.enable
         /\ m'.inflight = mm.inflight /\ m'.wedged = mm.wedged /\ m'.busy = mm.busy
         /\ m'.head = mm.head /\ m'.tail = mm.tail /\ m'.ring = mm.ring /\ m'.irq_at = mm.irq_at
         /\ m'.irq_en = mm.irq_en /\ m'.seed = mm.seed /\ m'.gemm_ct = mm.gemm_ct /\ m'.prev = mm.prev
         /\ m'.halted = mm.halted
         /\ m'.draining = (mm.inflight # 0) /\ m'.enabled = (mm.inflight # 0)
<1>1. CASE mm.inflight = 0
  BY <1>1 DEF Settle, ModuleStates
<1>2. CASE mm.inflight # 0
  BY <1>2 DEF Settle, ModuleStates
<1> QED BY <1>1, <1>2

LEMMA StopQueueModule ==
  ASSUME TypeOK, TypeOK', ModuleInv, StopQueue
  PROVE  ModuleInv'
<1> DEFINE mm == [m EXCEPT !.irq_en = Msg.val.irq, !.enable = FALSE, !.job = m.job + 1,
                           !.busy = FALSE, !.draining = TRUE]
<1>1. Pop /\ Stops(Msg) /\ ~m.wedged /\ m.enable /\ m' = Settle(mm) /\ g' = Idle /\ wire' = wire
  BY DEF StopQueue
<1>2. m \in ModuleStates /\ Msg \in Messages /\ Msg.op = "write" /\ Msg.reg = "CTRL" /\ m.job \in Nat
      /\ m.job + 1 \in Nat /\ io' \in Seq(Messages) /\ wire \in SUBSET Lines
  <2>1. m \in ModuleStates /\ io' \in Seq(Messages) /\ wire \in SUBSET Lines
    BY DEF TypeOK
  <2>2. Msg \in Messages /\ Msg.op = "write" /\ Msg.reg = "CTRL"
    BY <1>1, HeadTyped DEF Stops, IsWrite, Pop
  <2> QED BY <2>1, <2>2 DEF ModuleStates
<1>3. Msg.val.irq \in BOOLEAN
  BY <1>2, MessageShape DEF Controls, Flr
<1>4. mm \in ModuleStates
  BY <1>2, <1>3 DEF ModuleStates
<1>5. StageInv /\ ErrandInv /\ JobInv
  BY DEF ModuleInv
<1>6. m.enabled
  BY <1>1, <1>5 DEF StageInv
<1>7. /\ mm.draining /\ mm.draining = mm.enabled /\ mm.gen = m.gen /\ mm.job = m.job + 1 /\ ~mm.enable
      /\ mm.inflight = m.inflight /\ ~mm.wedged /\ ~mm.busy
  BY <1>1, <1>2, <1>6 DEF ModuleStates
<1> HIDE DEF mm
<1>8. /\ m'.gen = m.gen /\ m'.job = m.job + 1 /\ ~m'.enable /\ m'.inflight = m.inflight /\ ~m'.wedged
      /\ ~m'.busy /\ m'.draining = (m.inflight # 0) /\ m'.enabled = (m.inflight # 0)
  BY <1>1, <1>4, <1>7, SettleIs
<1>9. RunsOnce(io', wire, m.job) /\ \A k \in 0 .. 3 : Runs(io', wire, m.job, k) <=> Out(k)
  <2>1. \A k \in 0 .. 3 : ~Errand(Msg, m.job, k)
    BY <1>2, ControlErrand
  <2> QED BY <1>1, <1>5, <2>1, Left
<1>10. /\ \A l \in wire : l.gen = m.gen /\ l.job <= m.job
       /\ \A i \in DOMAIN io' : io'[i].op \in {"back", "go"} => io'[i].gen = m.gen /\ io'[i].job <= m.job
  BY <1>1, <1>5, PopJobs
<1>11. /\ RunsOnce(io', wire', m'.job) /\ \A k \in 0 .. 2 : Out(k)' <=> Out(k)
       /\ ~Out(3)'
  <2>1. /\ RunsOnce(io', wire, m.job + 1)
        /\ \A k \in 0 .. 2 : Runs(io', wire, m.job + 1, k) <=> Runs(io', wire, m.job, k)
        /\ ~Runs(io', wire, m.job + 1, 3)
    BY <1>2, <1>9, <1>10, NewJobErrand
  <2> QED BY <1>1, <1>8, <1>9, <2>1 DEF Out
<1>12. ErrandInv'
  <2>1. (Out(0)' <=> Out(0)) /\ (Out(1)' <=> Out(1)) /\ (Out(2)' <=> Out(2))
    BY <1>11
  <2> QED BY <1>5, <1>8, <1>11, <2>1 DEF ErrandInv, One
<1>13. g'.pc = "idle"
  BY <1>1 DEF Idle
<1>14. StageInv'
  <2>1. Stopped'
    BY <1>8, <1>11, <1>13 DEF Stopped, GDone
  <2> QED BY <1>8, <1>13, <2>1 DEF StageInv, TypeOK, ModuleStates
<1>15. JobInv'
  <2>1. \A l \in wire : l.op \in {"ItoMWr", "go"} => l.job = m.job
    BY <1>1, <1>5 DEF JobInv, OfJob
  <2>2. \A i \in DOMAIN io' : io'[i].op \in {"ItoMWr", "go"} /\ io'[i].op \in {"back", "go"} => io'[i].job = m.job
    BY <1>1, <1>5, PopShifts DEF JobInv, OfJob, Shifted
  <2>3. \A l \in wire : OfJob(l)'
    <3> TAKE l \in wire
    <3>1. l.job \in Nat
      BY <1>2 DEF Lines, Results, Records, Reads
    <3> QED BY <1>2, <1>8, <1>10, <2>1, <3>1 DEF OfJob
  <2>4. \A i \in DOMAIN io' : io'[i].op \in {"back", "go"} =>
          /\ io'[i].gen = m'.gen /\ io'[i].job <= m'.job
          /\ io'[i].op \in {"ItoMWr", "go"} => (io'[i].job = m'.job <=> m'.enable)
    <3> TAKE i \in DOMAIN io'
    <3>1. io'[i].op \in {"back", "go"} => io'[i].job \in Nat
      BY <1>2, MessageShape DEF Results, Records, Backs
    <3> QED BY <1>2, <1>8, <1>10, <2>2, <3>1
  <2> QED BY <1>1, <2>3, <2>4 DEF JobInv, OfJob
<1>16. ReadInv'
  <2>1. \A l \in wire : l.op = "RdCurr" => l.job # m.job + 1
    <3> TAKE l \in wire
    <3>1. l.job \in Nat
      BY <1>2 DEF Lines, Results, Records, Reads
    <3> QED BY <1>2, <1>10, <3>1
  <2>2. \A i \in DOMAIN io' : io'[i].op = "back" => io'[i].job # m.job + 1
    <3> TAKE i \in DOMAIN io'
    <3>1. io'[i].op = "back" => io'[i].job \in Nat
      BY <1>2, MessageShape DEF Backs
    <3> QED BY <1>2, <1>10, <3>1
  <2> QED BY <1>1, <1>8, <2>1, <2>2 DEF ReadInv
<1> QED BY <1>12, <1>14, <1>15, <1>16 DEF ModuleInv

LEMMA TailOnModule ==
  ASSUME TypeOK, TypeOK', ModuleInv, IndexInv, TailOn
  PROVE  ModuleInv'
<1> DEFINE mm == [m EXCEPT !.tail = Msg.val]
<1>1. Pop /\ IsWrite(Msg, "TAIL") /\ ~m.wedged /\ m.enable /\ Kick(mm, wire) /\ g' = g
  BY DEF TailOn
<1>2. m \in ModuleStates /\ Msg.val \in Nat
  <2>1. Msg \in Messages /\ Msg.op = "write" /\ Msg.reg = "TAIL"
    BY <1>1, HeadTyped DEF IsWrite, Pop
  <2>2. Msg.val \in Nat
    BY <2>1, MessageShape DEF Controls, Flr
  <2> QED BY <2>2 DEF TypeOK
<1>3. mm \in ModuleStates
  BY <1>2 DEF ModuleStates
<1>4. /\ mm.gen = m.gen /\ mm.job = m.job /\ mm.enable = m.enable /\ mm.enabled = m.enabled
      /\ mm.busy = m.busy /\ mm.inflight = m.inflight /\ mm.wedged = m.wedged
      /\ mm.draining = m.draining /\ mm.head = m.head /\ mm.ring = m.ring
  BY <1>2 DEF ModuleStates
<1> HIDE DEF mm
<1>5. StageInv /\ ErrandInv /\ JobInv /\ m.ring
  BY <1>1 DEF ModuleInv, IndexInv
<1>6. \A k \in 0 .. 3 : ~Errand(Msg, m.job, k)
  BY <1>1, ControlErrand DEF IsWrite
<1>7. CASE m.busy
  <2>1. ~CanKick(mm)
    BY <1>4, <1>7 DEF CanKick
  <2>2. SameModule /\ wire' = wire
    BY <1>1, <1>4, <2>1 DEF Kick, SameModule
  <2> QED BY <1>1, <1>6, <2>2, PopSame
<1>8. CASE ~m.busy
  <2>1. Waiting
    BY <1>1, <1>5, <1>8 DEF StageInv, Stopped, Wedged, Fetching, Loading, Shooting, Recording
  <2>2. m.inflight = 0 /\ GDone /\ ~Out(3) /\ m.enabled /\ ~m.draining
    BY <1>1, <1>5, <2>1 DEF Waiting, StageInv
  <2>3. ~Out(0) /\ ~Out(1) /\ ~Out(2)
    BY <1>5, <2>2 DEF ErrandInv, One
  <2>4. RunsOnce(io', wire, mm.job) /\ \A k \in 0 .. 3 : ~Runs(io', wire, mm.job, k)
    BY <1>1, <1>4, <1>5, <2>2, <2>3, Left
  <2>5. /\ \A l \in wire : l.gen = mm.gen /\ l.job <= mm.job
        /\ \A i \in DOMAIN io' : io'[i].op \in {"back", "go"} => io'[i].gen = mm.gen /\ io'[i].job <= mm.job
    BY <1>1, <1>4, <1>5, PopJobs
  <2>6. mm.enable /\ mm.enabled /\ ~mm.draining /\ ~mm.busy /\ ~mm.wedged /\ mm.inflight = 0 /\ mm.ring
    BY <1>1, <1>4, <1>5, <1>8, <2>2
  <2> QED BY <1>1, <1>3, <1>5, <2>2, <2>4, <2>5, <2>6, KickModule
<1> QED BY <1>7, <1>8

LEMMA TakeFlrIs ==
  ASSUME TypeOK, AskedInv, QuietInv, TakeFlr
  PROVE  /\ h.pc = "flr" /\ io = <<Flr>> /\ io' = <<>> /\ wire = {} /\ up = <<>> /\ m.wedged
         /\ m' = ResetState(m.gen + 1) /\ UNCHANGED <<g, up, wire, script, slot, res, cmd, ended, h>>
<1>1. Shifted /\ Msg.op = "flr" /\ Pop
  BY PopShifts DEF TakeFlr
<1>2. h.pc = "flr"
  BY <1>1 DEF AskedInv, Shifted
<1>3. io = <<Flr>> /\ wire = {} /\ up = <<>> /\ m.wedged
  BY <1>1, <1>2 DEF QuietInv, Pop
<1>4. io' = <<>>
  BY <1>1, <1>3 DEF Pop
<1> QED BY <1>1, <1>2, <1>3, <1>4 DEF TakeFlr, Pop

LEMMA TakeFlrModule ==
  ASSUME TypeOK, TypeOK', ModuleInv, AskedInv, QuietInv, TakeFlr
  PROVE  ModuleInv'
<1>1. m' = ResetState(m.gen + 1) /\ io' = <<>> /\ wire' = {} /\ g' = g /\ cmd' = cmd /\ h' = h /\ m.wedged
  BY TakeFlrIs
<1>2. GDone
  BY <1>1 DEF ModuleInv, StageInv, Stopped, Waiting, Wedged, Fetching, Loading, Shooting, Recording
<1>3. /\ ~m'.enable /\ ~m'.enabled /\ ~m'.busy /\ m'.inflight = 0 /\ ~m'.wedged /\ ~m'.draining
      /\ m'.enabled \in BOOLEAN
  BY <1>1 DEF ResetState
<1>4. \A k \in 0 .. 3 : ~Out(k)'
  BY <1>1 DEF Out, Runs
<1>5. ErrandInv'
  <2>1. RunsOnce(io', wire', m'.job)
    BY <1>1 DEF RunsOnce
  <2>2. ~Out(0)' /\ ~Out(1)' /\ ~Out(2)'
    BY <1>4
  <2> QED BY <1>3, <2>1, <2>2 DEF ErrandInv, One
<1>6. StageInv'
  <2>1. GDone'
    BY <1>1, <1>2 DEF GDone
  <2>2. Stopped'
    BY <1>3, <1>4, <2>1 DEF Stopped
  <2>3. g'.pc # "idle" => g'.cmd \in 0 .. h'.next - 1
    BY <1>1 DEF ModuleInv, StageInv
  <2> QED BY <1>3, <2>2, <2>3 DEF StageInv
<1>7. JobInv' /\ ReadInv'
  BY <1>1 DEF JobInv, ReadInv
<1> QED BY <1>5, <1>6, <1>7 DEF ModuleInv

\* A line is known to be ordered: the module is stopped, recording or shooting.
LEMMA GoIs ==
  ASSUME TypeOK, ModuleInv, Pop, Msg.op = "go"
  PROVE  /\ Msg.gen = m.gen /\ Msg \in Results("go") \cup Records("go")
         /\ m.enable <=> Msg.job = m.job
         /\ m.enable /\ Msg.what = "rec" => Recording /\ m.inflight = 1 /\ ~Out(1) /\ ~Out(2)
         /\ m.enable /\ Msg.what = "res" => Shooting
         /\ ~m.enable => Stopped
<1>1. Shifted /\ ErrandInv /\ StageInv /\ JobInv
  BY PopShifts DEF ModuleInv
<1>2. Msg \in Results("go") \cup Records("go")
  BY <1>1, MessageShape DEF Shifted
<1>3. Msg.gen = m.gen /\ (m.enable <=> Msg.job = m.job)
  BY <1>1 DEF Shifted, JobInv, OfJob
<1>4. ASSUME m.enable, Msg.what = "rec" PROVE Recording /\ m.inflight = 1 /\ ~Out(1) /\ ~Out(2)
  <2>1. Errand(Msg, m.job, 0)
    BY <1>4 DEF Errand
  <2>2. Out(0)
    BY <1>1, <2>1, Left
  <2>3. m.inflight = 1 /\ ~Out(1) /\ ~Out(2)
    BY <1>1, <2>2 DEF ErrandInv, One
  <2>4. Recording
    BY <1>1, <1>4, <2>2, <2>3 DEF StageInv, Stopped, Waiting, Wedged, Fetching, Loading, Shooting
  <2> QED BY <2>3, <2>4
<1>5. ASSUME m.enable, Msg.what = "res" PROVE Shooting
  <2>1. Msg.line \in 1 .. 2 /\ Errand(Msg, m.job, Msg.line)
    BY <1>2, <1>5 DEF Errand, Results, Records
  <2>2. Out(1) \/ Out(2)
    BY <1>1, <2>1, Left
  <2>3. m.inflight # 0 /\ ~Out(0)
    BY <1>1, <2>2 DEF ErrandInv, One
  <2> QED BY <1>1, <1>5, <2>3 DEF StageInv, Stopped, Waiting, Wedged, Fetching, Loading, Recording
<1>6. ~m.enable => Stopped
  BY <1>1 DEF StageInv, Waiting, Wedged, Fetching, Loading, Shooting, Recording
<1> QED BY <1>2, <1>3, <1>4, <1>5, <1>6

\* Taking it, one errand fewer is out.
LEMMA GoCounts ==
  ASSUME TypeOK, ModuleInv, Pop, Msg.op = "go"
  PROVE  /\ RunsOnce(io', wire, m.job)
         /\ Runs(io', wire, m.job, 3) <=> Out(3)
         /\ Runs(io', wire, m.job, 0) => Out(0) /\ ~Runs(io', wire, m.job, 1) /\ ~Runs(io', wire, m.job, 2)
         /\ \A k \in 1 .. 2 : Runs(io', wire, m.job, k) => Out(k)
         /\ m.inflight - 1 = One(Runs(io', wire, m.job, 0)) + One(Runs(io', wire, m.job, 1))
                               + One(Runs(io', wire, m.job, 2))
<1> DEFINE L(k) == Runs(io', wire, m.job, k)
<1>1. ErrandInv /\ Msg \in Results("go") \cup Records("go")
  BY GoIs DEF ModuleInv
<1>2. \E n \in 0 .. 2 : \A k \in 0 .. 3 : Errand(Msg, m.job, k) <=> k = n
  <2>1. CASE Msg \in Records("go")
    BY <2>1, ErrandIs
  <2>2. CASE Msg \in Results("go")
    <3>1. Msg.line \in 0 .. 2
      BY <2>2, ErrandIs
    <3> QED BY <2>2, <3>1, ErrandIs
  <2> QED BY <1>1, <2>1, <2>2
<1>3. PICK n \in 0 .. 2 : \A k \in 0 .. 3 : Errand(Msg, m.job, k) <=> k = n
  BY <1>2
<1>4. RunsOnce(io', wire, m.job) /\ \A k \in 0 .. 3 : L(k) <=> Out(k) /\ k # n
  BY <1>1, <1>3, Left
<1>5. Out(n)
  BY <1>1, <1>3, Left
<1> HIDE DEF L
<1>6. /\ L(0) <=> Out(0) /\ n # 0
      /\ L(1) <=> Out(1) /\ n # 1
      /\ L(2) <=> Out(2) /\ n # 2
      /\ L(3) <=> Out(3)
  BY <1>4
<1>7. L(0) => Out(0) /\ ~L(1) /\ ~L(2)
  BY <1>1, <1>6 DEF ErrandInv
<1>8. m.inflight = One(Out(0)) + One(Out(1)) + One(Out(2))
  BY <1>1 DEF ErrandInv
<1>9. m.inflight - 1 = One(L(0)) + One(L(1)) + One(L(2))
  <2>1. CASE n = 0
    BY <1>5, <1>6, <1>8, <2>1 DEF One
  <2>2. CASE n = 1
    BY <1>5, <1>6, <1>8, <2>2 DEF One
  <2>3. CASE n = 2
    BY <1>5, <1>6, <1>8, <2>3 DEF One
  <2> QED BY <2>1, <2>2, <2>3
<1>10. \A k \in 1 .. 2 : L(k) => Out(k)
  BY <1>4
<1> QED BY <1>4, <1>6, <1>7, <1>9, <1>10 DEF L

LEMMA DroppedModule ==
  ASSUME TypeOK, TypeOK', ModuleInv, Dropped
  PROVE  ModuleInv'
<1> DEFINE mm == [m EXCEPT !.inflight = @ - 1, !.busy = IF Msg.what = "rec" THEN FALSE ELSE @]
<1>1. Pop /\ Msg.op = "go" /\ m' = Settle(mm) /\ g' = g /\ wire' = wire
      /\ (Msg.what = "rec" => ~m.enable \/ Msg.job # m.job) /\ (Msg.what = "res" => Msg.job # m.job)
  BY DEF Dropped
<1>2. ~m.enable /\ Stopped
  <2>1. Msg.what \in {"res", "rec"}
    BY <1>1, GoIs DEF Results, Records
  <2> QED BY <1>1, <2>1, GoIs
<1>3. m \in ModuleStates /\ m.inflight \in Int /\ m.inflight - 1 \in Int
  <2>1. m \in ModuleStates
    BY DEF TypeOK
  <2>2. m.inflight \in Int
    BY <2>1 DEF ModuleStates
  <2> QED BY <2>1, <2>2
<1>4. mm \in ModuleStates
  BY <1>3 DEF ModuleStates
<1>5. m.inflight >= 1 /\ m.draining /\ m.enabled /\ m.draining = m.enabled
  <2>1. m.inflight - 1 >= 0
    BY <1>1, <1>3, GoCounts DEF One
  <2>2. m.inflight >= 1
    BY <1>3, <2>1
  <2> QED BY <1>2, <1>3, <2>2 DEF ModuleInv, StageInv, ModuleStates
<1>6. mm.draining /\ mm.draining = mm.enabled /\ mm.gen = m.gen /\ mm.job = m.job /\ ~mm.enable
      /\ mm.inflight = m.inflight - 1 /\ ~mm.wedged /\ ~mm.busy /\ mm.head = m.head
  BY <1>2, <1>3, <1>5 DEF ModuleStates, Stopped
<1> HIDE DEF mm
<1>7. /\ m'.gen = m.gen /\ m'.job = m.job /\ ~m'.enable /\ m'.inflight = m.inflight - 1 /\ ~m'.wedged
      /\ ~m'.busy /\ m'.draining = (m'.inflight # 0) /\ m'.enabled = (m'.inflight # 0) /\ m'.head = m.head
  BY <1>1, <1>4, <1>6, SettleIs
<1>8. ErrandInv'
  BY <1>1, <1>7, GoCounts DEF ErrandInv, Out
<1>9. StageInv'
  <2>1. GDone' /\ (g'.pc # "idle" => g'.cmd \in 0 .. h'.next - 1)
    BY <1>1, <1>2 DEF Stopped, GDone, ModuleInv, StageInv, Pop
  <2>2. ~Out(3)'
    BY <1>1, <1>2, <1>7, GoCounts DEF Out, Stopped
  <2>3. Stopped'
    BY <1>7, <2>1, <2>2 DEF Stopped
  <2> QED BY <1>7, <2>1, <2>3 DEF StageInv, TypeOK, ModuleStates
<1>10. \A i \in DOMAIN io' : \E j \in DOMAIN io : io'[i] = io[j]
  BY <1>1, PopShifts DEF Shifted
<1>11. JobInv'
  BY <1>1, <1>2, <1>7, <1>10 DEF ModuleInv, JobInv, OfJob
<1>12. ReadInv'
  BY <1>1, <1>7, <1>10 DEF ModuleInv, ReadInv
<1> QED BY <1>8, <1>9, <1>11, <1>12 DEF ModuleInv

LEMMA NextSlotModule ==
  ASSUME TypeOK, TypeOK', ModuleInv, IndexInv, StatusInv, NextSlot
  PROVE  ModuleInv'
<1> DEFINE mm == [m EXCEPT !.inflight = @ - 1, !.busy = FALSE, !.head = Msg.idx + 1, !.prev = Msg.status]
<1>1. Pop /\ Msg.op = "go" /\ Msg.what = "rec" /\ IsRecord(Msg) /\ m.enable /\ Kick(mm, wire) /\ g' = g
  BY DEF NextSlot, IsRecord
<1>2. m \in ModuleStates /\ Msg \in Records("go")
  BY <1>1, GoIs DEF TypeOK, Results
<1>3. Msg.idx = m.head /\ Msg.status \in Statuses /\ m.head + 1 \in Nat /\ m.inflight - 1 \in Int
  <2>1. Msg.idx = m.head
    BY <1>1, PopShifts DEF StatusInv, Shifted
  <2> QED BY <1>2, <2>1 DEF Records, ModuleStates
<1>4. mm \in ModuleStates
  BY <1>2, <1>3 DEF ModuleStates
<1>5. Recording /\ m.inflight = 1 /\ ~Out(1) /\ ~Out(2)
  BY <1>1, GoIs
<1>6. ~Out(3) /\ GDone /\ ~m.wedged /\ m.enabled /\ ~m.draining /\ m.ring
  BY <1>1, <1>5 DEF Recording, ModuleInv, StageInv, IndexInv
<1>7. mm.gen = m.gen /\ mm.job = m.job /\ mm.enable /\ mm.enabled /\ ~mm.draining /\ ~mm.busy
      /\ ~mm.wedged /\ mm.inflight = 0 /\ mm.ring
  BY <1>1, <1>2, <1>5, <1>6 DEF ModuleStates
<1> HIDE DEF mm
<1>8. RunsOnce(io', wire, mm.job) /\ \A k \in 0 .. 3 : ~Runs(io', wire, mm.job, k)
  <2>1. RunsOnce(io', wire, m.job) /\ \A k \in 0 .. 3 : Runs(io', wire, m.job, k) <=> Out(k) /\ ~Errand(Msg, m.job, k)
    BY <1>1, Left DEF ModuleInv
  <2>2. Errand(Msg, m.job, 0)
    BY <1>1 DEF Errand
  <2> QED BY <1>5, <1>6, <1>7, <2>1, <2>2
<1>9. /\ \A l \in wire : l.gen = mm.gen /\ l.job <= mm.job
      /\ \A i \in DOMAIN io' : io'[i].op \in {"back", "go"} => io'[i].gen = mm.gen /\ io'[i].job <= mm.job
  BY <1>1, <1>7, PopJobs DEF ModuleInv
<1> QED BY <1>1, <1>4, <1>6, <1>7, <1>8, <1>9, KickModule DEF ModuleInv

LEMMA OneOrderedModule ==
  ASSUME TypeOK, TypeOK', ModuleInv, OneOrdered
  PROVE  ModuleInv'
<1>1. Pop /\ Msg.op = "go" /\ Msg.what = "res" /\ Msg.job = m.job /\ wire' = wire /\ cmd' = cmd /\ h' = h
      /\ g' = [g EXCEPT !.ordered = @ + 1] /\ m' = [m EXCEPT !.inflight = @ - 1]
      /\ g'.ordered # OutLines(cmd[g'.cmd].kind)
  BY DEF OneOrdered, Pop, AllOrdered
<1>2. m \in ModuleStates /\ g \in Works /\ m.inflight \in Int /\ g.sent \in Nat /\ g.ordered \in Nat
  BY DEF TypeOK, ModuleStates, Works
<1>3. /\ m'.gen = m.gen /\ m'.job = m.job /\ m'.enable = m.enable /\ m'.enabled = m.enabled
      /\ m'.busy = m.busy /\ m'.inflight = m.inflight - 1 /\ m'.wedged = m.wedged
      /\ m'.draining = m.draining /\ m'.head = m.head
  BY <1>1, <1>2 DEF ModuleStates
<1>4. /\ g'.pc = g.pc /\ g'.idx = g.idx /\ g'.cmd = g.cmd /\ g'.job = g.job /\ g'.sent = g.sent
      /\ g'.ordered = g.ordered + 1
  BY <1>1, <1>2 DEF Works
<1>5. Shooting
  BY <1>1, GoIs
<1>6. ErrandInv'
  BY <1>1, <1>3, GoCounts DEF ErrandInv, Out
<1>7. StageInv'
  <2>1. ~Out(0)' /\ ~Out(3)' /\ \A k \in 1 .. 2 : Out(k)' => k <= g'.sent
    BY <1>1, <1>3, <1>4, <1>5, GoCounts DEF Out, Shooting
  <2>2. OnHead'
    BY <1>3, <1>4, <1>5 DEF OnHead, Shooting
  <2>3. g'.ordered < OutLines(cmd'[g'.cmd].kind) /\ g'.sent <= OutLines(cmd'[g'.cmd].kind)
    BY <1>1, <1>2, <1>4, <1>5, LinesOf DEF Shooting
  <2>4. m'.inflight = g'.sent - g'.ordered
    BY <1>2, <1>3, <1>4, <1>5 DEF Shooting
  <2>5. Shooting'
    BY <1>3, <1>4, <1>5, <2>1, <2>2, <2>3, <2>4 DEF Shooting
  <2>6. m'.enabled = (m'.enable \/ m'.draining) /\ ~(m'.enable /\ m'.draining) /\ m'.enable
    BY <1>3, <1>5 DEF ModuleInv, StageInv, Shooting
  <2>7. g'.pc # "idle" => g'.cmd \in 0 .. h'.next - 1
    BY <1>1, <1>4 DEF ModuleInv, StageInv
  <2> QED BY <2>5, <2>6, <2>7 DEF StageInv
<1>8. \A i \in DOMAIN io' : \E j \in DOMAIN io : io'[i] = io[j]
  BY <1>1, PopShifts DEF Shifted
<1>9. JobInv'
  BY <1>1, <1>3, <1>8 DEF ModuleInv, JobInv, OfJob
<1>10. ReadInv'
  BY <1>1, <1>3, <1>4, <1>8 DEF ModuleInv, ReadInv
<1> QED BY <1>6, <1>7, <1>9, <1>10 DEF ModuleInv

LEMMA LastOrderedModule ==
  ASSUME TypeOK, TypeOK', ModuleInv, LastOrdered
  PROVE  ModuleInv'
<1> DEFINE mm == [m EXCEPT !.inflight = @ - 1]
           x == RecordLine(mm, g.idx, g.cmd, "done", g.index)
<1>1. Pop /\ Msg.op = "go" /\ Msg.what = "res" /\ Msg.job = m.job /\ wire' = wire \cup {x} /\ cmd' = cmd /\ h' = h
      /\ g' = [g EXCEPT !.ordered = @ + 1] /\ m' = [mm EXCEPT !.inflight = @ + 1]
      /\ g'.ordered = OutLines(cmd[g'.cmd].kind)
  BY DEF LastOrdered, Pop, AllOrdered
<1>2. m \in ModuleStates /\ g \in Works /\ m.inflight \in Int /\ g.sent \in Nat /\ g.ordered \in Nat
  BY DEF TypeOK, ModuleStates, Works
<1>3. mm.gen = m.gen /\ mm.job = m.job
  BY <1>2 DEF ModuleStates
<1>4. /\ m'.gen = m.gen /\ m'.job = m.job /\ m'.enable = m.enable /\ m'.enabled = m.enabled
      /\ m'.busy = m.busy /\ m'.inflight = m.inflight /\ m'.wedged = m.wedged
      /\ m'.draining = m.draining /\ m'.head = m.head
  BY <1>1, <1>2 DEF ModuleStates
<1>5. x.op = "ItoMWr" /\ x.what = "rec" /\ x.gen = m.gen /\ x.job = m.job
  BY <1>3 DEF RecordLine
<1> HIDE DEF x, mm
<1>6. /\ g'.pc = g.pc /\ g'.idx = g.idx /\ g'.cmd = g.cmd /\ g'.job = g.job /\ g'.sent = g.sent
      /\ g'.ordered = g.ordered + 1
  BY <1>1, <1>2 DEF Works
<1>7. Shooting
  BY <1>1, GoIs
<1>8. m.inflight - 1 >= 0
  BY <1>1, <1>2, GoCounts DEF One
<1>9. m.inflight = 1 /\ g.sent = OutLines(cmd[g.cmd].kind) /\ g'.ordered = g.sent
  <2>1. m.inflight = g.sent - g.ordered /\ g.sent <= OutLines(cmd[g.cmd].kind)
    BY <1>7 DEF Shooting
  <2>2. g.ordered + 1 = OutLines(cmd[g.cmd].kind) /\ g'.ordered = g.ordered + 1
    BY <1>1, <1>6
  <2> QED BY <1>2, <1>8, <2>1, <2>2
<1>10. RunsOnce(io', wire, m.job) /\ \A k \in 0 .. 3 : ~Runs(io', wire, m.job, k)
  <2> DEFINE L(k) == Runs(io', wire, m.job, k)
  <2>1. m.inflight - 1 = One(L(0)) + One(L(1)) + One(L(2)) /\ (L(3) <=> Out(3)) /\ RunsOnce(io', wire, m.job)
    BY <1>1, GoCounts
  <2> HIDE DEF L
  <2>2. ~L(0) /\ ~L(1) /\ ~L(2) /\ ~L(3)
    BY <1>7, <1>9, <2>1 DEF One, Shooting
  <2>3. \A k \in 0 .. 3 : ~L(k)
    BY <2>2
  <2> QED BY <2>1, <2>3 DEF L
<1>11. \A k \in 0 .. 3 : Errand(x, m.job, k) <=> k = 0
  BY <1>5 DEF Errand
<1>12. m'.inflight = One(0 = 0) /\ m.enable /\ m'.enable
  BY <1>4, <1>7, <1>9 DEF One, Shooting
<1>13. /\ JobInv' /\ ErrandInv' /\ \A k \in 0 .. 3 : Out(k)' <=> k = 0
       /\ \A l \in wire' : l.op = "RdCurr" /\ l.job = m.job => l = x
       /\ \A i \in DOMAIN io' : io'[i].op = "back" => io'[i].job # m.job
  BY <1>1, <1>4, <1>5, <1>10, <1>11, <1>12, OneOut DEF ModuleInv
<1>14. ReadInv'
  BY <1>4, <1>5, <1>13 DEF ReadInv
<1>15. StageInv'
  <2>1. GDone'
    BY <1>1, <1>6, <1>7, <1>9 DEF GDone, Shooting
  <2>2. Recording'
    BY <1>4, <1>7, <1>13, <2>1 DEF Recording, Shooting
  <2>3. m'.enabled = (m'.enable \/ m'.draining) /\ ~(m'.enable /\ m'.draining) /\ m'.enable
    BY <1>4, <1>7 DEF ModuleInv, StageInv, Shooting
  <2>4. g'.pc # "idle" => g'.cmd \in 0 .. h'.next - 1
    BY <1>1, <1>6 DEF ModuleInv, StageInv
  <2> QED BY <2>2, <2>3, <2>4 DEF StageInv
<1> QED BY <1>13, <1>14, <1>15 DEF ModuleInv

-----------------------------------------------------------------------------
(* Together. *)

\* What crosses the link keeps its types.
LEMMA TypeStep == ASSUME IInv, [Next]_vars PROVE TypeOK'
<1> USE DEF IInv
<1>1. CASE Arrive
  BY <1>1, ArriveIs, ArriveTypes
<1>2. CASE Shot
  BY <1>2, ShotTypes
<1>3. CASE \E l \in wire : Land(l) \/ AtHost(l)
  BY <1>3, LandTypes, AtHostTypes
<1>4. CASE HostNext
  BY <1>4, HostTypes
<1>5. CASE UNCHANGED vars
  BY <1>5 DEF vars, TypeOK, Cmds, NumCmds
<1> QED BY <1>1, <1>2, <1>3, <1>4, <1>5 DEF Next, WaitRoom, Done

\* The module's own errands are counted as the code counts them, and it is in one of
\* its stages: [] of JobInv, ErrandInv, StageInv, ReadInv.
LEMMA ModuleStep == ASSUME IInv, [Next]_vars PROVE ModuleInv'
<1> USE DEF IInv
<1>0. TypeOK' /\ ModuleInv
  BY TypeStep DEF ModuleInv
<1>1. CASE Arrive
  <2>1. ArriveSteps
    BY <1>1, ArriveIs
  <2>2. CASE Ignored \/ SameQueue \/ TailOff \/ TailBad \/ SetRing \/ SetIrqAt \/ TakeSeed \/ Answer
    BY <1>0, <2>2, PlainArrivals
  <2>3. CASE StartQueue \/ StopQueue \/ TailOn \/ TakeFlr
    BY <1>0, <2>3, StartQueueModule, StopQueueModule, TailOnModule, TakeFlrModule
  <2>4. CASE Wedge \/ (\E s \in Failed : EndsEarly(s)) \/ StartGemm \/ Operands
    BY <1>0, <2>4, WedgeModule, EndsEarlyModule, StartGemmModule, OperandsModule
  <2>5. CASE Dropped \/ NextSlot \/ OneOrdered \/ LastOrdered
    BY <1>0, <2>5, DroppedModule, NextSlotModule, OneOrderedModule, LastOrderedModule
  <2> QED BY <2>1, <2>2, <2>3, <2>4, <2>5 DEF ArriveSteps
<1>2. CASE Shot
  BY <1>0, <1>2, ShotModule
<1>3. CASE \E l \in wire : Land(l) \/ AtHost(l)
  BY SMTT(30), <1>0, <1>3, LandModule, AtHostModule
<1>4. CASE HostNext
  BY <1>0, <1>4, HostModule
<1>5. CASE UNCHANGED vars
  BY <1>0, <1>5 DEF vars, ModuleInv, JobInv, OfJob, ErrandInv, StageInv, ReadInv, Stopped, Waiting, Wedged,
     Fetching, Loading, Shooting, Recording, GDone, OnHead, Out
<1> QED BY <1>1, <1>2, <1>3, <1>4, <1>5 DEF Next, WaitRoom, Done

=============================================================================

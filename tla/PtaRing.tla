------------------------------- MODULE PtaRing -------------------------------
(***************************************************************************)
(* The module (PtaModule) under a host that keeps its ring full: several   *)
(* descriptors in flight, some to run only after a success, doorbells that *)
(* make no sense, teardowns, memory that fails and a tile that is reset    *)
(* under the module. The host is the one the transport's section 4         *)
(* describes and test_pta_chiplet_queue.cc drives: struct Ring and what    *)
(* its cases do with it.                                                   *)
(***************************************************************************)
EXTENDS PtaModule, FiniteSets

CONSTANTS
  FirstIndex, \* where the host starts the ring
  MaxPuts,    \* bound: descriptors written
  MaxCals,    \* bound: calibrations asked for
  MaxUpsets   \* bound: teardowns of a healthy queue, and doorbells of nonsense

\* A host has buffers for each slot of its ring.
ASSUME BuffersAssumption == IsFiniteSet(Addrs) /\ Cardinality(Addrs) >= RingSize
\* Both are powers of two, and a full ring is not an empty one.
ASSUME RingDividesAssumption == RingSize < IndexMod /\ IndexMod % RingSize = 0
ASSUME FirstIndexAssumption == FirstIndex \in Indices
ASSUME RingBoundAssumption == MaxPuts \in Nat /\ MaxCals \in Nat /\ MaxUpsets \in Nat

VARIABLES
  next,     \* the host's next index
  puts,     \* descriptors written, which number the commands
  cals,     \* calibrations asked for
  upsets,   \* teardowns and nonsense so far
  first,    \* history: the number of the first command since ENABLE
  log,      \* history: how each command has ended
  handed    \* history: the last command the tile was handed

hostVars == <<next, puts, cals, upsets, first>>
vars     == <<modVars, hostVars, log, handed>>

Ids == 1 .. MaxPuts

TypeOK ==
  /\ ModuleTypeOK
  /\ next \in Indices
  /\ puts \in 0 .. MaxPuts /\ cals \in 0 .. MaxCals /\ upsets \in 0 .. MaxUpsets
  /\ first \in 1 .. MaxPuts + 1
  /\ log \in [Ids -> Statuses]
  /\ handed \in 0 .. MaxPuts

\* The ring as the host has just enabled it: empty, at the index it wrote to
\* PTQ_TAIL before.
Init ==
  /\ enable = TRUE /\ base = "ring" /\ tail = FirstIndex /\ head = FirstIndex
  /\ halted = "no" /\ prev = "PENDING"
  /\ cur = NoInflight /\ tile = IdleTile /\ svc = FALSE
  /\ slot = [j \in 0 .. RingSize - 1 |-> ZeroSlot] /\ low = ZeroSlot
  /\ opnd = [a \in Addrs |-> NoId]
  /\ out = [a \in Addrs |-> NoResult]
  /\ faults = 0 /\ resets = 0
  /\ next = FirstIndex /\ puts = 0 /\ cals = 0 /\ upsets = 0 /\ first = 1
  /\ log = [i \in Ids |-> "PENDING"] /\ handed = 0

-----------------------------------------------------------------------------
(* The host. *)

InFlight == SlotsBetween(head, next)

\* Buffers that no command in flight has: the same ones again as soon as they are
\* free, whether or not the tile still has a command that was abandoned with them.
FreeBuffer == CHOOSE a \in Addrs : a \notin {slot[j].cmd.buf : j \in InFlight}

\* A descriptor into the next slot, if there is room.
Put(kind, after) ==
  LET a == FreeBuffer IN
  /\ ~svc
  /\ puts < MaxPuts
  /\ Dist(next, head) < RingSize
  /\ slot' = [slot EXCEPT ![SlotOf(next)] =
                [cmd |-> [id |-> puts + 1, kind |-> kind, after |-> after, buf |-> a],
                 status |-> "PENDING", index |-> 0]]
  /\ opnd' = [opnd EXCEPT ![a] = puts + 1]
  /\ next' = Inc(next)
  /\ puts' = puts + 1
  /\ UNCHANGED <<regVars, cur, tile, svc, low, out, faults, resets, cals, upsets, first>>

\* One doorbell for all that has been put.
RingBell ==
  /\ ~svc
  /\ enable /\ tail # next
  /\ WriteTail(next)
  /\ UNCHANGED hostVars

\* A doorbell that makes no sense.
Nonsense ==
  /\ ~svc
  /\ enable /\ upsets < MaxUpsets
  /\ upsets' = upsets + 1
  /\ \E v \in Indices : BadDoorbell(v) /\ WriteTail(v)
  /\ UNCHANGED <<next, puts, cals, first>>

\* A teardown, of a queue that has halted or of one that has not.
Stop ==
  /\ ~svc
  /\ enable
  /\ halted # "no" \/ upsets < MaxUpsets
  /\ upsets' = IF halted # "no" THEN upsets ELSE upsets + 1
  /\ DisableQueue
  /\ UNCHANGED <<next, puts, cals, first>>

\* Its other half: the slots from PTQ_HEAD are the host's and end lost, then
\* PTQ_TAIL, then ENABLE.
Restart ==
  /\ ~svc
  /\ ~enable
  /\ slot' = [j \in 0 .. RingSize - 1 |->
                IF j \in InFlight /\ slot[j].status = "PENDING"
                THEN [slot[j] EXCEPT !.status = "LOST"] ELSE slot[j]]
  /\ tail' = next /\ head' = next
  /\ enable' = TRUE /\ prev' = "PENDING" /\ halted' = "no" /\ svc' = TRUE
  /\ first' = puts + 1
  /\ UNCHANGED <<base, cur, tile, low, opnd, out, faults, resets, next, puts, cals, upsets>>

Calibrate ==
  /\ cals < MaxCals
  /\ cals' = cals + 1
  /\ CalNow
  /\ UNCHANGED <<next, puts, upsets, first>>

Host ==
  \/ \E k \in Kinds, after \in BOOLEAN : Put(k, after)
  \/ RingBell \/ Nonsense \/ Stop \/ Restart \/ Calibrate

Module == (Service \/ Run \/ TileReset) /\ UNCHANGED hostVars

\* What the slots say is noted in the log, which outlives a slot's reuse.
History ==
  /\ log' = [i \in Ids |-> IF \E j \in DOMAIN slot' : slot'[j].cmd.id = i
                           THEN slot'[CHOOSE j \in DOMAIN slot' : slot'[j].cmd.id = i].status
                           ELSE log[i]]
  /\ handed' = IF cur'.live /\ ~cur.live THEN cur'.cmd.id ELSE handed

Next == (Host \/ Module) /\ History

Spec == Init /\ [][Next]_vars

\* The host rings for what it has put and recovers a queue that has halted; the
\* module's time passes and service() returns.
FairSpec ==
  /\ Spec
  /\ WF_vars(RingBell /\ History)
  /\ WF_vars(halted # "no" /\ Stop /\ History)
  /\ WF_vars(Restart /\ History)
  /\ WF_vars(Service /\ UNCHANGED hostVars /\ History)
  /\ WF_vars(Run /\ UNCHANGED hostVars /\ History)

-----------------------------------------------------------------------------
(* The inductive invariant: which command each slot has, and what the module,  *)
(* the tile and the histories know of the one at PTQ_HEAD.                      *)

\* i - n of uint32_t operands; the slot of the n-th last command put; the number of
\* the command at PTQ_HEAD, or of the next to be put if there is none.
Before(i, n) == IF i >= n THEN i - n ELSE i - n + IndexMod
SlotAt(n)    == SlotOf(Before(next, n))
HeadId       == puts + 1 - Dist(next, head)

\* The last RingSize commands are in the slots, in order. Those from PTQ_HEAD on are
\* pending and have their operands in place; the others have ended.
SlotsInv ==
  /\ base = "ring"
  /\ Dist(next, tail) <= Dist(next, head)
  /\ Dist(next, head) <= RingSize /\ Dist(next, head) <= puts
  /\ \A n \in 1 .. RingSize :
       LET s == slot[SlotAt(n)]
       IN  IF n > puts THEN s = ZeroSlot
           ELSE /\ s.cmd.id = puts + 1 - n /\ s.cmd.buf \in Addrs
                /\ s.status = "PENDING" <=> n <= Dist(next, head)
                /\ s.status = "PENDING" => opnd[s.cmd.buf] = s.cmd.id

\* A command of the module's that no teardown has dropped is the one at PTQ_HEAD.
CurInv ==
  cur.live /\ ~cur.orphan => /\ enable /\ head # tail /\ cur.idx = head
                            /\ cur.cmd = slot[SlotOf(head)].cmd
                            /\ cur.ops = cur.cmd.id

\* The log has what the slots say.
LogInv ==
  /\ \A i \in Ids : i > puts => log[i] = "PENDING"
  /\ \A n \in 1 .. RingSize : n <= puts => log[puts + 1 - n] = slot[SlotAt(n)].status

\* The tile is not handed the command at PTQ_HEAD twice.
HandedInv ==
  /\ handed <= puts
  /\ IF cur.live /\ ~cur.orphan THEN handed = HeadId
     ELSE enable /\ halted = "no" => handed < HeadId

\* The module knows how the command before the one at PTQ_HEAD ended.
PrevInv ==
  /\ first <= HeadId
  /\ IF HeadId = first THEN prev = "PENDING" ELSE prev # "PENDING" /\ prev = log[HeadId - 1]

-----------------------------------------------------------------------------
(* What must hold. *)

\* C5: PTQ_HEAD is the next slot the module will end, "every slot behind it has
\* its status": only slots from PTQ_HEAD to the host's next index are pending.
HeadSaysEnded ==
  \A j \in DOMAIN slot \ InFlight : slot[j].cmd # NoCommand => slot[j].status # "PENDING"

\* C1 and C2: a slot that says DONE has its own results in its buffer, under the
\* index it reports, until the host gives the buffer to another command.
DoneMeansResults ==
  \A j \in DOMAIN slot :
    LET cmd == slot[j].cmd
    IN  slot[j].status = "DONE" /\ opnd[cmd.buf] = cmd.id
          => out[cmd.buf] = [id |-> cmd.id, index |-> slot[j].index]

IInv ==
  /\ TypeOK /\ SlotsInv /\ TileHolds /\ CurInv
  /\ LogInv /\ HandedInv /\ PrevInv /\ DoneMeansResults

\* A command ends once: neither a teardown nor a late record changes how.
StatusIsFinal == [][\A i \in Ids : log[i] # "PENDING" => log'[i] = log[i]]_vars

\* The tile is handed each command at most once, in the order they were put.
RunsInOrder == [][cur'.live /\ ~cur.live => cur'.cmd.id > handed]_vars

\* Bit 16 of target: a command that asked to follow a success is handed to the
\* tile only if the one put before it, since ENABLE, ended DONE; and it ends NOT
\* RUN only if that one did not.
AfterSuccess ==
  [][/\ cur'.live /\ ~cur.live /\ cur'.cmd.after /\ cur'.cmd.id > first
          => log[cur'.cmd.id - 1] = "DONE"
     /\ \A i \in Ids : log[i] # "NOT_RUN" /\ log'[i] = "NOT_RUN"
          => i > first /\ log[i - 1] # "DONE"]_vars

\* C12: every command ends, whatever calibrations, refusals, faults, nonsense
\* and resets of the tile come between: again and again all that were put have.
EveryCommandEnds == []<>(\A i \in 1 .. puts : log[i] # "PENDING")

=============================================================================

---------------------------- MODULE PtaRingProofs ----------------------------
(***************************************************************************)
(* The module under a busy host, for every ring, every range of indices    *)
(* and every number of commands, faults, calibrations and resets of the    *)
(* tile: the inductive invariant IInv and the order and finality of what   *)
(* the module's records say. EveryCommandEnds stays with TLC.              *)
(***************************************************************************)
EXTENDS PtaRing, PtaModuleProofs, FiniteSetTheorems

USE IndexModAssumption, RingSizeAssumption, RingBoundAssumption

-----------------------------------------------------------------------------
(* Indices and slots. *)

\* Division with a remainder is unique.
LEMMA ModUnique ==
  ASSUME NEW r \in Nat \ {0}, NEW q \in Int, NEW s \in 0 .. r - 1
  PROVE  (r * q + s) % r = s
<1> DEFINE x == r * q + s
<1>1. x \in Int
  OBVIOUS
<1> HIDE DEF x
<1>2. x = r * (x \div r) + (x % r) /\ x % r \in 0 .. r - 1 /\ x \div r \in Int
  BY <1>1
<1> DEFINE d == q - (x \div r)
<1>3. d \in Int /\ r * d = (x % r) - s
  BY <1>2 DEF x
<1> HIDE DEF d
<1>4. d = 0
  <2>1. CASE d >= 1
    <3>1. r * d >= r
      BY <1>3, <2>1
    <3> QED BY <3>1, <1>2, <1>3
  <2>2. CASE d <= -1
    <3>1. r * d <= -r
      BY <1>3, <2>2
    <3> QED BY <3>1, <1>2, <1>3
  <2> QED BY <1>3, <2>1, <2>2
<1> QED BY <1>2, <1>3, <1>4 DEF x

\* Going back n indices goes back n slots, around the ring, also where the index wraps.
LEMMA SlotBefore ==
  ASSUME NEW i \in Indices, NEW n \in 0 .. RingSize
  PROVE  /\ Before(i, n) \in Indices
         /\ SlotOf(Before(i, n)) = IF SlotOf(i) >= n THEN SlotOf(i) - n ELSE SlotOf(i) - n + RingSize
<1> DEFINE R == RingSize  s == SlotOf(i)  d == i \div R  m == IndexMod \div R
<1>1. R \in Nat \ {0} /\ s \in 0 .. R - 1 /\ d \in Int /\ m \in Int /\ n \in Int /\ n <= R
  BY SlotOfType DEF Indices
<1>2. i = R * d + s
  BY DEF SlotOf, Indices
<1>3. IndexMod = R * m
  BY RingDividesAssumption
<1>4. Before(i, n) \in Indices
  BY RingDividesAssumption DEF Before, Indices
<1> HIDE DEF s, d, m
<1>5. \E q \in Int : Before(i, n) = R * q + (IF s >= n THEN s - n ELSE s - n + R)
  <2>1. CASE i >= n /\ s >= n
    BY <1>1, <1>2, <2>1 DEF Before
  <2>2. CASE i >= n /\ ~(s >= n)
    <3>1. R * (d - 1) = R * d - R
      BY <1>1
    <3>2. i - n = R * (d - 1) + (s - n + R)
      BY <1>1, <1>2, <3>1
    <3>3. Before(i, n) = R * (d - 1) + (IF s >= n THEN s - n ELSE s - n + R)
      BY <2>2, <3>2 DEF Before
    <3>4. d - 1 \in Int
      BY <1>1
    <3> QED BY <3>3, <3>4
  <2>3. CASE ~(i >= n) /\ s >= n
    <3>1. R * (d + m) = R * d + R * m
      BY <1>1
    <3>2. i - n + IndexMod = R * (d + m) + (s - n)
      BY <1>1, <1>2, <1>3, <3>1
    <3>3. Before(i, n) = R * (d + m) + (IF s >= n THEN s - n ELSE s - n + R)
      BY <2>3, <3>2 DEF Before
    <3>4. d + m \in Int
      BY <1>1
    <3> QED BY <3>3, <3>4
  <2>4. CASE ~(i >= n) /\ ~(s >= n)
    <3>1. R * (d + m - 1) = R * d + R * m - R
      BY <1>1
    <3>2. i - n + IndexMod = R * (d + m - 1) + (s - n + R)
      BY <1>1, <1>2, <1>3, <3>1
    <3>3. Before(i, n) = R * (d + m - 1) + (IF s >= n THEN s - n ELSE s - n + R)
      BY <2>4, <3>2 DEF Before
    <3>4. d + m - 1 \in Int
      BY <1>1
    <3> QED BY <3>3, <3>4
  <2> QED BY <2>1, <2>2, <2>3, <2>4
<1>6. (IF s >= n THEN s - n ELSE s - n + R) \in 0 .. R - 1
  BY <1>1
<1>7. SlotOf(Before(i, n)) = IF s >= n THEN s - n ELSE s - n + R
  BY <1>1, <1>5, <1>6, ModUnique DEF SlotOf
<1> QED BY <1>4, <1>7 DEF s

\* The RingSize indices before one have different slots, and among them every slot.
LEMMA SlotInjective ==
  ASSUME NEW i \in Indices, NEW m \in 1 .. RingSize, NEW n \in 1 .. RingSize,
         SlotOf(Before(i, m)) = SlotOf(Before(i, n))
  PROVE  m = n
<1>1. m \in 0 .. RingSize /\ n \in 0 .. RingSize /\ SlotOf(i) \in 0 .. RingSize - 1
  BY SlotOfType
<1>2. SlotOf(Before(i, m)) = IF SlotOf(i) >= m THEN SlotOf(i) - m ELSE SlotOf(i) - m + RingSize
  BY <1>1, SlotBefore
<1>3. SlotOf(Before(i, n)) = IF SlotOf(i) >= n THEN SlotOf(i) - n ELSE SlotOf(i) - n + RingSize
  BY <1>1, SlotBefore
<1>4. ASSUME NEW s \in 0 .. RingSize - 1,
             (IF s >= m THEN s - m ELSE s - m + RingSize) = (IF s >= n THEN s - n ELSE s - n + RingSize)
      PROVE  m = n
  BY <1>4
<1> QED BY <1>1, <1>2, <1>3, <1>4

LEMMA SlotSurjective ==
  ASSUME NEW i \in Indices, NEW j \in 0 .. RingSize - 1
  PROVE  \E n \in 1 .. RingSize : j = SlotOf(Before(i, n))
<1> DEFINE n == IF SlotOf(i) > j THEN SlotOf(i) - j ELSE SlotOf(i) - j + RingSize
<1>1. n \in 1 .. RingSize /\ n \in 0 .. RingSize
  BY SlotOfType
<1>2. SlotOf(i) \in 0 .. RingSize - 1
  BY SlotOfType
<1>3. SlotOf(Before(i, n)) = IF SlotOf(i) >= n THEN SlotOf(i) - n ELSE SlotOf(i) - n + RingSize
  BY <1>1, SlotBefore
<1>4. SlotOf(Before(i, n)) = j
  BY <1>2, <1>3
<1> HIDE DEF n
<1> QED BY <1>1, <1>4

\* An index's own slot is that of the one a whole ring before it.
LEMMA SlotOfRing ==
  ASSUME NEW i \in Indices
  PROVE  SlotOf(Before(i, RingSize)) = SlotOf(i)
<1>1. RingSize \in 0 .. RingSize /\ SlotOf(i) \in 0 .. RingSize - 1
  BY SlotOfType
<1> QED BY <1>1, SlotBefore

\* i + 1, and what lies before it.
LEMMA BeforeInc ==
  ASSUME NEW i \in Indices
  PROVE  /\ Inc(i) \in Indices
         /\ Before(Inc(i), 1) = i
         /\ \A n \in 1 .. RingSize - 1 : Before(Inc(i), n + 1) = Before(i, n)
  BY RingDividesAssumption DEF Inc, Before, Indices

\* a - b, and how it changes when either moves by one.
LEMMA DistFacts ==
  ASSUME NEW a \in Indices, NEW b \in Indices
  PROVE  /\ Dist(a, b) \in 0 .. IndexMod - 1
         /\ Before(a, Dist(a, b)) = b
         /\ Dist(a, b) = 0 <=> a = b
         /\ Dist(a, b) # 0 => Dist(a, Inc(b)) = Dist(a, b) - 1
         /\ Dist(a, b) < IndexMod - 1 => Dist(Inc(a), b) = Dist(a, b) + 1
  BY DEF Dist, Before, Inc, Indices

LEMMA DistInjective ==
  ASSUME NEW a \in Indices, NEW b \in Indices, NEW c \in Indices, Dist(a, b) = Dist(a, c)
  PROVE  b = c
  BY DEF Dist, Indices

\* The slots in flight are those of the indices from PTQ_HEAD to the host's next.
LEMMA InFlightSlots ==
  ASSUME next \in Indices, head \in Indices, Dist(next, head) <= RingSize, NEW j
  PROVE  j \in InFlight <=> \E n \in 1 .. Dist(next, head) : j = SlotOf(Before(next, n))
<1>1. ASSUME NEW n \in 1 .. Dist(next, head)
      PROVE  Before(next, n) \in Indices /\ Dist(Before(next, n), head) < Dist(next, head)
  BY RingDividesAssumption DEF Dist, Before, Indices
<1>2. ASSUME NEW i \in Indices, Dist(i, head) < Dist(next, head)
      PROVE  \E n \in 1 .. Dist(next, head) : Before(next, n) = i
  <2> DEFINE n == Dist(next, head) - Dist(i, head)
  <2>1. n \in 1 .. Dist(next, head)
    BY <1>2, DistFacts
  <2>2. Before(next, n) = i
    BY <1>2, RingDividesAssumption DEF Dist, Before, Indices
  <2> QED BY <2>1, <2>2
<1>3. j \in InFlight <=> \E i \in Indices : Dist(i, head) < Dist(next, head) /\ j = SlotOf(i)
  BY DEF InFlight, SlotsBetween
<1> QED BY <1>1, <1>2, <1>3

-----------------------------------------------------------------------------
(* Slots and the log. *)

\* Slots sl hold the last of p commands, in order, up to index i: what SlotsInv says of
\* them, stated of values so that it can be said of the slots after a step as well.
Holds(sl, i, p) ==
  \A n \in 1 .. RingSize :
    IF n > p THEN sl[SlotOf(Before(i, n))] = ZeroSlot
    ELSE sl[SlotOf(Before(i, n))].cmd.id = p + 1 - n

\* Seen from a slot: it has no command yet, or the n-th last.
LEMMA SlotHolds ==
  ASSUME NEW sl, NEW i \in Indices, NEW p \in Nat, Holds(sl, i, p), NEW j \in 0 .. RingSize - 1
  PROVE  \E n \in 1 .. RingSize :
           /\ j = SlotOf(Before(i, n))
           /\ n > p => sl[j] = ZeroSlot /\ sl[j].cmd.id = 0 /\ sl[j].cmd = NoCommand
           /\ n <= p => sl[j].cmd.id = p + 1 - n /\ sl[j].cmd.id >= 1
<1>1. PICK n \in 1 .. RingSize : j = SlotOf(Before(i, n))
  BY SlotSurjective
<1>2. n > p => sl[j] = ZeroSlot
  BY <1>1 DEF Holds
<1>3. n <= p => sl[j].cmd.id = p + 1 - n
  BY <1>1 DEF Holds
<1>4. ZeroSlot.cmd.id = 0 /\ ZeroSlot.cmd = NoCommand
  BY DEF ZeroSlot, NoCommand, NoId
<1> QED BY <1>1, <1>2, <1>3, <1>4

\* Two slots with the same command are one.
LEMMA SlotUnique ==
  ASSUME NEW sl, NEW i \in Indices, NEW p \in Nat, Holds(sl, i, p),
         NEW j \in 0 .. RingSize - 1, NEW k \in 0 .. RingSize - 1,
         sl[j].cmd.id = sl[k].cmd.id, sl[j].cmd.id # 0
  PROVE  j = k
<1>1. PICK n \in 1 .. RingSize : j = SlotOf(Before(i, n)) /\ n <= p /\ sl[j].cmd.id = p + 1 - n
  BY SlotHolds
<1>2. PICK m \in 1 .. RingSize : k = SlotOf(Before(i, m)) /\ m <= p /\ sl[k].cmd.id = p + 1 - m
  BY SlotHolds
<1> QED BY <1>1, <1>2

LEMMA SlotAtType ==
  ASSUME NEW i \in Indices, NEW n \in 1 .. RingSize
  PROVE  SlotOf(Before(i, n)) \in 0 .. RingSize - 1
<1>1. n \in 0 .. RingSize
  OBVIOUS
<1> QED BY <1>1, SlotBefore, SlotOfType

\* The log: what it says of the commands in the slots, and that it keeps the rest.
LEMMA LogNext ==
  ASSUME log \in [Ids -> Statuses], next' \in Indices, puts' \in 0 .. MaxPuts,
         slot' \in [0 .. RingSize - 1 -> Slots], Holds(slot', next', puts'), History
  PROVE  /\ log' \in [Ids -> Statuses]
         /\ \A n \in 1 .. RingSize : n <= puts' => log'[puts' + 1 - n] = slot'[SlotOf(Before(next', n))].status
         /\ \A i \in Ids : i > puts' \/ i + RingSize <= puts' => log'[i] = log[i]
<1> DEFINE Has(i) == \E j \in DOMAIN slot' : slot'[j].cmd.id = i
           The(i) == CHOOSE j \in DOMAIN slot' : slot'[j].cmd.id = i
<1>0. DOMAIN slot' = 0 .. RingSize - 1 /\ puts' \in Nat
  OBVIOUS
<1>1. log' = [i \in Ids |-> IF Has(i) THEN slot'[The(i)].status ELSE log[i]]
  BY DEF History
<1>2. \A i : Has(i) => The(i) \in DOMAIN slot' /\ slot'[The(i)].cmd.id = i
  OBVIOUS
<1> HIDE DEF The
<1>3. log' \in [Ids -> Statuses]
  <2>1. \A j \in DOMAIN slot' : slot'[j].status \in Statuses
    BY DEF Slots
  <2> QED BY <1>1, <1>2, <2>1
<1>4. ASSUME NEW n \in 1 .. RingSize, n <= puts'
      PROVE  log'[puts' + 1 - n] = slot'[SlotOf(Before(next', n))].status
  <2> DEFINE k == SlotOf(Before(next', n))  i == puts' + 1 - n
  <2>0. ASSUME NEW p \in 0 .. MaxPuts, n <= p PROVE p + 1 - n \in Ids /\ p + 1 - n # 0
    BY <2>0 DEF Ids
  <2>1. i \in Ids /\ i # 0
    BY <1>4, <2>0
  <2>2. k \in 0 .. RingSize - 1
    BY SlotAtType
  <2>3. slot'[k].cmd.id = i
    BY <1>0, <1>4 DEF Holds
  <2> HIDE DEF k, i
  <2>4. Has(i)
    BY <1>0, <2>2, <2>3
  <2>5. The(i) \in 0 .. RingSize - 1 /\ slot'[The(i)].cmd.id = slot'[k].cmd.id /\ slot'[k].cmd.id # 0
    BY <1>0, <1>2, <2>1, <2>3, <2>4
  <2>6. The(i) = k
    BY <1>0, <2>2, <2>5, SlotUnique
  <2>7. log'[i] = slot'[k].status
    BY <1>1, <2>1, <2>4, <2>6
  <2> QED BY <2>7 DEF k, i
<1>5. ASSUME NEW i \in Ids, i > puts' \/ i + RingSize <= puts'
      PROVE  log'[i] = log[i]
  <2>1. ASSUME NEW j \in DOMAIN slot', slot'[j].cmd.id = i PROVE FALSE
    <3>1. PICK n \in 1 .. RingSize :
             /\ n > puts' => slot'[j].cmd.id = 0
             /\ n <= puts' => slot'[j].cmd.id = puts' + 1 - n
      BY <1>0, SlotHolds
    <3> QED BY <1>0, <1>5, <2>1, <3>1 DEF Ids
  <2> QED BY <1>1, <2>1
<1> QED BY <1>3, <1>4, <1>5

\* A step after which the slots say what the log said leaves the log as it was.
LEMMA LogKept ==
  ASSUME log \in [Ids -> Statuses], next' \in Indices, puts' \in 0 .. MaxPuts,
         slot' \in [0 .. RingSize - 1 -> Slots], Holds(slot', next', puts'), History,
         \A n \in 1 .. RingSize :
           n <= puts' => slot'[SlotOf(Before(next', n))].status = log[puts' + 1 - n]
  PROVE  log' = log
<1>1. log' \in [Ids -> Statuses]
  BY LogNext
<1>2. ASSUME NEW i \in Ids PROVE log'[i] = log[i]
  <2>1. CASE i > puts' \/ i + RingSize <= puts'
    BY <2>1, LogNext
  <2>2. CASE i <= puts' /\ i + RingSize > puts'
    <3>1. PICK n \in 1 .. RingSize : n <= puts' /\ i = puts' + 1 - n
      <4>1. ASSUME NEW p \in 0 .. MaxPuts, i <= p, i + RingSize > p
            PROVE  p + 1 - i \in 1 .. RingSize /\ p + 1 - i <= p /\ i = p + 1 - (p + 1 - i)
        BY <4>1 DEF Ids
      <4> QED BY <2>2, <4>1
    <3> QED BY <3>1, LogNext
  <2> QED BY <2>1, <2>2 DEF Ids
<1> QED BY <1>1, <1>2

-----------------------------------------------------------------------------
(* What the invariant says. *)

\* The command at PTQ_HEAD when the ring is not empty.
LEMMA AtHead ==
  ASSUME TypeOK, SlotsInv, head # tail
  PROVE  /\ Dist(next, head) \in 1 .. RingSize /\ Dist(next, head) <= puts
         /\ SlotAt(Dist(next, head)) = SlotOf(head)
         /\ SlotOf(head) \in 0 .. RingSize - 1
         /\ HeadId \in Ids /\ HeadId <= puts
         /\ slot[SlotOf(head)].cmd.id = HeadId
         /\ slot[SlotOf(head)].cmd.buf \in Addrs
         /\ slot[SlotOf(head)].status = "PENDING"
         /\ opnd[slot[SlotOf(head)].cmd.buf] = HeadId
<1> DEFINE D == Dist(next, head)
<1>1. head \in Indices /\ tail \in Indices /\ next \in Indices /\ puts \in 0 .. MaxPuts
  BY DEF TypeOK, ModuleTypeOK
<1>2. D \in 0 .. IndexMod - 1 /\ Dist(next, tail) \in 0 .. IndexMod - 1 /\ Dist(next, tail) <= D
      /\ D <= RingSize /\ D <= puts
  BY <1>1, DistFacts DEF SlotsInv
<1>3. D # 0
  BY <1>1, <1>2, DistInjective
<1>4. Before(next, D) = head /\ SlotAt(D) = SlotOf(head) /\ SlotOf(head) \in 0 .. RingSize - 1
  BY <1>1, DistFacts, SlotOfType DEF SlotAt
<1>5. D \in 1 .. RingSize
  BY <1>2, <1>3
<1>6. HeadId = puts + 1 - D
  BY DEF HeadId
<1> HIDE DEF D
<1>7. ~(D > puts) /\ D <= D
  BY <1>1, <1>2
<1>8. /\ slot[SlotAt(D)].cmd.id = puts + 1 - D /\ slot[SlotAt(D)].cmd.buf \in Addrs
      /\ slot[SlotAt(D)].status = "PENDING"
      /\ opnd[slot[SlotAt(D)].cmd.buf] = slot[SlotAt(D)].cmd.id
  BY <1>5, <1>7 DEF SlotsInv, D
<1>9. HeadId \in Ids /\ HeadId <= puts
  BY <1>1, <1>2, <1>5, <1>6 DEF Ids
<1> QED BY <1>2, <1>4, <1>5, <1>6, <1>8, <1>9 DEF D

LEMMA SlotsHold ==
  ASSUME SlotsInv
  PROVE  Holds(slot, next, puts)
  BY DEF SlotsInv, Holds, SlotAt

-----------------------------------------------------------------------------
(* Steps that leave slots, operands and PTQ_HEAD alone. *)

\* Such a step keeps what the invariant says of the slots and the log; PTQ_TAIL may
\* move to the host's next index.
LEMMA Quiet ==
  ASSUME IInv, UNCHANGED <<slot, opnd, head, base, next, puts>>, tail' \in {tail, next}, History
  PROVE  SlotsInv' /\ log' = log /\ LogInv' /\ HeadId' = HeadId
<1>1. /\ next \in Indices /\ puts \in 0 .. MaxPuts /\ log \in [Ids -> Statuses]
      /\ slot \in [0 .. RingSize - 1 -> Slots]
  BY DEF IInv, TypeOK, ModuleTypeOK
<1>2. Dist(next, tail') <= Dist(next, head)
  <2>1. Dist(next, next) <= Dist(next, head)
    BY DistFacts DEF IInv, TypeOK, ModuleTypeOK
  <2> QED BY <2>1 DEF IInv, SlotsInv
<1>3. SlotsInv'
  BY <1>2 DEF IInv, SlotsInv, SlotAt
<1>4. Holds(slot', next', puts')
  BY SlotsHold DEF IInv
<1>5. \A n \in 1 .. RingSize : n <= puts => slot[SlotOf(Before(next, n))].status = log[puts + 1 - n]
  BY DEF IInv, LogInv, SlotAt
<1>6. log' = log
  BY <1>1, <1>4, <1>5, LogKept
<1>7. LogInv'
  BY <1>6 DEF IInv, LogInv, SlotAt
<1> QED BY <1>3, <1>6, <1>7 DEF HeadId

\* And what it says of the command before and, if the results stay too, of them.
LEMMA QuietRest ==
  ASSUME IInv, UNCHANGED <<slot, opnd, head, base, next, puts, prev, first>>, log' = log,
         HeadId' = HeadId
  PROVE  PrevInv' /\ (out' = out => DoneMeansResults')
  BY DEF IInv, PrevInv, DoneMeansResults

\* The same for CurInv and HandedInv, while the module has the command it had.
LEMMA QuietCommand ==
  ASSUME IInv, UNCHANGED <<slot, opnd, head, base, next, puts, enable>>, HeadId' = HeadId,
         tail' \in {tail, next}, halted' # "no" \/ halted' = halted, History,
         cur'.live = cur.live /\ cur'.orphan = cur.orphan /\ cur'.idx = cur.idx,
         cur'.cmd = cur.cmd /\ cur'.ops = cur.ops
  PROVE  CurInv' /\ HandedInv' /\ handed' = handed
<1>1. handed' = handed
  BY DEF History
<1>2. head # tail => head # tail'
  <2>1. head # tail => head # next
    BY AtHead, DistFacts DEF IInv, TypeOK, ModuleTypeOK
  <2> QED BY <2>1
<1>3. CurInv'
  BY <1>2 DEF IInv, CurInv
<1>4. HandedInv'
  BY <1>1 DEF IInv, HandedInv
<1> QED BY <1>1, <1>3, <1>4

\* finish() of a command a teardown dropped keeps the invariant.
LEMMA FinishOrphanStep == ASSUME IInv, FinishOrphan, UNCHANGED hostVars, History PROVE IInv' /\ log' = log
<1>0. /\ cur.live /\ cur.orphan /\ cur' = NoInflight /\ ~cur'.live
      /\ UNCHANGED <<regVars, memVars, tile, svc, faults, resets, hostVars>>
  BY DEF FinishOrphan, FinishReady, NoInflight
<1>1. SlotsInv' /\ log' = log /\ LogInv' /\ HeadId' = HeadId
  BY <1>0, Quiet DEF regVars, memVars, hostVars
<1>2. PrevInv' /\ DoneMeansResults'
  BY <1>0, <1>1, QuietRest DEF regVars, memVars, hostVars
<1>3. handed' = handed
  BY <1>0 DEF History
<1>4. HandedInv' /\ CurInv'
  BY <1>0, <1>1, <1>3 DEF IInv, HandedInv, CurInv, regVars, hostVars
<1>5. TypeOK'
  BY <1>0, <1>1, <1>3, ModuleConstTypes DEF IInv, TypeOK, ModuleTypeOK, regVars, memVars, hostVars
<1>6. TileHolds'
  BY <1>0 DEF IInv, TileHolds, FinishOrphan, FinishReady
<1> QED BY <1>1, <1>2, <1>4, <1>5, <1>6 DEF IInv

\* take() halting on memory that fails keeps the invariant.
LEMMA TakeFaultStep == ASSUME IInv, TakeFault, UNCHANGED hostVars, History PROVE IInv' /\ log' = log
<1>0. /\ halted' = "MEMORY" /\ faults' \in Nat
      /\ UNCHANGED <<enable, base, tail, head, prev, cur, tile, svc, memVars, resets, hostVars>>
  BY DEF TakeFault, Halt, CountFault, IInv, TypeOK, ModuleTypeOK
<1>1. SlotsInv' /\ log' = log /\ LogInv' /\ HeadId' = HeadId
  BY <1>0, Quiet DEF memVars, hostVars
<1>2. PrevInv' /\ DoneMeansResults'
  BY <1>0, <1>1, QuietRest DEF memVars, hostVars
<1>3. CurInv' /\ HandedInv' /\ handed' = handed
  BY <1>0, <1>1, QuietCommand DEF memVars, hostVars
<1>4. TypeOK'
  BY <1>0, <1>1, <1>3 DEF IInv, TypeOK, ModuleTypeOK, memVars, hostVars
<1>5. TileHolds'
  BY <1>0 DEF IInv, TileHolds
<1> QED BY <1>1, <1>2, <1>3, <1>4, <1>5 DEF IInv

\* take() handing the command at PTQ_HEAD to the tile keeps the invariant: it is the first
\* time, and the operands read are its own.
LEMMA TakeAndSubmitStep ==
  ASSUME IInv, TakeAndSubmit, UNCHANGED hostVars, History
  PROVE  IInv' /\ cur'.cmd.id = HeadId /\ cur'.cmd = slot[SlotOf(head)].cmd /\ log' = log
<1> DEFINE cmd == slot[SlotOf(head)].cmd
           f == [live |-> TRUE, orphan |-> FALSE, idx |-> head, cmd |-> cmd,
                 ops |-> opnd[cmd.buf], index |-> tile.gemmCt,
                 ran |-> NoIndex, status |-> "PENDING"]
<1>0. /\ svc /\ ~cur.live /\ enable /\ halted = "no" /\ head # tail
      /\ UNCHANGED <<regVars, memVars, svc, faults, resets, hostVars>>
      /\ Submit(f)
  <2>1. LineAt(head) = slot[SlotOf(head)]
    BY DEF LineAt, IInv, SlotsInv
  <2> QED BY <2>1 DEF TakeAndSubmit, TakeReady
<1>1. /\ cmd.id = HeadId /\ cmd.buf \in Addrs /\ opnd[cmd.buf] = HeadId
      /\ HeadId \in Ids /\ HeadId <= puts /\ SlotOf(head) \in 0 .. RingSize - 1
  BY <1>0, AtHead DEF IInv
<1>2. f \in Inflight
  <2>1. cmd \in Commands
    BY <1>1 DEF IInv, TypeOK, ModuleTypeOK, Slots
  <2>2. opnd[cmd.buf] \in Nat
    BY <1>1 DEF IInv, TypeOK, ModuleTypeOK
  <2> QED BY <2>1, <2>2 DEF IInv, TypeOK, ModuleTypeOK, Inflight, TileStates
<1>3. /\ cur' \in Inflight /\ tile' \in TileStates /\ TileHolds'
      /\ cur'.live = f.live /\ cur'.orphan = f.orphan /\ cur'.idx = f.idx
      /\ cur'.cmd = f.cmd /\ cur'.ops = f.ops
  <2> HIDE DEF f
  <2>1. f.live /\ f.index = tile.gemmCt /\ f.status = "PENDING"
    BY DEF f
  <2> QED BY <1>0, <1>2, <2>1, SubmitStep DEF IInv, TypeOK
<1>4. cur'.live /\ ~cur'.orphan /\ cur'.idx = head /\ cur'.cmd = cmd /\ cur'.ops = cmd.id
  BY <1>1, <1>3
<1>5. SlotsInv' /\ log' = log /\ LogInv' /\ HeadId' = HeadId
  BY <1>0, Quiet DEF regVars, memVars, hostVars
<1>6. PrevInv' /\ DoneMeansResults'
  BY <1>0, <1>5, QuietRest DEF regVars, memVars, hostVars
<1>7. handed' = HeadId
  BY <1>0, <1>1, <1>4 DEF History
<1>8. HandedInv'
  BY <1>0, <1>1, <1>4, <1>5, <1>7 DEF HandedInv, hostVars
<1>9. CurInv'
  BY <1>0, <1>4 DEF CurInv, regVars, memVars
<1>10. TypeOK'
  BY <1>0, <1>1, <1>3, <1>5, <1>7 DEF IInv, TypeOK, ModuleTypeOK, regVars, memVars, hostVars, Ids
<1> QED BY <1>1, <1>3, <1>4, <1>5, <1>6, <1>8, <1>9, <1>10 DEF IInv

\* service() returning, time passing in the tile and a reset of the tile keep the invariant.
LEMMA TileStep ==
  ASSUME IInv, ServiceEnd \/ Run \/ TileReset, UNCHANGED hostVars, History
  PROVE  IInv' /\ log' = log
<1>0. /\ UNCHANGED <<regVars, memVars, faults, hostVars>>
      /\ resets' \in Nat
  BY DEF ServiceEnd, Run, RunGemmEnd, RunCalEnd, RunService, TileReset, IInv, TypeOK, ModuleTypeOK
<1>1. svc' \in BOOLEAN
  BY Zenon DEF ServiceEnd, Run, RunGemmEnd, RunCalEnd, RunService, TileReset, IInv, TypeOK, ModuleTypeOK
<1>2. /\ cur' \in Inflight /\ tile' \in TileStates /\ TileHolds'
      /\ cur'.live = cur.live /\ cur'.orphan = cur.orphan /\ cur'.idx = cur.idx
      /\ cur'.cmd = cur.cmd /\ cur'.ops = cur.ops
  <2>1. CASE ServiceEnd
    BY <2>1 DEF ServiceEnd, IInv, TypeOK, ModuleTypeOK, TileHolds
  <2>2. CASE Run \/ TileReset
    BY <2>2, TileEvent DEF IInv, TypeOK
  <2> QED BY <2>1, <2>2
<1>3. SlotsInv' /\ log' = log /\ LogInv' /\ HeadId' = HeadId
  BY <1>0, Quiet DEF regVars, memVars, hostVars
<1>4. PrevInv' /\ DoneMeansResults'
  BY <1>0, <1>3, QuietRest DEF regVars, memVars, hostVars
<1>5. CurInv' /\ HandedInv' /\ handed' = handed
  BY <1>0, <1>2, <1>3, QuietCommand DEF regVars, memVars, hostVars
<1>6. TypeOK'
  BY <1>0, <1>1, <1>2, <1>3, <1>5 DEF IInv, TypeOK, ModuleTypeOK, regVars, memVars, hostVars
<1> QED BY <1>2, <1>3, <1>4, <1>5, <1>6 DEF IInv

\* A doorbell, one for all that was put or one of nonsense, keeps the invariant: the module
\* takes the host's next index or halts.
LEMMA BellStep == ASSUME IInv, RingBell \/ Nonsense, History PROVE IInv' /\ log' = log
<1>0. /\ UNCHANGED <<enable, base, head, prev, cur, tile, memVars, faults, resets, next, puts, cals, first>>
      /\ upsets' \in 0 .. MaxUpsets
      /\ tail' \in {tail, next}
      /\ halted' = "DOORBELL" \/ halted' = halted
  <2>1. CASE RingBell
    BY <2>1 DEF RingBell, WriteTail, Halt, hostVars, IInv, TypeOK
  <2>2. CASE Nonsense
    BY <2>2 DEF Nonsense, WriteTail, Halt, IInv, TypeOK
  <2> QED BY <2>1, <2>2
<1>1. svc' \in BOOLEAN
  BY Zenon DEF RingBell, Nonsense, WriteTail, IInv, TypeOK, ModuleTypeOK
<1>2. SlotsInv' /\ log' = log /\ LogInv' /\ HeadId' = HeadId
  BY <1>0, Quiet DEF memVars
<1>3. PrevInv' /\ DoneMeansResults'
  BY <1>0, <1>2, QuietRest DEF memVars
<1>4. CurInv' /\ HandedInv' /\ handed' = handed
  BY <1>0, <1>2, QuietCommand DEF memVars
<1>5. TypeOK'
  BY <1>0, <1>1, <1>2, <1>4 DEF IInv, TypeOK, ModuleTypeOK, memVars
<1>6. TileHolds'
  BY <1>0 DEF IInv, TileHolds
<1> QED BY <1>2, <1>3, <1>4, <1>5, <1>6 DEF IInv

\* A teardown keeps the invariant: the command in the tile is nobody's from here on.
LEMMA StopStep == ASSUME IInv, Stop, History PROVE IInv' /\ log' = log
<1>0. /\ UNCHANGED <<base, tail, head, halted, prev, tile, svc, memVars, faults, resets,
                     next, puts, cals, first>>
      /\ upsets' \in 0 .. MaxUpsets
      /\ cur' = [cur EXCEPT !.orphan = cur.live]
  BY DEF Stop, DisableQueue, IInv, TypeOK
<1>1. enable' \in BOOLEAN /\ ~enable'
  BY Zenon DEF Stop, DisableQueue
<1>2. /\ cur' \in Inflight /\ cur'.orphan = cur.live /\ cur'.live = cur.live
      /\ cur'.status = cur.status /\ cur'.ran = cur.ran /\ cur'.index = cur.index
  BY <1>0 DEF IInv, TypeOK, ModuleTypeOK, Inflight
<1>3. SlotsInv' /\ log' = log /\ LogInv' /\ HeadId' = HeadId
  BY <1>0, Quiet DEF memVars
<1>4. PrevInv' /\ DoneMeansResults'
  BY <1>0, <1>3, QuietRest DEF memVars
<1>5. handed' = handed
  BY <1>2 DEF History
<1>6. CurInv' /\ HandedInv'
  BY <1>0, <1>1, <1>2, <1>5 DEF CurInv, HandedInv, IInv
<1>7. TypeOK'
  BY <1>0, <1>1, <1>2, <1>3, <1>5 DEF IInv, TypeOK, ModuleTypeOK, memVars
<1>8. TileHolds'
  BY <1>0, <1>2 DEF IInv, TileHolds
<1> QED BY <1>3, <1>4, <1>6, <1>7, <1>8 DEF IInv

\* CAL_NOW keeps the invariant.
LEMMA CalibrateStep == ASSUME IInv, Calibrate, History PROVE IInv' /\ log' = log
<1>0. /\ UNCHANGED <<regVars, cur, svc, memVars, faults, resets, next, puts, upsets, first>>
      /\ cals' \in 0 .. MaxCals
      /\ CalNow
  BY DEF Calibrate, CalNow, IInv, TypeOK
<1>1. tile' \in TileStates /\ TileHolds'
  BY <1>0, CalNowStep DEF IInv, TypeOK
<1>2. SlotsInv' /\ log' = log /\ LogInv' /\ HeadId' = HeadId
  BY <1>0, Quiet DEF regVars, memVars
<1>3. PrevInv' /\ DoneMeansResults'
  BY <1>0, <1>2, QuietRest DEF regVars, memVars
<1>4. CurInv' /\ HandedInv' /\ handed' = handed
  BY <1>0, <1>2, QuietCommand DEF regVars, memVars
<1>5. TypeOK'
  BY <1>0, <1>1, <1>2, <1>4 DEF IInv, TypeOK, ModuleTypeOK, regVars, memVars
<1> QED BY <1>1, <1>2, <1>3, <1>4, <1>5 DEF IInv

-----------------------------------------------------------------------------
(* Steps that end the command at PTQ_HEAD. *)

\* A record at PTQ_HEAD: the slot behind the new PTQ_HEAD has ended, the others and what
\* the log says of their commands are as they were.
LEMMA HeadEnds ==
  ASSUME IInv, head # tail, NEW st \in Statuses \ {"PENDING"}, NEW ix \in Indices \cup {NoIndex},
         slot' = [slot EXCEPT ![SlotOf(head)] = [cmd |-> slot[SlotOf(head)].cmd, status |-> st, index |-> ix]],
         head' = Inc(head), UNCHANGED <<tail, opnd, base, next, puts>>, History
  PROVE  /\ slot' \in [0 .. RingSize - 1 -> Slots] /\ head' \in Indices
         /\ SlotsInv' /\ LogInv' /\ HeadId' = HeadId + 1
         /\ log' \in [Ids -> Statuses]
         /\ log'[HeadId] = st /\ \A i \in Ids : i # HeadId => log'[i] = log[i]
<1> DEFINE D == Dist(next, head)  k == SlotOf(head)
<1>1. /\ next \in Indices /\ head \in Indices /\ tail \in Indices /\ puts \in 0 .. MaxPuts
      /\ log \in [Ids -> Statuses] /\ slot \in [0 .. RingSize - 1 -> Slots]
  BY DEF IInv, TypeOK, ModuleTypeOK
<1>2. /\ D \in 1 .. RingSize /\ D <= puts /\ SlotAt(D) = k /\ k \in 0 .. RingSize - 1
      /\ HeadId \in Ids /\ HeadId <= puts /\ HeadId = puts + 1 - D
  BY AtHead DEF IInv, HeadId
<1>3. Dist(next, head') = D - 1 /\ head' \in Indices
  BY <1>1, <1>2, DistFacts, BeforeInc
<1>4. Dist(next, tail) <= D - 1
  <2>1. Dist(next, tail) \in 0 .. IndexMod - 1 /\ Dist(next, tail) <= D
    BY <1>1, DistFacts DEF IInv, SlotsInv
  <2>2. Dist(next, tail) # D
    BY <1>1, DistInjective
  <2> QED BY <1>2, <2>1, <2>2
<1>5. \A n \in 1 .. RingSize : SlotAt(n) \in 0 .. RingSize - 1 /\ (SlotAt(n) = k <=> n = D)
  BY <1>1, <1>2, SlotInjective, SlotAtType DEF SlotAt
<1>6. slot' \in [0 .. RingSize - 1 -> Slots]
  <2>1. slot[k].cmd \in Commands
    BY <1>1, <1>2 DEF Slots
  <2>2. [cmd |-> slot[k].cmd, status |-> st, index |-> ix] \in Slots
    BY <2>1 DEF Slots
  <2> QED BY <1>1, <2>2
<1>7. slot'[k].cmd = slot[k].cmd /\ slot'[k].status = st
  BY <1>1, <1>2
<1>8. \A n \in 1 .. RingSize : n # D => slot'[SlotAt(n)] = slot[SlotAt(n)]
  BY <1>1, <1>5
<1>9. HeadId' = HeadId + 1
  BY <1>1, <1>2, <1>3 DEF HeadId
<1> HIDE DEF D, k
<1>10. SlotsInv'
  <2>1. Dist(next', tail') <= Dist(next', head') /\ Dist(next', head') <= RingSize /\ Dist(next', head') <= puts'
    BY <1>1, <1>2, <1>3, <1>4
  <2>2. ASSUME NEW n \in 1 .. RingSize
        PROVE  LET s == slot'[SlotAt(n)]
               IN  IF n > puts THEN s = ZeroSlot
                   ELSE /\ s.cmd.id = puts + 1 - n /\ s.cmd.buf \in Addrs
                        /\ s.status = "PENDING" <=> n <= D - 1
                        /\ s.status = "PENDING" => opnd[s.cmd.buf] = s.cmd.id
    <3>1. LET s == slot[SlotAt(n)]
          IN  IF n > puts THEN s = ZeroSlot
              ELSE /\ s.cmd.id = puts + 1 - n /\ s.cmd.buf \in Addrs
                   /\ s.status = "PENDING" <=> n <= D
                   /\ s.status = "PENDING" => opnd[s.cmd.buf] = s.cmd.id
      BY DEF IInv, SlotsInv, D
    <3>2. CASE n = D
      BY <1>1, <1>2, <1>7, <3>1, <3>2
    <3>3. CASE n # D
      <4>1. n <= D <=> n <= D - 1
        BY <1>2, <3>3
      <4> QED BY <1>8, <3>1, <3>3, <4>1
    <3> QED BY <3>2, <3>3
  <2> QED BY <1>3, <2>1, <2>2 DEF IInv, SlotsInv, SlotAt
<1>11. Holds(slot', next', puts')
  BY <1>10 DEF Holds, SlotsInv, SlotAt
<1>12. /\ log' \in [Ids -> Statuses]
       /\ \A n \in 1 .. RingSize : n <= puts => log'[puts + 1 - n] = slot'[SlotAt(n)].status
       /\ \A i \in Ids : i > puts \/ i + RingSize <= puts => log'[i] = log[i]
  BY <1>1, <1>6, <1>11, LogNext DEF SlotAt
<1>13. LogInv'
  BY <1>12 DEF IInv, LogInv, SlotAt
<1>14. log'[HeadId] = st
  BY <1>2, <1>7, <1>12
<1>15. ASSUME NEW i \in Ids, i # HeadId PROVE log'[i] = log[i]
  <2>1. CASE i > puts \/ i + RingSize <= puts
    BY <1>12, <2>1
  <2>2. CASE i <= puts /\ i + RingSize > puts
    <3>1. PICK n \in 1 .. RingSize : n <= puts /\ i = puts + 1 - n
      <4>1. puts + 1 - i \in 1 .. RingSize /\ puts + 1 - i <= puts /\ i = puts + 1 - (puts + 1 - i)
        BY <1>1, <2>2 DEF Ids
      <4> QED BY <4>1
    <3>2. n # D
      BY <1>2, <1>15, <3>1
    <3>3. log[i] = slot[SlotAt(n)].status
      BY <3>1 DEF IInv, LogInv
    <3> QED BY <1>8, <1>12, <3>1, <3>2, <3>3
  <2> QED BY <1>1, <2>1, <2>2 DEF Ids
<1> QED BY <1>3, <1>6, <1>9, <1>10, <1>12, <1>13, <1>14, <1>15

\* The log does not say yet how the command at PTQ_HEAD ends.
LEMMA HeadPending ==
  ASSUME IInv, head # tail
  PROVE  HeadId \in Ids /\ log[HeadId] = "PENDING"
<1> DEFINE D == Dist(next, head)
<1>1. /\ D \in 1 .. RingSize /\ D <= puts /\ SlotAt(D) = SlotOf(head)
      /\ HeadId \in Ids /\ slot[SlotOf(head)].status = "PENDING"
  BY AtHead DEF IInv
<1>2. log[puts + 1 - D] = slot[SlotAt(D)].status
  BY <1>1 DEF IInv, LogInv
<1> QED BY <1>1, <1>2 DEF HeadId

\* Results in use elsewhere are not in the buffer of the command at PTQ_HEAD.
LEMMA OtherResults ==
  ASSUME IInv, head # tail, NEW j \in 0 .. RingSize - 1, slot[j].status = "DONE",
         opnd[slot[j].cmd.buf] = slot[j].cmd.id
  PROVE  /\ j # SlotOf(head)
         /\ slot[j].cmd.buf # slot[SlotOf(head)].cmd.buf
         /\ slot[j].cmd.buf \in Addrs
<1>0. next \in Indices /\ puts \in Nat /\ puts \in 0 .. MaxPuts
  BY DEF IInv, TypeOK
<1>1. /\ SlotOf(head) \in 0 .. RingSize - 1 /\ slot[SlotOf(head)].status = "PENDING"
      /\ slot[SlotOf(head)].cmd.id = HeadId /\ opnd[slot[SlotOf(head)].cmd.buf] = HeadId
      /\ HeadId # 0
  BY AtHead DEF IInv, Ids
<1>2. j # SlotOf(head)
  BY <1>1
<1>3. slot[j].cmd.buf # slot[SlotOf(head)].cmd.buf
  <2> SUFFICES ASSUME slot[j].cmd.buf = slot[SlotOf(head)].cmd.buf PROVE FALSE
    OBVIOUS
  <2>1. slot[j].cmd.id = slot[SlotOf(head)].cmd.id /\ slot[j].cmd.id # 0
    BY <1>1
  <2>2. Holds(slot, next, puts)
    BY SlotsHold DEF IInv
  <2>3. j = SlotOf(head)
    BY <1>0, <1>1, <2>1, <2>2, SlotUnique
  <2> QED BY <1>2, <2>3
<1>4. slot[j].cmd.buf \in Addrs
  <2>1. PICK n \in 1 .. RingSize : j = SlotOf(Before(next, n))
    BY <1>0, SlotSurjective
  <2>2. ZeroSlot.status = "PENDING"
    BY DEF ZeroSlot
  <2>3. ~(n > puts)
    BY <2>1, <2>2 DEF IInv, SlotsInv, SlotAt
  <2> QED BY <2>1, <2>3 DEF IInv, SlotsInv, SlotAt
<1> QED BY <1>2, <1>3, <1>4

\* The histories after a record, with no command of the module's left.
LEMMA RecordRest ==
  ASSUME IInv, head # tail, ~cur'.live, handed <= HeadId, History, LogInv',
         log'[HeadId] = prev', prev' # "PENDING", HeadId' = HeadId + 1,
         UNCHANGED <<puts, first>>
  PROVE  CurInv' /\ HandedInv' /\ PrevInv' /\ handed' = handed
<1>1. handed' = handed
  BY DEF History
<1>2. HeadId \in Ids /\ handed \in Nat /\ first <= HeadId /\ first \in Nat
  BY AtHead DEF IInv, TypeOK, PrevInv
<1>3. HandedInv'
  BY <1>1, <1>2 DEF IInv, HandedInv, Ids
<1>4. PrevInv'
  BY <1>2 DEF PrevInv, Ids
<1> QED BY <1>1, <1>3, <1>4 DEF CurInv

\* A record of anything but DONE at PTQ_HEAD keeps the invariant, written or not, and the
\* log changes only in that command's place.
LEMMA RecordStep ==
  ASSUME IInv, head # tail, NEW st \in Statuses \ {"PENDING", "DONE"},
         Record(head, slot[SlotOf(head)].cmd, st, NoIndex),
         cur' \in Inflight, ~cur'.live, TileHolds', handed <= HeadId,
         UNCHANGED <<enable, base, tail, opnd, out, tile, svc, resets, hostVars>>, History
  PROVE  /\ IInv'
         /\ log' = log \/ (log'[HeadId] = st /\ \A i \in Ids : i # HeadId => log'[i] = log[i])
<1>1. /\ faults' \in Nat /\ low' = low
      /\ \/ /\ slot' = [slot EXCEPT ![SlotOf(head)] =
                          [cmd |-> slot[SlotOf(head)].cmd, status |-> st, index |-> NoIndex]]
            /\ head' = Inc(head) /\ prev' = st /\ halted' = halted
         \/ UNCHANGED <<slot, head, prev>> /\ halted' = "MEMORY"
  BY RecordCases DEF IInv, TypeOK, SlotsInv
<1>2. handed' = handed /\ SlotOf(head) \in 0 .. RingSize - 1
  BY AtHead DEF History, IInv
<1>3. CASE UNCHANGED <<slot, head, prev>> /\ halted' = "MEMORY"
  <2>1. SlotsInv' /\ log' = log /\ LogInv' /\ HeadId' = HeadId
    BY <1>3, Quiet DEF hostVars
  <2>2. PrevInv' /\ DoneMeansResults'
    BY <1>3, <2>1, QuietRest DEF hostVars
  <2>3. CurInv' /\ HandedInv'
    BY <1>2, <1>3 DEF CurInv, HandedInv, hostVars, IInv
  <2>4. TypeOK'
    BY <1>1, <1>2, <1>3, <2>1 DEF IInv, TypeOK, ModuleTypeOK, hostVars
  <2> QED BY <2>1, <2>2, <2>3, <2>4 DEF IInv
<1>4. CASE /\ slot' = [slot EXCEPT ![SlotOf(head)] =
                          [cmd |-> slot[SlotOf(head)].cmd, status |-> st, index |-> NoIndex]]
           /\ head' = Inc(head) /\ prev' = st /\ halted' = halted
  <2>1. /\ slot' \in [0 .. RingSize - 1 -> Slots] /\ head' \in Indices
        /\ SlotsInv' /\ LogInv' /\ HeadId' = HeadId + 1
        /\ log' \in [Ids -> Statuses]
        /\ log'[HeadId] = st /\ \A i \in Ids : i # HeadId => log'[i] = log[i]
    BY <1>4, HeadEnds DEF hostVars
  <2>2. CurInv' /\ HandedInv' /\ PrevInv'
    BY <1>4, <2>1, RecordRest DEF hostVars
  <2>3. \A j \in DOMAIN slot' : slot'[j].status = "DONE" => slot'[j] = slot[j] /\ j \in DOMAIN slot
    BY <1>2, <1>4 DEF IInv, TypeOK, ModuleTypeOK
  <2>4. DoneMeansResults'
    BY <2>3 DEF DoneMeansResults, IInv
  <2>5. TypeOK'
    BY <1>1, <1>2, <1>4, <2>1 DEF IInv, TypeOK, ModuleTypeOK, hostVars
  <2> QED BY <2>1, <2>2, <2>4, <2>5 DEF IInv
<1> QED BY <1>1, <1>3, <1>4

\* finish() of a command the tile refused, or lost in a reset, keeps the invariant.
LEMMA FinishFailedStep ==
  ASSUME IInv, FinishFailed, UNCHANGED hostVars, History
  PROVE  /\ IInv'
         /\ log' = log \/ (/\ HeadId \in Ids /\ log[HeadId] = "PENDING" /\ log'[HeadId] # "NOT_RUN"
                           /\ \A i \in Ids : i # HeadId => log'[i] = log[i])
<1>1. /\ head # tail /\ cur.status \in {"REFUSED", "LOST"} /\ handed = HeadId
      /\ Record(head, slot[SlotOf(head)].cmd, cur.status, NoIndex)
      /\ UNCHANGED <<enable, base, tail, opnd, out, tile, svc, resets>>
  BY DEF FinishFailed, FinishReady, IInv, TypeOK, ModuleTypeOK, Inflight, CurInv, HandedInv
<1>2. cur' \in Inflight /\ ~cur'.live
  BY ModuleConstTypes DEF FinishFailed, NoInflight
<1>3. TileHolds'
  BY DEF FinishFailed, FinishReady, IInv, TileHolds, NoInflight
<1>4. /\ IInv'
      /\ log' = log \/ (log'[HeadId] = cur.status /\ \A i \in Ids : i # HeadId => log'[i] = log[i])
  <2>1. cur.status \in Statuses \ {"PENDING", "DONE"} /\ handed <= HeadId
    BY <1>1 DEF Statuses, IInv, TypeOK
  <2> QED BY <1>1, <1>2, <1>3, <2>1, RecordStep
<1>5. HeadId \in Ids /\ log[HeadId] = "PENDING"
  BY <1>1, HeadPending DEF IInv
<1> QED BY <1>1, <1>4, <1>5

\* take() ending a command before the tile has it keeps the invariant, and one that asked
\* to follow a success ends NOT RUN only if the command before it was none.
LEMMA TakeAndEndStep ==
  ASSUME IInv, TakeAndEnd, UNCHANGED hostVars, History
  PROVE  /\ IInv'
         /\ log' = log \/ (/\ HeadId \in Ids /\ log[HeadId] = "PENDING"
                           /\ log'[HeadId] = "NOT_RUN" => prev \notin {"PENDING", "DONE"}
                           /\ \A i \in Ids : i # HeadId => log'[i] = log[i])
<1>1. /\ head # tail /\ ~cur.live /\ enable /\ halted = "no"
      /\ UNCHANGED <<enable, base, tail, opnd, out, cur, tile, svc, resets>>
  BY DEF TakeAndEnd, TakeReady
<1>2. PICK st \in {"NOT_ISSUED", "NOT_RUN"} :
        /\ Record(head, slot[SlotOf(head)].cmd, st, NoIndex)
        /\ st = "NOT_RUN" => prev \notin {"PENDING", "DONE"}
  <2>1. LineAt(head) = slot[SlotOf(head)]
    BY DEF LineAt, IInv, SlotsInv
  <2> QED BY <2>1 DEF TakeAndEnd, MustNotRun
<1>3. TileHolds' /\ cur' \in Inflight /\ ~cur'.live
  BY <1>1 DEF IInv, TileHolds, TypeOK, ModuleTypeOK
<1>4. HeadId \in Ids /\ log[HeadId] = "PENDING"
  BY <1>1, HeadPending
<1>5. handed <= HeadId
  BY <1>1, <1>4 DEF IInv, HandedInv, TypeOK, Ids
<1>6. /\ IInv'
      /\ log' = log \/ (log'[HeadId] = st /\ \A i \in Ids : i # HeadId => log'[i] = log[i])
  <2>1. st \in Statuses \ {"PENDING", "DONE"}
    BY DEF Statuses
  <2> QED BY <1>1, <1>2, <1>3, <1>5, <2>1, RecordStep
<1> QED BY <1>2, <1>4, <1>6

\* finish() of a command that ran keeps the invariant: when its record says DONE its own
\* results are in its buffer, under the index noted, and nobody else's results are gone.
LEMMA FinishDoneStep ==
  ASSUME IInv, FinishDone, UNCHANGED hostVars, History
  PROVE  /\ IInv'
         /\ log' = log \/ (/\ HeadId \in Ids /\ log[HeadId] = "PENDING" /\ log'[HeadId] # "NOT_RUN"
                           /\ \A i \in Ids : i # HeadId => log'[i] = log[i])
<1> DEFINE k == SlotOf(head)  b == slot[k].cmd.buf
<1>0. /\ cur.live /\ ~cur.orphan /\ cur.status = "DONE" /\ cur' = NoInflight
      /\ head # tail /\ cur.idx = head /\ cur.cmd = slot[k].cmd
      /\ cur.ops = cur.cmd.id /\ cur.ran = cur.index /\ handed = HeadId
      /\ cur.index \in Indices
      /\ UNCHANGED <<enable, base, tail, opnd, tile, svc, resets>>
  BY DEF FinishDone, FinishReady, IInv, CurInv, TileHolds, HandedInv, TypeOK, ModuleTypeOK, Inflight
<1>1. /\ k \in 0 .. RingSize - 1 /\ b \in Addrs /\ HeadId \in Ids /\ log[HeadId] = "PENDING"
      /\ slot[k].cmd.id = HeadId
  BY <1>0, AtHead, HeadPending DEF IInv
<1> DEFINE r == [id |-> slot[k].cmd.id, index |-> cur.index]
           d == [cmd |-> slot[k].cmd, status |-> "DONE", index |-> cur.index]
<1>2. /\ faults' \in Nat /\ low' = low
      /\ \/ /\ slot' = [slot EXCEPT ![k] = d] /\ out' = [out EXCEPT ![b] = r]
            /\ head' = Inc(head) /\ prev' = "DONE" /\ halted' = halted
         \/ /\ out' \in {out, [out EXCEPT ![b] = r], [out EXCEPT ![b] = Torn]}
            /\ UNCHANGED <<slot, head, prev>> /\ halted' = "MEMORY"
  <2>1. faults \in Nat /\ (CountFault => faults' \in Nat)
    BY DEF IInv, TypeOK, ModuleTypeOK, CountFault
  <2>2. \/ out' = [out EXCEPT ![b] = r] /\ Record(head, slot[k].cmd, "DONE", cur.index)
        \/ /\ out' \in {out, [out EXCEPT ![b] = Torn]}
           /\ halted' = "MEMORY"
           /\ CountFault
           /\ UNCHANGED <<slot, low, head, prev>>
    BY <1>0 DEF FinishDone, Halt
  <2>3. ASSUME Record(head, slot[k].cmd, "DONE", cur.index)
        PROVE  /\ faults' \in Nat /\ low' = low
               /\ \/ /\ slot' = [slot EXCEPT ![k] = d]
                     /\ head' = Inc(head) /\ prev' = "DONE" /\ halted' = halted
                  \/ UNCHANGED <<slot, head, prev>> /\ halted' = "MEMORY"
    BY <2>3, RecordCases DEF IInv, TypeOK, SlotsInv
  <2> HIDE DEF k, b, r, d
  <2> QED BY <2>1, <2>2, <2>3
<1>3. out' \in [Addrs -> Results]
  <2>1. r \in Results
    BY <1>0, <1>1 DEF Results, Ids
  <2> HIDE DEF r, b
  <2> QED BY <1>2, <2>1, ModuleConstTypes DEF IInv, TypeOK, ModuleTypeOK
<1>4. cur' \in Inflight /\ ~cur'.live
  BY <1>0, ModuleConstTypes DEF NoInflight
<1>5. TileHolds'
  BY <1>0, <1>4 DEF IInv, TileHolds
<1>6. handed' = handed
  BY <1>4 DEF History
<1>7. ASSUME NEW j \in 0 .. RingSize - 1, slot[j].status = "DONE",
             opnd[slot[j].cmd.buf] = slot[j].cmd.id
      PROVE  j # k /\ out'[slot[j].cmd.buf] = [id |-> slot[j].cmd.id, index |-> slot[j].index]
  <2>1. j # k /\ slot[j].cmd.buf # b /\ slot[j].cmd.buf \in Addrs
    BY <1>0, <1>7, OtherResults
  <2>2. out[slot[j].cmd.buf] = [id |-> slot[j].cmd.id, index |-> slot[j].index]
    BY <1>7 DEF IInv, DoneMeansResults, TypeOK, ModuleTypeOK
  <2>3. out'[slot[j].cmd.buf] = out[slot[j].cmd.buf]
    <3> HIDE DEF r, b
    <3> QED BY <1>2, <2>1 DEF IInv, TypeOK, ModuleTypeOK
  <2> QED BY <2>1, <2>2, <2>3
<1>8. CASE UNCHANGED <<slot, head, prev>> /\ halted' = "MEMORY"
  <2>1. SlotsInv' /\ log' = log /\ LogInv' /\ HeadId' = HeadId
    BY <1>0, <1>8, Quiet DEF hostVars
  <2>2. PrevInv'
    BY <1>0, <1>8, <2>1, QuietRest DEF hostVars
  <2>3. DoneMeansResults'
    BY <1>0, <1>7, <1>8 DEF DoneMeansResults, IInv, TypeOK, ModuleTypeOK
  <2>4. CurInv' /\ HandedInv'
    BY <1>4, <1>6, <1>8 DEF CurInv, HandedInv, hostVars, IInv
  <2>5. TypeOK'
    BY <1>0, <1>2, <1>3, <1>4, <1>6, <1>8, <2>1 DEF IInv, TypeOK, ModuleTypeOK, hostVars
  <2> QED BY <1>5, <2>1, <2>2, <2>3, <2>4, <2>5 DEF IInv
<1>9. CASE /\ slot' = [slot EXCEPT ![k] = d] /\ out' = [out EXCEPT ![b] = r]
           /\ head' = Inc(head) /\ prev' = "DONE" /\ halted' = halted
  <2>1. /\ slot' \in [0 .. RingSize - 1 -> Slots] /\ head' \in Indices
        /\ SlotsInv' /\ LogInv' /\ HeadId' = HeadId + 1
        /\ log' \in [Ids -> Statuses]
        /\ log'[HeadId] = "DONE" /\ \A i \in Ids : i # HeadId => log'[i] = log[i]
    <3>1. "DONE" \in Statuses \ {"PENDING"}
      BY DEF Statuses
    <3> QED BY <1>0, <1>9, <3>1, HeadEnds DEF hostVars
  <2>2. CurInv' /\ HandedInv' /\ PrevInv'
    <3>1. handed <= HeadId
      BY <1>0 DEF IInv, TypeOK
    <3> QED BY <1>0, <1>4, <1>9, <2>1, <3>1, RecordRest DEF hostVars
  <2>3. DoneMeansResults'
    <3>1. ASSUME NEW j \in 0 .. RingSize - 1, slot'[j].status = "DONE",
                 opnd[slot'[j].cmd.buf] = slot'[j].cmd.id
          PROVE  out'[slot'[j].cmd.buf] = [id |-> slot'[j].cmd.id, index |-> slot'[j].index]
      <4>1. CASE j = k
        <5>1. slot'[j] = d
          BY <1>1, <1>9, <4>1 DEF IInv, TypeOK, ModuleTypeOK
        <5>2. out'[b] = r
          BY <1>1, <1>9 DEF IInv, TypeOK, ModuleTypeOK
        <5> QED BY <5>1, <5>2
      <4>2. CASE j # k
        <5>1. slot'[j] = slot[j]
          BY <1>9, <4>2 DEF IInv, TypeOK, ModuleTypeOK
        <5> QED BY <1>7, <3>1, <5>1
      <4> QED BY <4>1, <4>2
    <3>2. DOMAIN slot' = 0 .. RingSize - 1 /\ opnd' = opnd
      BY <1>0, <2>1
    <3> QED BY <3>1, <3>2 DEF DoneMeansResults
  <2>4. TypeOK'
    BY <1>0, <1>2, <1>3, <1>4, <1>6, <1>9, <2>1 DEF IInv, TypeOK, ModuleTypeOK, hostVars, Statuses
  <2> QED BY <1>1, <1>5, <2>1, <2>2, <2>3, <2>4 DEF IInv
<1> QED BY <1>2, <1>8, <1>9

-----------------------------------------------------------------------------
(* The host's own writes to the slots. *)

\* With room in the ring, some buffer is free: there is one for each slot, and the slot
\* of the next index is not in flight.
LEMMA FreeBufferFree ==
  ASSUME IInv, Dist(next, head) < RingSize
  PROVE  /\ FreeBuffer \in Addrs
         /\ \A j \in InFlight : slot[j].cmd.buf # FreeBuffer
<1> DEFINE Used == {slot[j].cmd.buf : j \in InFlight}
           R == (0 .. RingSize - 1) \ {SlotOf(next)}
           f == [j \in InFlight |-> slot[j].cmd.buf]
<1>1. next \in Indices /\ head \in Indices /\ Dist(next, head) \in Nat
  BY DistFacts DEF IInv, TypeOK, ModuleTypeOK
<1>2. InFlight \in SUBSET R
  <2> SUFFICES ASSUME NEW j \in InFlight PROVE j \in R
    OBVIOUS
  <2>1. PICK n \in 1 .. Dist(next, head) : j = SlotOf(Before(next, n))
    BY <1>1, InFlightSlots
  <2>2. n \in 1 .. RingSize /\ n # RingSize /\ RingSize \in 1 .. RingSize
    BY <1>1
  <2>3. SlotOf(Before(next, n)) # SlotOf(Before(next, RingSize))
    BY <1>1, <2>2, SlotInjective
  <2> QED BY <1>1, <2>1, <2>2, <2>3, SlotOfRing, SlotAtType
<1>3. IsFiniteSet(R) /\ Cardinality(R) = RingSize - 1
  <2>1. IsFiniteSet(0 .. RingSize - 1) /\ Cardinality(0 .. RingSize - 1) = RingSize
    BY FS_Interval
  <2>2. SlotOf(next) \in 0 .. RingSize - 1
    BY <1>1, SlotOfType
  <2> QED BY <2>1, <2>2, FS_RemoveElement
<1>4. IsFiniteSet(InFlight) /\ Cardinality(InFlight) <= RingSize - 1
  <2> HIDE DEF R
  <2> QED BY <1>2, <1>3, FS_Subset
<1>5. f \in Surjection(InFlight, Used)
  BY DEF Surjection
<1>6. IsFiniteSet(Used) /\ Cardinality(Used) <= Cardinality(InFlight)
  <2> HIDE DEF f, Used
  <2> QED BY <1>4, <1>5, FS_Surjection
<1>7. \E a \in Addrs : a \notin Used
  <2> SUFFICES ASSUME Addrs \in SUBSET Used PROVE FALSE
    OBVIOUS
  <2>1. Cardinality(Addrs) <= Cardinality(Used)
    <3> HIDE DEF Used
    <3> QED BY <1>6, FS_Subset
  <2>2. /\ Cardinality(Addrs) \in Nat /\ Cardinality(Used) \in Nat /\ Cardinality(InFlight) \in Nat
        /\ Cardinality(Addrs) >= RingSize
    <3> HIDE DEF Used
    <3> QED BY <1>4, <1>6, BuffersAssumption, FS_CardinalityType
  <2> QED BY <1>4, <1>6, <2>1, <2>2
<1>8. FreeBuffer = CHOOSE a \in Addrs : a \notin Used
  BY DEF FreeBuffer
<1>9. FreeBuffer \in Addrs /\ FreeBuffer \notin Used
  <2> HIDE DEF Used
  <2> QED BY <1>7, <1>8
<1> QED BY <1>9

\* A descriptor written keeps the invariant: it takes a slot whose command has ended and a
\* buffer no command in flight has.
LEMMA PutStep ==
  ASSUME IInv, NEW kind \in Kinds, NEW after \in BOOLEAN, Put(kind, after), History
  PROVE  IInv' /\ log' = log
<1> DEFINE D == Dist(next, head)  k == SlotOf(next)  a == FreeBuffer
           d == [cmd |-> [id |-> puts + 1, kind |-> kind, after |-> after, buf |-> a],
                 status |-> "PENDING", index |-> 0]
<1>0. /\ puts < MaxPuts /\ D < RingSize
      /\ slot' = [slot EXCEPT ![k] = d] /\ opnd' = [opnd EXCEPT ![a] = puts + 1]
      /\ next' = Inc(next) /\ puts' = puts + 1
      /\ UNCHANGED <<regVars, cur, tile, svc, low, out, faults, resets, cals, upsets, first>>
  BY DEF Put
<1>1. /\ next \in Indices /\ head \in Indices /\ tail \in Indices /\ puts \in 0 .. MaxPuts
      /\ log \in [Ids -> Statuses] /\ slot \in [0 .. RingSize - 1 -> Slots]
      /\ opnd \in [Addrs -> Nat]
  BY DEF IInv, TypeOK, ModuleTypeOK
<1>2. a \in Addrs /\ \A j \in InFlight : slot[j].cmd.buf # a
  BY <1>0, FreeBufferFree
<1>3. k \in 0 .. RingSize - 1 /\ next' \in Indices /\ D \in 0 .. RingSize /\ D <= puts
  BY <1>0, <1>1, SlotOfType, BeforeInc, DistFacts DEF IInv, SlotsInv
<1> HIDE DEF a
<1>4. d \in Slots
  BY <1>1, <1>2 DEF Slots, Commands, Statuses, Indices
<1> HIDE DEF d
<1>5. slot' \in [0 .. RingSize - 1 -> Slots] /\ slot'[k] = d /\ opnd' \in [Addrs -> Nat]
      /\ opnd'[a] = puts + 1 /\ \A b \in Addrs : b # a => opnd'[b] = opnd[b]
  BY <1>0, <1>1, <1>2, <1>3, <1>4
<1>6. \A j \in 0 .. RingSize - 1 : j # k => slot'[j] = slot[j]
  BY <1>0, <1>1
<1>7. ASSUME NEW n \in 1 .. RingSize - 1
      PROVE  /\ SlotOf(Before(next', n + 1)) = SlotAt(n)
             /\ SlotAt(n) \in 0 .. RingSize - 1 /\ SlotAt(n) # k
             /\ slot'[SlotAt(n)] = slot[SlotAt(n)]
  <2>1. n \in 1 .. RingSize /\ RingSize \in 1 .. RingSize /\ n # RingSize
    OBVIOUS
  <2>2. SlotAt(n) # k
    BY <1>1, <2>1, SlotInjective, SlotOfRing DEF SlotAt
  <2>3. SlotAt(n) \in 0 .. RingSize - 1
    BY <1>1, <2>1, SlotAtType DEF SlotAt
  <2>4. SlotOf(Before(next', n + 1)) = SlotAt(n)
    BY <1>0, <1>1, BeforeInc DEF SlotAt
  <2> QED BY <1>6, <2>2, <2>3, <2>4
<1>8. SlotOf(Before(next', 1)) = k
  BY <1>0, <1>1, BeforeInc
<1>9. /\ Dist(next', head') = D + 1 /\ Dist(next', tail') = Dist(next, tail) + 1
      /\ Dist(next, tail) <= D /\ Dist(next, tail) \in Nat
  <2>1. /\ Dist(next, tail) <= D /\ Dist(next, tail) \in 0 .. IndexMod - 1
        /\ RingSize < IndexMod /\ D \in 0 .. IndexMod - 1
    BY <1>1, DistFacts, RingDividesAssumption DEF IInv, SlotsInv
  <2>2. D < IndexMod - 1 /\ Dist(next, tail) < IndexMod - 1
    BY <1>0, <2>1
  <2>3. head' = head /\ tail' = tail
    BY <1>0 DEF regVars
  <2> QED BY <1>0, <1>1, <2>1, <2>2, <2>3, DistFacts
<1>10. HeadId' = HeadId
  BY <1>0, <1>1, <1>3, <1>9 DEF HeadId
<1>11. ASSUME NEW m \in 1 .. RingSize
       PROVE  LET s == slot'[SlotOf(Before(next', m))]
              IN  IF m > puts' THEN s = ZeroSlot
                  ELSE /\ s.cmd.id = puts' + 1 - m /\ s.cmd.buf \in Addrs
                       /\ s.status = "PENDING" <=> m <= D + 1
                       /\ s.status = "PENDING" => opnd'[s.cmd.buf] = s.cmd.id
                       /\ s.status = log[puts' + 1 - m]
  <2>1. CASE m = 1
    <3>1. slot'[SlotOf(Before(next', m))] = d
      BY <1>5, <1>8, <2>1
    <3>2. d.cmd.id = puts + 1 /\ d.cmd.buf = a /\ d.status = "PENDING"
      BY DEF d
    <3>3. ~(m > puts') /\ puts' + 1 - m = puts + 1 /\ m <= D + 1
      BY <1>0, <1>1, <1>3, <2>1
    <3>4. log[puts + 1] = "PENDING"
      BY <1>0, <1>1 DEF IInv, LogInv, Ids
    <3> QED BY <1>2, <1>5, <3>1, <3>2, <3>3, <3>4
  <2>2. CASE m # 1
    <3> DEFINE n == m - 1  s == slot[SlotAt(n)]
    <3>1. n \in 1 .. RingSize - 1 /\ n \in 1 .. RingSize /\ m = n + 1
      BY <2>2
    <3>2. slot'[SlotOf(Before(next', m))] = s
      BY <1>7, <3>1
    <3>3. IF n > puts THEN s = ZeroSlot
          ELSE /\ s.cmd.id = puts + 1 - n /\ s.cmd.buf \in Addrs
               /\ s.status = "PENDING" <=> n <= D
               /\ s.status = "PENDING" => opnd[s.cmd.buf] = s.cmd.id
               /\ s.status = log[puts + 1 - n]
      BY <1>1, <3>1 DEF IInv, SlotsInv, LogInv
    <3>4. /\ m > puts' <=> n > puts
          /\ m <= D + 1 <=> n <= D
          /\ puts' + 1 - m = puts + 1 - n
      BY <1>0, <1>1, <1>3, <3>1
    <3>5. n <= D => SlotAt(n) \in InFlight
      <4>1. n <= D => n \in 1 .. Dist(next, head)
        BY <1>3, <3>1
      <4> QED BY <1>0, <1>1, <1>3, <4>1, InFlightSlots DEF SlotAt
    <3> HIDE DEF n, s
    <3>6. n <= D => s.cmd.buf # a
      BY <1>2, <3>5 DEF s
    <3> QED BY <1>5, <3>2, <3>3, <3>4, <3>6
  <2> QED BY <2>1, <2>2
<1>12. SlotsInv'
  <2>1. base' = "ring"
    BY <1>0 DEF IInv, SlotsInv, regVars
  <2>2. /\ Dist(next', tail') <= Dist(next', head')
        /\ Dist(next', head') <= RingSize /\ Dist(next', head') <= puts'
    BY <1>0, <1>1, <1>3, <1>9
  <2> QED BY <1>9, <1>11, <2>1, <2>2 DEF SlotsInv, SlotAt
<1>13. log' = log
  <2>1. puts' \in 0 .. MaxPuts
    BY <1>0, <1>1
  <2>2. Holds(slot', next', puts')
    BY <1>11 DEF Holds
  <2>3. \A m \in 1 .. RingSize : m <= puts' => slot'[SlotOf(Before(next', m))].status = log[puts' + 1 - m]
    BY <1>11, <2>1
  <2> QED BY <1>1, <1>3, <1>5, <2>1, <2>2, <2>3, LogKept
<1>14. LogInv'
  <2>1. \A i \in Ids : i > puts' => log'[i] = "PENDING"
    BY <1>0, <1>1, <1>13 DEF IInv, LogInv, Ids
  <2>2. \A m \in 1 .. RingSize : m <= puts' => log'[puts' + 1 - m] = slot'[SlotOf(Before(next', m))].status
    <3>1. \A m \in 1 .. RingSize : m <= puts' => ~(m > puts')
      BY <1>0, <1>1
    <3> QED BY <1>11, <1>13, <3>1
  <2> QED BY <2>1, <2>2 DEF LogInv, SlotAt
<1>15. handed' = handed
  BY <1>0 DEF History
<1>16. HandedInv' /\ PrevInv'
  BY <1>0, <1>1, <1>10, <1>13, <1>15 DEF IInv, HandedInv, PrevInv, regVars, TypeOK
<1>17. CurInv'
  <2>1. head # tail => slot'[SlotOf(head)] = slot[SlotOf(head)]
    <3> SUFFICES ASSUME head # tail PROVE slot'[SlotOf(head)] = slot[SlotOf(head)]
      OBVIOUS
    <3>1. D \in 1 .. RingSize - 1 /\ SlotAt(D) = SlotOf(head)
      BY <1>0, AtHead DEF IInv
    <3> QED BY <1>7, <3>1
  <2> QED BY <1>0, <2>1 DEF IInv, CurInv, regVars
<1>18. DoneMeansResults'
  <2>1. ASSUME NEW j \in 0 .. RingSize - 1, slot'[j].status = "DONE",
               opnd'[slot'[j].cmd.buf] = slot'[j].cmd.id
        PROVE  out[slot'[j].cmd.buf] = [id |-> slot'[j].cmd.id, index |-> slot'[j].index]
    <3>1. j # k
      BY <1>5, <2>1 DEF d
    <3>2. slot'[j] = slot[j]
      BY <1>6, <3>1
    <3>3. PICK n \in 1 .. RingSize : j = SlotAt(n)
      BY <1>1, SlotSurjective DEF SlotAt
    <3>4. slot[j].cmd.id # puts + 1 /\ slot[j].cmd.buf \in Addrs
      <4>1. ZeroSlot.status = "PENDING"
        BY DEF ZeroSlot
      <4>2. ~(n > puts)
        BY <2>1, <3>2, <3>3, <4>1 DEF IInv, SlotsInv
      <4>3. slot[j].cmd.id = puts + 1 - n /\ slot[j].cmd.buf \in Addrs
        BY <3>3, <4>2 DEF IInv, SlotsInv
      <4> QED BY <1>1, <4>3
    <3>5. opnd[slot[j].cmd.buf] = slot[j].cmd.id
      BY <1>5, <2>1, <3>2, <3>4
    <3> QED BY <1>1, <2>1, <3>2, <3>5 DEF IInv, DoneMeansResults
  <2>2. DOMAIN slot' = 0 .. RingSize - 1 /\ out' = out
    BY <1>0, <1>5
  <2> QED BY <2>1, <2>2 DEF DoneMeansResults
<1>19. TypeOK'
  BY <1>0, <1>1, <1>3, <1>5, <1>13, <1>15 DEF IInv, TypeOK, ModuleTypeOK, regVars
<1>20. TileHolds'
  BY <1>0 DEF IInv, TileHolds
<1> QED BY <1>12, <1>13, <1>14, <1>16, <1>17, <1>18, <1>19, <1>20 DEF IInv

\* The other half of a teardown keeps the invariant: what was in flight has ended lost and
\* the ring is empty; commands that had ended are as they were.
LEMMA RestartStep ==
  ASSUME IInv, Restart, History
  PROVE  /\ IInv'
         /\ \A i \in Ids : log'[i] = log[i] \/ (log[i] = "PENDING" /\ log'[i] = "LOST")
<1> DEFINE D == Dist(next, head)
<1>0. /\ ~enable
      /\ slot' = [j \in 0 .. RingSize - 1 |->
                    IF j \in InFlight /\ slot[j].status = "PENDING"
                    THEN [slot[j] EXCEPT !.status = "LOST"] ELSE slot[j]]
      /\ tail' = next /\ head' = next /\ prev' = "PENDING" /\ halted' = "no" /\ first' = puts + 1
      /\ UNCHANGED <<base, cur, tile, low, opnd, out, faults, resets, next, puts, cals, upsets>>
  BY DEF Restart
<1>1. enable' \in BOOLEAN /\ svc' \in BOOLEAN
  BY Zenon DEF Restart
<1>2. /\ next \in Indices /\ head \in Indices /\ puts \in 0 .. MaxPuts
      /\ log \in [Ids -> Statuses] /\ slot \in [0 .. RingSize - 1 -> Slots]
      /\ D \in 0 .. RingSize /\ D <= puts
  BY DistFacts DEF IInv, TypeOK, ModuleTypeOK, SlotsInv
<1>3. \A j \in 0 .. RingSize - 1 :
        /\ slot'[j] \in Slots
        /\ slot'[j].cmd = slot[j].cmd
        /\ slot'[j] = slot[j] \/ (slot[j].status = "PENDING" /\ slot'[j].status = "LOST")
        /\ j \in InFlight /\ slot[j].status = "PENDING" => slot'[j].status = "LOST"
        /\ ~(j \in InFlight) => slot'[j] = slot[j]
  <2> SUFFICES ASSUME NEW j \in 0 .. RingSize - 1
               PROVE  /\ slot'[j] \in Slots
                      /\ slot'[j].cmd = slot[j].cmd
                      /\ slot'[j] = slot[j] \/ (slot[j].status = "PENDING" /\ slot'[j].status = "LOST")
                      /\ j \in InFlight /\ slot[j].status = "PENDING" => slot'[j].status = "LOST"
                      /\ ~(j \in InFlight) => slot'[j] = slot[j]
    OBVIOUS
  <2>1. slot[j] \in Slots
    BY <1>2
  <2>2. CASE j \in InFlight /\ slot[j].status = "PENDING"
    BY <1>0, <2>1, <2>2 DEF Slots, Statuses
  <2>3. CASE ~(j \in InFlight /\ slot[j].status = "PENDING")
    BY <1>0, <2>1, <2>3
  <2> QED BY <2>2, <2>3
<1>4. slot' \in [0 .. RingSize - 1 -> Slots]
  BY <1>0, <1>3
<1>5. Dist(next, next) = 0 /\ HeadId' = puts + 1
  BY <1>0, <1>2, DistFacts DEF HeadId
<1>6. ASSUME NEW n \in 1 .. RingSize
      PROVE  LET s == slot'[SlotAt(n)]
             IN  IF n > puts THEN s = ZeroSlot
                 ELSE s.cmd.id = puts + 1 - n /\ s.cmd.buf \in Addrs /\ s.status # "PENDING"
  <2>1. SlotAt(n) \in 0 .. RingSize - 1
    BY <1>2, SlotAtType DEF SlotAt
  <2>2. SlotAt(n) \in InFlight <=> n <= D
    <3>1. ASSUME NEW m \in 1 .. D, SlotAt(n) = SlotOf(Before(next, m)) PROVE n = m
      <4>1. m \in 1 .. RingSize
        BY <1>2
      <4> QED BY <1>2, <3>1, <4>1, SlotInjective DEF SlotAt
    <3>2. SlotAt(n) \in InFlight <=> \E m \in 1 .. D : SlotAt(n) = SlotOf(Before(next, m))
      BY <1>2, InFlightSlots
    <3>3. n <= D => n \in 1 .. D
      BY <1>2
    <3>4. n \in 1 .. D => n <= D
      BY <1>2
    <3> HIDE DEF D
    <3> QED BY <3>1, <3>2, <3>3, <3>4 DEF SlotAt
  <2>3. LET s == slot[SlotAt(n)]
        IN  IF n > puts THEN s = ZeroSlot
            ELSE /\ s.cmd.id = puts + 1 - n /\ s.cmd.buf \in Addrs
                 /\ s.status = "PENDING" <=> n <= D
    BY DEF IInv, SlotsInv
  <2>4. n > puts => ~(n <= D)
    BY <1>2
  <2> HIDE DEF D
  <2> QED BY <1>3, <2>1, <2>2, <2>3, <2>4
<1>7. SlotsInv'
  <2>1. \A n \in 1 .. RingSize : ~(n <= 0)
    OBVIOUS
  <2>2. base' = "ring" /\ 0 <= RingSize /\ 0 <= puts
    BY <1>0, <1>2 DEF IInv, SlotsInv
  <2>3. Dist(next', tail') = 0 /\ Dist(next', head') = 0 /\ puts' = puts /\ next' = next
    BY <1>0, <1>5
  <2>4. ASSUME NEW n \in 1 .. RingSize
        PROVE  LET s == slot'[SlotOf(Before(next', n))]
               IN  IF n > puts THEN s = ZeroSlot
                   ELSE /\ s.cmd.id = puts + 1 - n /\ s.cmd.buf \in Addrs
                        /\ s.status = "PENDING" <=> n <= 0
                        /\ s.status = "PENDING" => opnd'[s.cmd.buf] = s.cmd.id
    BY <1>6, <2>1, <2>3 DEF SlotAt
  <2> QED BY <2>2, <2>3, <2>4 DEF SlotsInv, SlotAt
<1>8. Holds(slot', next', puts')
  BY <1>0, <1>6 DEF Holds, SlotAt
<1>9. /\ log' \in [Ids -> Statuses]
      /\ \A n \in 1 .. RingSize : n <= puts => log'[puts + 1 - n] = slot'[SlotAt(n)].status
      /\ \A i \in Ids : i > puts \/ i + RingSize <= puts => log'[i] = log[i]
  BY <1>0, <1>2, <1>4, <1>8, LogNext DEF SlotAt
<1>10. LogInv'
  BY <1>0, <1>9 DEF IInv, LogInv, SlotAt
<1>11. ASSUME NEW i \in Ids PROVE log'[i] = log[i] \/ (log[i] = "PENDING" /\ log'[i] = "LOST")
  <2>1. CASE i > puts \/ i + RingSize <= puts
    BY <1>9, <2>1
  <2>2. CASE i <= puts /\ i + RingSize > puts
    <3>1. PICK n \in 1 .. RingSize : n <= puts /\ i = puts + 1 - n
      <4>1. puts + 1 - i \in 1 .. RingSize /\ puts + 1 - i <= puts /\ i = puts + 1 - (puts + 1 - i)
        BY <1>2, <2>2 DEF Ids
      <4> QED BY <4>1
    <3>2. log[i] = slot[SlotAt(n)].status /\ log'[i] = slot'[SlotAt(n)].status
      BY <1>9, <3>1 DEF IInv, LogInv
    <3>3. SlotAt(n) \in 0 .. RingSize - 1
      BY <1>2, SlotAtType DEF SlotAt
    <3> QED BY <1>3, <3>2, <3>3
  <2> QED BY <1>2, <2>1, <2>2 DEF Ids
<1>12. handed' = handed
  BY <1>0 DEF History
<1>13. HandedInv'
  <2>1. ~(cur.live /\ ~cur.orphan)
    BY <1>0 DEF IInv, CurInv
  <2> QED BY <1>0, <1>2, <1>5, <1>12, <2>1 DEF IInv, HandedInv, TypeOK
<1>14. PrevInv'
  BY <1>0, <1>2, <1>5 DEF PrevInv
<1>15. CurInv'
  BY <1>0 DEF IInv, CurInv
<1>16. DoneMeansResults'
  <2>1. \A j \in 0 .. RingSize - 1 : slot'[j].status = "DONE" => slot'[j] = slot[j]
    BY <1>3
  <2>2. DOMAIN slot = 0 .. RingSize - 1 /\ DOMAIN slot' = 0 .. RingSize - 1 /\ UNCHANGED <<opnd, out>>
    BY <1>0, <1>2, <1>4
  <2> QED BY <2>1, <2>2 DEF IInv, DoneMeansResults
<1>17. TypeOK'
  BY <1>0, <1>1, <1>2, <1>4, <1>9, <1>12 DEF IInv, TypeOK, ModuleTypeOK, Statuses
<1>18. TileHolds'
  BY <1>0 DEF IInv, TileHolds
<1> QED BY <1>7, <1>10, <1>11, <1>13, <1>14, <1>15, <1>16, <1>17, <1>18 DEF IInv

-----------------------------------------------------------------------------
(* The theorems. *)

LEMMA InitInv == Init => IInv
<1> SUFFICES ASSUME Init PROVE IInv
  OBVIOUS
<1>0. enable \in BOOLEAN /\ svc \in BOOLEAN
  BY Zenon DEF Init
<1>1. FirstIndex \in Indices /\ next = FirstIndex /\ head = FirstIndex /\ tail = FirstIndex
  BY FirstIndexAssumption DEF Init
<1>2. TypeOK
  <2>1. ModuleTypeOK
    BY <1>0, <1>1, ModuleConstTypes DEF Init, ModuleTypeOK, NoId, Statuses
  <2>2. log \in [Ids -> Statuses]
    BY DEF Init, Statuses
  <2> QED BY <1>1, <2>1, <2>2 DEF Init, TypeOK
<1>3. Dist(next, head) = 0 /\ Dist(next, tail) = 0 /\ HeadId = 1
  BY <1>1, DistFacts DEF HeadId, Init
<1>4. SlotsInv
  <2>1. \A n \in 1 .. RingSize : n > puts /\ slot[SlotAt(n)] = ZeroSlot
    BY <1>1, SlotAtType DEF Init, SlotAt
  <2> QED BY <1>3, <2>1 DEF Init, SlotsInv
<1>5. TileHolds /\ CurInv
  BY DEF Init, TileHolds, CurInv, NoInflight, IdleTile
<1>6. LogInv /\ HandedInv /\ PrevInv
  BY <1>3 DEF Init, LogInv, HandedInv, PrevInv, NoInflight
<1>7. DoneMeansResults
  BY DEF Init, DoneMeansResults, ZeroSlot
<1> QED BY <1>2, <1>4, <1>5, <1>6, <1>7 DEF IInv

\* What a step does to the log: nothing, or it ends the command at PTQ_HEAD, NOT RUN only if
\* the one before it was no success, or it ends lost what a teardown found in flight.
LogStep ==
  \/ log' = log
  \/ /\ HeadId \in Ids /\ log[HeadId] = "PENDING"
     /\ log'[HeadId] = "NOT_RUN" => prev \notin {"PENDING", "DONE"}
     /\ \A i \in Ids : i # HeadId => log'[i] = log[i]
  \/ \A i \in Ids : log'[i] = log[i] \/ (log[i] = "PENDING" /\ log'[i] = "LOST")

\* The tile is handed a command only by take(), the one at PTQ_HEAD, which it has not had,
\* and if that is to follow a success the one before it was none other.
HandOver ==
  cur'.live /\ ~cur.live =>
    /\ cur'.cmd.id = HeadId /\ handed < HeadId
    /\ cur'.cmd.after => prev \in {"PENDING", "DONE"}

\* Every step keeps the invariant, and does to the log and the tile no more than that.
LEMMA InductiveStep == IInv /\ [Next]_vars => IInv' /\ LogStep /\ HandOver
<1> SUFFICES ASSUME IInv, [Next]_vars PROVE IInv' /\ LogStep /\ HandOver
  OBVIOUS
<1>1. ASSUME UNCHANGED vars PROVE IInv' /\ LogStep /\ HandOver
  <2> USE <1>1 DEF vars, modVars, hostVars
  <2>1. TypeOK'
    BY DEF IInv, TypeOK, ModuleTypeOK
  <2>2. SlotsInv' /\ CurInv' /\ TileHolds'
    BY DEF IInv, SlotsInv, CurInv, TileHolds, SlotAt
  <2>3. LogInv' /\ HandedInv' /\ PrevInv'
    BY DEF IInv, LogInv, HandedInv, PrevInv, SlotAt, HeadId
  <2>4. DoneMeansResults'
    BY DEF IInv, DoneMeansResults
  <2>5. LogStep /\ HandOver
    BY DEF LogStep, HandOver
  <2> QED BY <2>1, <2>2, <2>3, <2>4, <2>5 DEF IInv
<1>2. ASSUME Next PROVE IInv' /\ LogStep
  <2>0. (Host \/ Module) /\ History
    BY <1>2 DEF Next
  <2>1. CASE \E k \in Kinds, after \in BOOLEAN : Put(k, after)
    BY <2>0, <2>1, PutStep DEF LogStep
  <2>2. CASE RingBell \/ Nonsense
    BY <2>0, <2>2, BellStep DEF LogStep
  <2>3. CASE Stop
    BY <2>0, <2>3, StopStep DEF LogStep
  <2>4. CASE Restart
    BY <2>0, <2>4, RestartStep DEF LogStep
  <2>5. CASE Calibrate
    BY <2>0, <2>5, CalibrateStep DEF LogStep
  <2>6. CASE FinishOrphan /\ UNCHANGED hostVars
    BY <2>0, <2>6, FinishOrphanStep DEF LogStep
  <2>7. CASE FinishDone /\ UNCHANGED hostVars
    BY <2>0, <2>7, FinishDoneStep DEF LogStep
  <2>8. CASE FinishFailed /\ UNCHANGED hostVars
    BY <2>0, <2>8, FinishFailedStep DEF LogStep
  <2>9. CASE TakeFault /\ UNCHANGED hostVars
    BY <2>0, <2>9, TakeFaultStep DEF LogStep
  <2>10. CASE TakeAndEnd /\ UNCHANGED hostVars
    BY <2>0, <2>10, TakeAndEndStep DEF LogStep
  <2>11. CASE TakeAndSubmit /\ UNCHANGED hostVars
    BY <2>0, <2>11, TakeAndSubmitStep DEF LogStep
  <2>12. CASE (ServiceEnd \/ Run \/ TileReset) /\ UNCHANGED hostVars
    BY <2>0, <2>12, TileStep DEF LogStep
  <2> QED BY <2>0, <2>1, <2>2, <2>3, <2>4, <2>5, <2>6, <2>7, <2>8, <2>9, <2>10, <2>11, <2>12
          DEF Host, Module, Service
<1>3. ASSUME Next PROVE HandOver
  <2>0. (Host \/ Module) /\ History
    BY <1>3 DEF Next
  <2>1. CASE TakeAndSubmit /\ UNCHANGED hostVars
    <3>1. cur'.cmd.id = HeadId /\ cur'.cmd = slot[SlotOf(head)].cmd
      BY <2>0, <2>1, TakeAndSubmitStep
    <3>2. ~cur.live /\ enable /\ halted = "no" /\ ~MustNotRun(slot[SlotOf(head)].cmd)
      BY <2>1 DEF TakeAndSubmit, TakeReady, LineAt, IInv, SlotsInv
    <3>3. handed < HeadId
      BY <3>2 DEF IInv, HandedInv
    <3> QED BY <3>1, <3>2, <3>3 DEF HandOver, MustNotRun
  <2>2. CASE Run \/ TileReset
    BY <2>2, TileEvent DEF HandOver, IInv, TypeOK
  <2>3. CASE FinishOrphan \/ FinishDone \/ FinishFailed
    BY <2>3 DEF FinishOrphan, FinishDone, FinishFailed, NoInflight, HandOver
  <2>4. CASE TakeFault \/ TakeAndEnd \/ ServiceEnd
    BY <2>4 DEF TakeFault, TakeAndEnd, ServiceEnd, HandOver
  <2>5. CASE \E k \in Kinds, after \in BOOLEAN : Put(k, after)
    BY <2>5 DEF Put, HandOver
  <2>6. CASE RingBell \/ Nonsense \/ Restart \/ Calibrate
    BY <2>6 DEF RingBell, Nonsense, WriteTail, Restart, Calibrate, CalNow, HandOver
  <2>7. CASE Stop
    BY <2>7 DEF Stop, DisableQueue, HandOver, IInv, TypeOK, ModuleTypeOK, Inflight
  <2> QED BY <2>0, <2>1, <2>2, <2>3, <2>4, <2>5, <2>6, <2>7 DEF Host, Module, Service
<1> QED BY <1>1, <1>2, <1>3

\* The invariant holds: in particular the last RingSize commands are in the ring in order,
\* whatever the indices wrap to, and the module has no command but the one at PTQ_HEAD.
THEOREM RingInvariance == Spec => []IInv
<1>1. Init => IInv
  BY InitInv
<1>2. IInv /\ [Next]_vars => IInv'
  BY InductiveStep
<1> QED BY <1>1, <1>2, PTL DEF Spec

\* C5, for every ring: no slot behind PTQ_HEAD is pending (record()).
THEOREM EndedBehindHead == Spec => []HeadSaysEnded
<1>1. IInv => HeadSaysEnded
  <2> SUFFICES ASSUME IInv, NEW j \in DOMAIN slot, j \notin InFlight, slot[j].cmd # NoCommand
               PROVE  slot[j].status # "PENDING"
    BY DEF HeadSaysEnded
  <2>1. /\ next \in Indices /\ head \in Indices /\ puts \in Nat /\ j \in 0 .. RingSize - 1
        /\ Dist(next, head) <= RingSize /\ Dist(next, head) \in 0 .. IndexMod - 1
    BY DistFacts DEF IInv, TypeOK, ModuleTypeOK, SlotsInv
  <2>2. PICK n \in 1 .. RingSize : j = SlotAt(n)
    BY <2>1, SlotSurjective DEF SlotAt
  <2>3. ~(n > puts)
    BY <2>2 DEF IInv, SlotsInv, ZeroSlot
  <2>4. ~(n <= Dist(next, head))
    <3> SUFFICES ASSUME n \in 1 .. Dist(next, head) PROVE FALSE
      BY <2>1
    <3> QED BY <2>1, <2>2, InFlightSlots DEF SlotAt
  <2> QED BY <2>2, <2>3, <2>4 DEF IInv, SlotsInv
<1> QED BY <1>1, RingInvariance, PTL

\* C1 and C2, for every ring: a slot that says DONE has its own results (finish()).
THEOREM ResultsBeforeDone == Spec => []DoneMeansResults
<1>1. IInv => DoneMeansResults
  BY DEF IInv
<1> QED BY <1>1, RingInvariance, PTL

\* No step changes how a command has ended.
THEOREM EndsOnlyOnce == Spec => StatusIsFinal
<1>1. IInv /\ [Next]_vars => [\A i \in Ids : log[i] # "PENDING" => log'[i] = log[i]]_vars
  BY InductiveStep DEF LogStep
<1> QED BY <1>1, RingInvariance, PTL DEF Spec, StatusIsFinal

\* The tile is handed each command at most once, in order (take()).
THEOREM HandedInOrder == Spec => RunsInOrder
<1>1. IInv /\ [Next]_vars => [cur'.live /\ ~cur.live => cur'.cmd.id > handed]_vars
  <2>1. IInv => HeadId \in Int /\ handed \in Int
    BY DistFacts DEF IInv, TypeOK, ModuleTypeOK, HeadId
  <2> QED BY <2>1, InductiveStep DEF HandOver
<1> QED BY <1>1, RingInvariance, PTL DEF Spec, RunsInOrder

\* Bit 16 of target is honoured both ways (take()).
THEOREM FollowsSuccess == Spec => AfterSuccess
<1>1. ASSUME IInv, [Next]_vars
      PROVE  /\ cur'.live /\ ~cur.live /\ cur'.cmd.after /\ cur'.cmd.id > first
                   => log[cur'.cmd.id - 1] = "DONE"
             /\ \A i \in Ids : log[i] # "NOT_RUN" /\ log'[i] = "NOT_RUN"
                  => i > first /\ log[i - 1] # "DONE"
  <2>0. LogStep /\ HandOver
    BY <1>1, InductiveStep
  <2>1. /\ HeadId \in Int /\ first \in Int /\ first <= HeadId
        /\ IF HeadId = first THEN prev = "PENDING" ELSE prev # "PENDING" /\ prev = log[HeadId - 1]
    BY <1>1, DistFacts DEF IInv, TypeOK, ModuleTypeOK, HeadId, PrevInv
  <2>2. cur'.live /\ ~cur.live /\ cur'.cmd.after /\ cur'.cmd.id > first => log[cur'.cmd.id - 1] = "DONE"
    BY <2>0, <2>1 DEF HandOver
  <2>3. ASSUME NEW i \in Ids, log[i] # "NOT_RUN", log'[i] = "NOT_RUN"
        PROVE  i > first /\ log[i - 1] # "DONE"
    <3>1. i = HeadId /\ prev \notin {"PENDING", "DONE"}
      BY <2>0, <2>3 DEF LogStep
    <3> QED BY <2>1, <3>1
  <2> QED BY <2>2, <2>3
<1>2. IInv /\ [Next]_vars =>
        [/\ cur'.live /\ ~cur.live /\ cur'.cmd.after /\ cur'.cmd.id > first
              => log[cur'.cmd.id - 1] = "DONE"
         /\ \A i \in Ids : log[i] # "NOT_RUN" /\ log'[i] = "NOT_RUN"
              => i > first /\ log[i - 1] # "DONE"]_vars
  BY <1>1
<1> QED BY <1>2, RingInvariance, PTL DEF Spec, AfterSuccess

=============================================================================

------------------------- MODULE DeviceMemoryProofs -------------------------
(***************************************************************************)
(* The allocator's safety under SafeUse, for any number of devices, any     *)
(* sizes and any sequence of calls: memory is neither lost nor given out    *)
(* twice, every address finds its owner, and every buffer has one.          *)
(***************************************************************************)
EXTENDS DeviceMemory, FiniteSetTheorems, WellFoundedInduction, TLAPS

USE DevicesAssumption, SizesAssumption

-----------------------------------------------------------------------------
(* The choices the allocator makes exist. *)

LEMMA LeastExists ==
  ASSUME NEW S, S \subseteq Nat, S # {}
  PROVE  \E m \in S : \A n \in S : m <= n
<1> DEFINE R == OpToRel(<, Nat)
<1>1. IsWellFoundedOn(R, Nat)
  BY NatLessThanWellFounded
<1>2. \A m, n \in Nat : <<m, n>> \in R <=> m < n
  BY DEF OpToRel
<1> HIDE DEF R
<1>3. PICK m \in S : \A n \in S : <<n, m>> \notin R
  BY <1>1, WFMin
<1>4. \A n \in S : ~(n < m)
  <2> SUFFICES ASSUME NEW n \in S PROVE ~(n < m)
    OBVIOUS
  <2>1. n \in Nat /\ m \in Nat
    OBVIOUS
  <2>2. <<n, m>> \in R <=> n < m
    BY <1>2, <2>1
  <2> QED BY <1>3, <2>2
<1> QED BY <1>4

\* alignment_for(): a request of some bytes takes some.
LEMMA AlignUpPositive ==
  ASSUME NEW v \in Nat \ {0}
  PROVE  AlignUp(v) \in Nat /\ AlignUp(v) > 0
<1> DEFINE q == (v + Align - 1) \div Align
<1>1. v + Align - 1 \in Nat /\ v + Align - 1 >= Align
  OBVIOUS
<1>2. q \in Nat /\ q >= 1
  BY <1>1
<1> HIDE DEF q
<1>3. q * Align \in Nat /\ q * Align > 0
  BY <1>2
<1> QED BY <1>3 DEF AlignUp, q

\* The driver gives one of the places there are.
LEMMA NewBaseInRoom ==
  ASSUME NEW d, NEW size, Room(d, size) # {}
  PROVE  NewBase(d, size) \in Room(d, size)
<1>1. Room(d, size) \subseteq Nat
  BY DEF Room, Addresses
<1>2. \E b \in Room(d, size) : \A c \in Room(d, size) : b <= c
  BY <1>1, LeastExists
<1> QED BY <1>2 DEF NewBase

\* take_best_fit() takes one of the extents that fit.
LEMMA BestFitFits ==
  ASSUME NEW C, C \subseteq Extents, C # {}
  PROVE  BestFit(C) \in C
<1> DEFINE sizes == {x.size : x \in C}
<1>1. sizes \subseteq Nat /\ sizes # {}
  BY DEF Extents
<1>2. PICK m \in sizes : \A n \in sizes : m <= n
  BY <1>1, LeastExists
<1> DEFINE D == {x \in C : x.size = m}
           ids == {x.slab : x \in D}
<1>3. ids \subseteq Nat /\ ids # {}
  BY <1>2 DEF Extents
<1>4. PICK i \in ids : \A n \in ids : i <= n
  BY <1>3, LeastExists
<1> DEFINE E == {x \in D : x.slab = i}
           bases == {x.base : x \in E}
<1>5. bases \subseteq Nat /\ bases # {}
  BY <1>4 DEF Extents, Addresses
<1>6. PICK b \in bases : \A n \in bases : b <= n
  BY <1>5, LeastExists
<1>7. PICK x \in E : x.base = b
  BY <1>6
<1>8. x \in C /\ x.size = m /\ x.slab = i
  BY <1>7
<1>9. ASSUME NEW y \in C
      PROVE  x.size < y.size \/ (x.size = y.size /\ (x.slab < y.slab \/ (x.slab = y.slab /\ x.base <= y.base)))
  <2>1. y.size \in Nat /\ y.slab \in Nat /\ m <= y.size /\ m \in Nat
    BY <1>1, <1>2 DEF Extents
  <2>2. CASE y.size # m
    BY <1>8, <2>1, <2>2
  <2>3. CASE y.size = m
    <3>1. y \in D /\ i <= y.slab /\ i \in Nat
      BY <1>3, <1>4, <2>3
    <3>2. CASE y.slab = i
      <4>1. b <= y.base
        BY <1>6, <3>1, <3>2
      <4> QED BY <1>7, <1>8, <2>3, <3>2, <4>1
    <3>3. CASE y.slab # i
      <4>1. i < y.slab
        BY <2>1, <3>1, <3>3
      <4> QED BY <1>8, <2>3, <4>1
    <3> QED BY <3>2, <3>3
  <2> QED BY <2>2, <2>3
<1> QED BY <1>8, <1>9 DEF BestFit

-----------------------------------------------------------------------------
(* insert_free(), as what it does to the pieces of a slab. *)

\* The extents of a free list that are well formed and apart, and joined where they touch.
ListOk(f) ==
  /\ f \subseteq Extents
  /\ \A x, y \in f : x # y /\ x.slab = y.slab => Separate(x, y)
  /\ \A x, y \in f : x.slab = y.slab => x.base + x.size # y.base

LEMMA ExtentType ==
  ASSUME NEW x \in Extents
  PROVE  x.base \in Nat /\ x.size \in Nat \ {0} /\ x.slab \in Nat \ {0} /\ x.base \in Addresses
         /\ x = [slab |-> x.slab, base |-> x.base, size |-> x.size]
  BY DEF Extents, Addresses

\* The extent it puts in place of the given one and of those that touch it.
LEMMA InsertShape ==
  ASSUME NEW f, ListOk(f), NEW base \in Addresses, NEW size \in Nat \ {0}, NEW slab \in Nat \ {0},
         \A x \in f : x.slab = slab => x.base + x.size <= base \/ base + size <= x.base
  PROVE  \E gone \in SUBSET f, z \in Extents :
           /\ InsertFree(f, base, size, slab) = (f \ gone) \cup {z}
           /\ z.slab = slab /\ z.base <= base /\ base + size <= z.base + z.size
           /\ \A x \in gone : x.slab = slab /\ Within(x, z)
           /\ \A x \in f \ gone : x.slab = slab => x.base + x.size < z.base \/ z.base + z.size < x.base
           /\ \A g \in Nat : In(z, g) => (base <= g /\ g < base + size) \/ \E x \in gone : In(x, g)
<1> DEFINE above == {x \in f : x.slab = slab /\ x.base >= base}
           below == {x \in f : x.slab = slab /\ x.base < base}
           next  == {x \in above : x.base = base + size /\ \A y \in above : x.base <= y.base}
           prev  == {x \in below : x.base + x.size = base /\ \A y \in below : y.base <= x.base}
           up    == IF next = {} THEN base + size
                    ELSE LET x == CHOOSE x \in next : TRUE IN x.base + x.size
           down  == IF prev = {} THEN base ELSE (CHOOSE x \in prev : TRUE).base
           rest  == {x \in f \ (next \cup prev) : x.slab # slab \/ x.base # down}
           z     == [slab |-> slab, base |-> down, size |-> up - down]
<1>0. InsertFree(f, base, size, slab) = rest \cup {z}
  BY DEF InsertFree
<1>1. base \in Nat /\ f \subseteq Extents
  BY DEF Addresses, ListOk
<1>2. \A x \in f : x.base \in Nat /\ x.size \in Nat \ {0} /\ x.base \in Addresses
  BY <1>1, ExtentType
<1>3. next = {x \in f : x.slab = slab /\ x.base = base + size}
  <2>1. ASSUME NEW x \in f, x.slab = slab, x.base = base + size, NEW y \in above
        PROVE  x.base <= y.base
    <3>1. y.base + y.size <= base \/ base + size <= y.base
      OBVIOUS
    <3> QED BY <1>1, <1>2, <2>1, <3>1
  <2>2. \A x \in f : x.base = base + size => x.base >= base
    BY <1>1
  <2> QED BY <2>1, <2>2
<1>4. prev = {x \in f : x.slab = slab /\ x.base + x.size = base}
  <2>1. ASSUME NEW x \in f, x.slab = slab, x.base + x.size = base, NEW y \in below
        PROVE  y.base <= x.base
    <3>1. CASE y = x
      BY <1>2, <3>1
    <3>2. CASE y # x
      <4>1. x.base + x.size <= y.base \/ y.base + y.size <= x.base
        BY <2>1, <3>2 DEF ListOk, Separate
      <4> QED BY <1>1, <1>2, <2>1, <4>1
    <3> QED BY <3>1, <3>2
  <2>2. \A x \in f : x.base + x.size = base => x.base < base
    BY <1>1, <1>2
  <2> QED BY <2>1, <2>2
<1> HIDE DEF next, prev
<1>5. \A x, y \in next : x = y
  BY <1>2, <1>3 DEF ListOk, Separate
<1>6. \A x, y \in prev : x = y
  BY <1>1, <1>2, <1>4 DEF ListOk, Separate
<1>7. /\ up \in Nat /\ base + size <= up
      /\ \A x \in next : up = x.base + x.size
      /\ next = {} => up = base + size
  <2>1. CASE next = {}
    BY <1>1, <2>1
  <2>2. CASE next # {}
    <3>1. PICK x \in next : x = CHOOSE w \in next : TRUE
      BY <2>2
    <3>2. up = x.base + x.size
      BY <2>2, <3>1
    <3>3. x \in f /\ x.base = base + size
      BY <1>3
    <3> QED BY <1>1, <1>2, <1>5, <2>2, <3>2, <3>3
  <2> QED BY <2>1, <2>2
<1>8. /\ down \in Addresses /\ down \in Nat /\ down <= base
      /\ \A x \in prev : down = x.base
      /\ prev = {} => down = base
  <2>1. CASE prev = {}
    BY <1>1, <2>1
  <2>2. CASE prev # {}
    <3>1. PICK x \in prev : x = CHOOSE w \in prev : TRUE
      BY <2>2
    <3>2. down = x.base
      BY <2>2, <3>1
    <3>3. x \in f /\ x.base + x.size = base
      BY <1>4
    <3> QED BY <1>1, <1>2, <1>6, <2>2, <3>2, <3>3
  <2> QED BY <2>1, <2>2
<1> HIDE DEF up, down
<1>9. rest = f \ (next \cup prev)
  <2> SUFFICES ASSUME NEW x \in f, x \notin next, x \notin prev, x.slab = slab PROVE x.base # down
    OBVIOUS
  <2>1. CASE prev = {}
    BY <1>1, <1>2, <1>8, <2>1
  <2>2. CASE prev # {}
    <3>1. PICK p \in prev : TRUE
      BY <2>2
    <3>2. p \in f /\ p.slab = slab /\ down = p.base /\ p # x
      BY <1>4, <1>8, <3>1
    <3>3. p.base + p.size <= x.base \/ x.base + x.size <= p.base
      BY <3>2 DEF ListOk, Separate
    <3> QED BY <1>2, <3>2, <3>3
  <2> QED BY <2>1, <2>2
<1> HIDE DEF rest
<1>10. z \in Extents /\ z.slab = slab /\ z.base = down /\ z.size = up - down
  BY <1>1, <1>7, <1>8 DEF Extents
<1> HIDE DEF z
<1>11. z.base + z.size = up
  BY <1>7, <1>8, <1>10
<1> DEFINE gone == next \cup prev
<1>12. gone \in SUBSET f
  BY <1>3, <1>4
<1>13. \A x \in gone : x.slab = slab /\ Within(x, z)
  <2>1. ASSUME NEW x \in next PROVE x.slab = slab /\ Within(x, z)
    <3>1. x \in f /\ x.slab = slab /\ x.base = base + size /\ up = x.base + x.size
      BY <1>3, <1>7
    <3> QED BY <1>1, <1>2, <1>8, <1>10, <1>11, <3>1 DEF Within
  <2>2. ASSUME NEW x \in prev PROVE x.slab = slab /\ Within(x, z)
    <3>1. x \in f /\ x.slab = slab /\ x.base + x.size = base /\ down = x.base
      BY <1>4, <1>8
    <3> QED BY <1>1, <1>2, <1>7, <1>10, <1>11, <3>1 DEF Within
  <2> QED BY <2>1, <2>2
<1>14. ASSUME NEW x \in f \ gone, x.slab = slab
       PROVE  x.base + x.size < z.base \/ z.base + z.size < x.base
  <2>1. x \in f /\ x.base # base + size /\ x.base + x.size # base
    BY <1>3, <1>4, <1>14
  <2>2. x.base + x.size < base \/ base + size < x.base
    BY <1>1, <1>2, <1>14, <2>1
  <2>3. CASE x.base + x.size < base
    <3>1. CASE prev = {}
      BY <1>8, <1>10, <2>3, <3>1
    <3>2. CASE prev # {}
      <4>1. PICK p \in prev : TRUE
        BY <3>2
      <4>2. p \in f /\ p.slab = slab /\ down = p.base /\ p # x /\ p.base + p.size = base
        BY <1>4, <1>8, <4>1, <1>14
      <4>3. p.base + p.size <= x.base \/ x.base + x.size <= p.base
        BY <2>1, <1>14, <4>2 DEF ListOk, Separate
      <4>4. x.base + x.size # p.base
        BY <2>1, <1>14, <4>2 DEF ListOk
      <4> QED BY <1>1, <1>2, <1>10, <2>1, <2>3, <4>2, <4>3, <4>4
    <3> QED BY <3>1, <3>2
  <2>4. CASE base + size < x.base
    <3>1. CASE next = {}
      BY <1>7, <1>11, <2>4, <3>1
    <3>2. CASE next # {}
      <4>1. PICK p \in next : TRUE
        BY <3>2
      <4>2. p \in f /\ p.slab = slab /\ up = p.base + p.size /\ p # x /\ p.base = base + size
        BY <1>3, <1>7, <4>1, <1>14
      <4>3. p.base + p.size <= x.base \/ x.base + x.size <= p.base
        BY <2>1, <1>14, <4>2 DEF ListOk, Separate
      <4>4. p.base + p.size # x.base
        BY <2>1, <1>14, <4>2 DEF ListOk
      <4> QED BY <1>1, <1>2, <1>11, <2>1, <2>4, <4>2, <4>3, <4>4
    <3> QED BY <3>1, <3>2
  <2> QED BY <2>2, <2>3, <2>4
<1>15. ASSUME NEW g \in Nat, In(z, g)
       PROVE  (base <= g /\ g < base + size) \/ \E x \in gone : In(x, g)
  <2>1. down <= g /\ g < up
    BY <1>10, <1>11, <1>15 DEF In
  <2>2. CASE g < base
    <3>1. PICK p \in prev : TRUE
      BY <1>8, <2>1, <2>2, <1>1
    <3>2. down = p.base /\ p.base + p.size = base
      BY <1>4, <1>8, <3>1
    <3> QED BY <2>1, <2>2, <3>1, <3>2 DEF In
  <2>3. CASE base + size <= g
    <3>1. PICK p \in next : TRUE
      BY <1>7, <2>1, <2>3, <1>1
    <3>2. up = p.base + p.size /\ p.base = base + size
      BY <1>3, <1>7, <3>1
    <3> QED BY <2>1, <2>3, <3>1, <3>2 DEF In
  <2> QED BY <1>1, <2>2, <2>3
<1>16. InsertFree(f, base, size, slab) = (f \ gone) \cup {z}
  BY <1>0, <1>9
<1>17. z.base <= base /\ base + size <= z.base + z.size
  BY <1>7, <1>8, <1>10, <1>11
<1> HIDE DEF gone
<1> QED BY <1>10, <1>12, <1>13, <1>14, <1>15, <1>16, <1>17

\* What insert_free() leaves: a list as well formed, that has just the grains it had and the
\* ones given back, and so stays clear of whatever both were clear of.
Inserted(f, F, base, size, slab) ==
  /\ ListOk(F)
  /\ \A x \in F : x.slab # slab => x \in f
  /\ \A j : \A g \in Nat : (\E x \in F : x.slab = j /\ In(x, g)) <=>
       ((\E x \in f : x.slab = j /\ In(x, g)) \/ (j = slab /\ base <= g /\ g < base + size))
  /\ \A b \in Nat, n \in Nat \ {0} :
       (/\ b + n <= base \/ base + size <= b
        /\ \A x \in f : x.slab = slab => b + n <= x.base \/ x.base + x.size <= b)
       => \A x \in F : x.slab = slab => b + n <= x.base \/ x.base + x.size <= b
  /\ \A lo, hi \in Nat :
       (/\ lo <= base /\ base + size <= hi
        /\ \A x \in f : x.slab = slab => lo <= x.base /\ x.base + x.size <= hi)
       => \A x \in F : x.slab = slab => lo <= x.base /\ x.base + x.size <= hi

LEMMA InsertKeeps ==
  ASSUME NEW f, ListOk(f), NEW base \in Addresses, NEW size \in Nat \ {0}, NEW slab \in Nat \ {0},
         \A x \in f : x.slab = slab => x.base + x.size <= base \/ base + size <= x.base,
         NEW F, F = InsertFree(f, base, size, slab)
  PROVE  Inserted(f, F, base, size, slab)
<1>1. PICK gone \in SUBSET f, z \in Extents :
        /\ F = (f \ gone) \cup {z}
        /\ z.slab = slab /\ z.base <= base /\ base + size <= z.base + z.size
        /\ \A x \in gone : x.slab = slab /\ Within(x, z)
        /\ \A x \in f \ gone : x.slab = slab => x.base + x.size < z.base \/ z.base + z.size < x.base
        /\ \A g \in Nat : In(z, g) => (base <= g /\ g < base + size) \/ \E x \in gone : In(x, g)
  BY SMTT(60), InsertShape
<1>2. base \in Nat /\ f \subseteq Extents
  BY DEF Addresses, ListOk
<1>3. /\ \A x \in f : x.base \in Nat /\ x.size \in Nat \ {0}
      /\ z.base \in Nat /\ z.size \in Nat \ {0}
  BY <1>2, ExtentType
<1>4. ListOk(F)
  <2>1. F \subseteq Extents
    BY <1>1, <1>2
  <2>2. ASSUME NEW x \in F, NEW y \in F, x.slab = y.slab
        PROVE  (x # y => Separate(x, y)) /\ x.base + x.size # y.base
    <3>1. CASE x \in f /\ y \in f
      BY <2>2, <3>1 DEF ListOk
    <3>2. CASE x = z /\ y = z
      BY <1>3, <3>2
    <3>3. CASE x = z /\ y \in f \ gone
      BY <1>1, <1>3, <2>2, <3>3 DEF Separate
    <3>4. CASE y = z /\ x \in f \ gone
      BY <1>1, <1>3, <2>2, <3>4 DEF Separate
    <3> QED BY <1>1, <2>2, <3>1, <3>2, <3>3, <3>4
  <2> QED BY <2>1, <2>2 DEF ListOk
<1>5. \A x \in F : x.slab # slab => x \in f
  BY <1>1
<1>6. ASSUME NEW g \in Nat, NEW j
      PROVE  (\E x \in F : x.slab = j /\ In(x, g)) <=>
               ((\E x \in f : x.slab = j /\ In(x, g)) \/ (j = slab /\ base <= g /\ g < base + size))
  <2>1. ASSUME NEW x \in F, x.slab = j, In(x, g)
        PROVE  (\E y \in f : y.slab = j /\ In(y, g)) \/ (j = slab /\ base <= g /\ g < base + size)
    <3>1. CASE x \in f
      BY <2>1, <3>1
    <3>2. CASE x = z
      BY <1>1, <2>1, <3>2
    <3> QED BY <1>1, <2>1, <3>1, <3>2
  <2>2. ASSUME NEW x \in f, x.slab = j, In(x, g) PROVE \E y \in F : y.slab = j /\ In(y, g)
    <3>1. CASE x \in gone
      <4>1. Within(x, z) /\ z.slab = j /\ z \in F
        BY <1>1, <2>2, <3>1
      <4>2. In(z, g)
        BY <1>3, <2>2, <4>1 DEF Within, In
      <4> QED BY <4>1, <4>2
    <3>2. CASE x \notin gone
      BY <1>1, <2>2, <3>2
    <3> QED BY <3>1, <3>2
  <2>3. ASSUME j = slab, base <= g, g < base + size PROVE \E y \in F : y.slab = j /\ In(y, g)
    <3>1. In(z, g) /\ z \in F
      BY <1>1, <1>2, <1>3, <2>3 DEF In
    <3> QED BY <1>1, <2>3, <3>1
  <2> QED BY <2>1, <2>2, <2>3
<1>7. ASSUME NEW b \in Nat, NEW n \in Nat \ {0}, b + n <= base \/ base + size <= b,
             \A x \in f : x.slab = slab => b + n <= x.base \/ x.base + x.size <= b
      PROVE  \A x \in F : x.slab = slab => b + n <= x.base \/ x.base + x.size <= b
  <2>1. ASSUME b < z.base + z.size, z.base < b + n PROVE FALSE
    <3>1. \E g \in Nat : g >= b /\ g < b + n /\ z.base <= g /\ g < z.base + z.size
      <4>1. CASE b <= z.base
        BY <1>3, <2>1, <4>1
      <4>2. CASE z.base <= b
        BY <1>3, <2>1, <4>2
      <4> QED BY <1>3, <4>1, <4>2
    <3>2. PICK g \in Nat : g >= b /\ g < b + n /\ z.base <= g /\ g < z.base + z.size
      BY <3>1
    <3>3. (base <= g /\ g < base + size) \/ \E x \in gone : In(x, g)
      BY <1>1, <3>2 DEF In
    <3>4. CASE base <= g /\ g < base + size
      BY <1>2, <1>7, <3>2, <3>4
    <3>5. CASE \E x \in gone : In(x, g)
      <4>1. PICK x \in gone : In(x, g)
        BY <3>5
      <4>2. x \in f /\ x.slab = slab
        BY <1>1
      <4>3. b + n <= x.base \/ x.base + x.size <= b
        BY <1>7, <4>2
      <4> QED BY <1>3, <3>2, <4>1, <4>2, <4>3 DEF In
    <3> QED BY <3>3, <3>4, <3>5
  <2>2. b + n <= z.base \/ z.base + z.size <= b
    BY <1>3, <2>1
  <2> QED BY <1>1, <1>7, <2>2
<1>8. ASSUME NEW lo \in Nat, NEW hi \in Nat, lo <= base, base + size <= hi,
             \A x \in f : x.slab = slab => lo <= x.base /\ x.base + x.size <= hi
      PROVE  \A x \in F : x.slab = slab => lo <= x.base /\ x.base + x.size <= hi
  <2>1. ASSUME NEW g \in Nat, In(z, g) PROVE lo <= g /\ g < hi
    <3>1. CASE base <= g /\ g < base + size
      BY <1>2, <1>8, <3>1
    <3>2. CASE \E x \in gone : In(x, g)
      <4>1. PICK x \in gone : In(x, g)
        BY <3>2
      <4>2. x \in f /\ lo <= x.base /\ x.base + x.size <= hi
        BY <1>1, <1>8
      <4> QED BY <1>3, <4>1, <4>2 DEF In
    <3> QED BY <1>1, <2>1, <3>1, <3>2
  <2>2. In(z, z.base) /\ In(z, z.base + z.size - 1) /\ z.base + z.size - 1 \in Nat
    BY <1>3 DEF In
  <2>3. lo <= z.base /\ z.base + z.size - 1 < hi
    BY <1>3, <2>1, <2>2
  <2>4. lo <= z.base /\ z.base + z.size <= hi
    BY <1>3, <2>3
  <2> QED BY <1>1, <1>8, <2>4
<1> QED BY <1>4, <1>5, <1>6, <1>7, <1>8 DEF Inserted

-----------------------------------------------------------------------------
(* A free list, slabs and allocations that fit together. *)

Sound(sl, f, lv) ==
  /\ ListOk(f)
  /\ \A x \in f : x.slab \in DOMAIN sl /\ Within(x, sl[x.slab])
  /\ \A a \in lv : ~a.direct => /\ a.slab \in DOMAIN sl /\ Within(a, sl[a.slab])
                                /\ \A x \in f : x.slab = a.slab => Separate(a, x)
  /\ \A i \in DOMAIN sl, g \in Addresses : In(sl[i], g) =>
       \/ \E x \in f : x.slab = i /\ In(x, g)
       \/ \E a \in lv : ~a.direct /\ a.slab = i /\ In(a, g)

LiveOk(sl, lv) ==
  /\ \A a \in lv :
       /\ a.size > 0 /\ a.base > 0 /\ a.base % Align = 0
       /\ a.direct => a.device \in Gpus /\ a.buffer = <<a.device, a.base>> /\ a.offset = 0
       /\ ~a.direct => /\ a.device = sl[a.slab].device /\ a.buffer = sl[a.slab].buffer
                       /\ a.offset = a.base - sl[a.slab].base
  /\ \A a, b \in lv : a # b /\ a.device = b.device => Separate(a, b)
  /\ \A a \in lv, i \in DOMAIN sl : a.direct /\ a.device = sl[i].device => Separate(a, sl[i])

SlabsOk(sl) ==
  /\ sl \in Seq(Slabs)
  /\ \A i \in DOMAIN sl :
       /\ sl[i].base > 0 /\ sl[i].size > 0 /\ sl[i].base + sl[i].size \in Addresses
       /\ \/ sl[i].device \in Npus /\ sl[i] = Window(sl[i].device)
          \/ sl[i].device \in Gpus /\ ~sl[i].npu /\ sl[i].buffer = <<sl[i].device, sl[i].base>>
  /\ \A i, j \in DOMAIN sl : i # j /\ sl[i].device = sl[j].device => Separate(sl[i], sl[j])

LEMMA InvParts ==
  ASSUME IInv
  PROVE  /\ TypeOK /\ SlabsOk(slabs) /\ Sound(slabs, free, live) /\ LiveOk(slabs, live)
         /\ HeldInv /\ BuffersOwned
<1> USE DEF IInv
<1>1. SlabsOk(slabs)
  BY DEF SlabsInv, TypeOK, SlabsOk
<1>2. Sound(slabs, free, live)
  BY DEF FreeInv, LiveInv, CoverInv, Coalesced, TypeOK, Sound, ListOk
<1>3. LiveOk(slabs, live)
  BY DEF LiveInv, TypeOK, LiveOk
<1> QED BY <1>1, <1>2, <1>3

LEMMA AllocationType ==
  ASSUME NEW a \in Allocations
  PROVE  a.base \in Nat /\ a.size \in Nat /\ a.base \in Addresses /\ a.device \in Devices
         /\ a.slab \in Nat /\ a.direct \in BOOLEAN /\ a.offset \in Int /\ a.buffer \in Buffers
  BY DEF Allocations, Addresses

LEMMA SlabType ==
  ASSUME NEW sl, sl \in Seq(Slabs), NEW i \in DOMAIN sl
  PROVE  /\ i \in Nat \ {0} /\ sl[i] \in Slabs /\ sl[i].base \in Nat /\ sl[i].size \in Nat
         /\ sl[i].base \in Addresses /\ sl[i].device \in Devices
<1>1. i \in 1 .. Len(sl) /\ sl[i] \in Slabs
  OBVIOUS
<1> QED BY <1>1 DEF Slabs, Addresses

\* grxFree() of a slice: what it gives back was clear of every extent and every other slice.
LEMMA GiveBack ==
  ASSUME NEW sl, SlabsOk(sl), NEW f, NEW lv, lv \subseteq Allocations, Sound(sl, f, lv), LiveOk(sl, lv),
         NEW a \in lv, ~a.direct, NEW F, F = InsertFree(f, a.base, a.size, a.slab)
  PROVE  Sound(sl, F, lv \ {a})
<1>1. /\ a.base \in Addresses /\ a.base \in Nat /\ a.size \in Nat \ {0} /\ a.slab \in DOMAIN sl
      /\ Within(a, sl[a.slab]) /\ a.slab \in Nat \ {0}
      /\ sl[a.slab].base \in Nat /\ sl[a.slab].size \in Nat
  BY AllocationType, SlabType DEF Sound, LiveOk, SlabsOk
<1>2. ListOk(f) /\ \A x \in f : x.slab = a.slab => x.base + x.size <= a.base \/ a.base + a.size <= x.base
  BY DEF Sound, Separate
<1>3. Inserted(f, F, a.base, a.size, a.slab)
  BY <1>1, <1>2, InsertKeeps
<1>4. ASSUME NEW x \in F PROVE x.slab \in DOMAIN sl /\ Within(x, sl[x.slab])
  <2>1. CASE x.slab # a.slab
    BY <1>3, <2>1 DEF Inserted, Sound
  <2>2. CASE x.slab = a.slab
    <3> DEFINE lo == sl[a.slab].base
               hi == sl[a.slab].base + sl[a.slab].size
    <3>1. lo \in Nat /\ hi \in Nat /\ lo <= a.base /\ a.base + a.size <= hi
      BY <1>1 DEF Within
    <3>2. \A y \in f : y.slab = a.slab => lo <= y.base /\ y.base + y.size <= hi
      BY DEF Sound, Within
    <3>3. lo <= x.base /\ x.base + x.size <= hi
      <4> HIDE DEF lo, hi
      <4> QED BY <1>3, <1>4, <2>2, <3>1, <3>2 DEF Inserted
    <3> QED BY <1>1, <2>2, <3>3 DEF Within
  <2> QED BY <2>1, <2>2
<1>5. ASSUME NEW b \in lv \ {a}, ~b.direct
      PROVE  /\ b.slab \in DOMAIN sl /\ Within(b, sl[b.slab])
             /\ \A x \in F : x.slab = b.slab => Separate(b, x)
  <2>1. /\ b.slab \in DOMAIN sl /\ Within(b, sl[b.slab])
        /\ \A x \in f : x.slab = b.slab => Separate(b, x)
        /\ b.base \in Nat /\ b.size \in Nat \ {0}
    BY <1>5, AllocationType DEF Sound, LiveOk
  <2>2. ASSUME NEW x \in F, x.slab = b.slab PROVE Separate(b, x)
    <3>1. CASE b.slab # a.slab
      BY <1>3, <2>1, <2>2, <3>1 DEF Inserted
    <3>2. CASE b.slab = a.slab
      <4>1. a.device = b.device
        BY <1>5, <3>2 DEF LiveOk
      <4>2. b.base + b.size <= a.base \/ a.base + a.size <= b.base
        BY <1>5, <4>1 DEF LiveOk, Separate
      <4>3. \A y \in f : y.slab = a.slab => b.base + b.size <= y.base \/ y.base + y.size <= b.base
        BY <2>1, <3>2 DEF Separate
      <4>4. b.base + b.size <= x.base \/ x.base + x.size <= b.base
        BY <1>3, <2>1, <2>2, <3>2, <4>2, <4>3 DEF Inserted
      <4> QED BY <4>4 DEF Separate
    <3> QED BY <3>1, <3>2
  <2> QED BY <2>1, <2>2
<1>6. ASSUME NEW i \in DOMAIN sl, NEW g \in Addresses, In(sl[i], g)
      PROVE  \/ \E x \in F : x.slab = i /\ In(x, g)
             \/ \E b \in lv \ {a} : ~b.direct /\ b.slab = i /\ In(b, g)
  <2>1. g \in Nat
    BY DEF Addresses
  <2>2. CASE \E x \in f : x.slab = i /\ In(x, g)
    BY <1>3, <2>1, <2>2 DEF Inserted
  <2>3. CASE \E b \in lv : ~b.direct /\ b.slab = i /\ In(b, g)
    <3>1. PICK b \in lv : ~b.direct /\ b.slab = i /\ In(b, g)
      BY <2>3
    <3>2. CASE b = a
      <4>1. i = a.slab /\ a.base <= g /\ g < a.base + a.size
        BY <3>1, <3>2 DEF In
      <4> QED BY <1>3, <2>1, <4>1 DEF Inserted
    <3>3. CASE b # a
      BY <3>1, <3>3
    <3> QED BY <3>2, <3>3
  <2> QED BY <1>6, <2>2, <2>3 DEF Sound
<1> QED BY <1>3, <1>4, <1>5, <1>6 DEF Inserted, Sound

\* add_slab() and ensure_npu_window(): the new slab is one free extent.
LEMMA Grow ==
  ASSUME NEW sl, SlabsOk(sl), NEW f, NEW lv, Sound(sl, f, lv), NEW s \in Slabs, s.size > 0,
         NEW F, F = InsertFree(f, s.base, s.size, Len(sl) + 1)
  PROVE  Sound(Append(sl, s), F, lv)
<1> DEFINE n == Len(sl) + 1
           S == Append(sl, s)
<1>1. sl \in Seq(Slabs) /\ n \in Nat \ {0} /\ DOMAIN sl = 1 .. n - 1 /\ n \notin DOMAIN sl
  BY DEF SlabsOk
<1>2. S \in Seq(Slabs) /\ DOMAIN S = DOMAIN sl \cup {n} /\ S[n] = s /\ \A i \in DOMAIN sl : S[i] = sl[i]
  BY <1>1
<1>3. s.base \in Addresses /\ s.base \in Nat /\ s.size \in Nat \ {0}
  BY DEF Slabs, Addresses
<1> HIDE DEF n, S
<1>4. ListOk(f) /\ \A x \in f : x.slab # n
  BY <1>1 DEF Sound
<1>5. F = InsertFree(f, s.base, s.size, n)
  BY DEF n
<1>6. Inserted(f, F, s.base, s.size, n)
  BY <1>1, <1>3, <1>4, <1>5, InsertKeeps
<1>7. ASSUME NEW x \in F PROVE x.slab \in DOMAIN S /\ Within(x, S[x.slab])
  <2>1. CASE x.slab # n
    BY <1>2, <1>6, <2>1 DEF Inserted, Sound
  <2>2. CASE x.slab = n
    <3>1. s.base + s.size \in Nat /\ s.base <= s.base /\ s.base + s.size <= s.base + s.size
      BY <1>3
    <3>2. s.base <= x.base /\ x.base + x.size <= s.base + s.size
      BY <1>3, <1>4, <1>6, <2>2, <3>1 DEF Inserted
    <3> QED BY <1>2, <2>2, <3>2 DEF Within
  <2> QED BY <2>1, <2>2
<1>8. ASSUME NEW b \in lv, ~b.direct
      PROVE  /\ b.slab \in DOMAIN S /\ Within(b, S[b.slab])
             /\ \A x \in F : x.slab = b.slab => Separate(b, x)
  BY <1>1, <1>2, <1>6, <1>8 DEF Inserted, Sound
<1>9. ASSUME NEW i \in DOMAIN S, NEW g \in Addresses, In(S[i], g)
      PROVE  \/ \E x \in F : x.slab = i /\ In(x, g)
             \/ \E b \in lv : ~b.direct /\ b.slab = i /\ In(b, g)
  <2>1. g \in Nat
    BY DEF Addresses
  <2>2. CASE i = n
    BY <1>2, <1>6, <1>9, <2>1, <2>2 DEF Inserted, In
  <2>3. CASE i \in DOMAIN sl
    <3>1. (\E x \in f : x.slab = i /\ In(x, g)) \/ (\E b \in lv : ~b.direct /\ b.slab = i /\ In(b, g))
      BY <1>2, <1>9, <2>3 DEF Sound
    <3> QED BY <1>6, <2>1, <3>1 DEF Inserted
  <2> QED BY <1>2, <1>9, <2>2, <2>3
<1>10. Sound(S, F, lv)
  BY <1>6, <1>7, <1>8, <1>9 DEF Inserted, Sound
<1> QED BY <1>10 DEF S

\* take_best_fit(): the front of an extent is taken and the rest goes back.
Carved(sl, f, F, x, need) ==
  /\ ListOk(F)
  /\ \A y \in F : y.slab \in DOMAIN sl /\ Within(y, sl[y.slab]) /\ (y.slab # x.slab => y \in f)
  /\ \A b \in Nat, n \in Nat \ {0} :
       (\/ \A y \in f : y.slab = x.slab => b + n <= y.base \/ y.base + y.size <= b
        \/ b = x.base /\ n = need)
       => \A y \in F : y.slab = x.slab => b + n <= y.base \/ y.base + y.size <= b
  /\ \A j : \A g \in Nat : (\E y \in f : y.slab = j /\ In(y, g)) =>
       ((\E y \in F : y.slab = j /\ In(y, g)) \/ (j = x.slab /\ x.base <= g /\ g < x.base + need))

LEMMA CarveFront ==
  ASSUME NEW sl, SlabsOk(sl), NEW f, NEW lv, Sound(sl, f, lv), NEW x \in f, NEW need \in Nat \ {0},
         need <= x.size, NEW F, F = Carve(f, x, need)
  PROVE  Carved(sl, f, F, x, need)
<1>0. f \subseteq Extents /\ ListOk(f)
  BY DEF Sound, ListOk
<1>1. /\ \A y \in f : y.base \in Nat /\ y.size \in Nat \ {0}
      /\ x.base \in Nat /\ x.size \in Nat \ {0} /\ x.slab \in Nat \ {0}
  BY <1>0, ExtentType
<1>2. ListOk(f \ {x})
  BY <1>0 DEF ListOk
<1>3. \A y \in f \ {x} : y.slab = x.slab => y.base + y.size <= x.base \/ x.base + x.size <= y.base
  BY <1>0 DEF ListOk, Separate
<1>4. x.slab \in DOMAIN sl /\ Within(x, sl[x.slab]) /\ sl[x.slab].base \in Nat /\ sl[x.slab].size \in Nat
      /\ sl[x.slab].base + sl[x.slab].size \in Addresses
  BY SlabType DEF Sound, SlabsOk
<1>5. CASE ~(x.size > need)
  <2>1. F = f \ {x} /\ x.size = need
    BY <1>1, <1>5 DEF Carve
  <2>2. \A y \in F : y.slab \in DOMAIN sl /\ Within(y, sl[y.slab]) /\ y \in f
    BY <2>1 DEF Sound
  <2>3. ASSUME NEW y \in F, y.slab = x.slab, NEW b \in Nat, NEW n \in Nat \ {0},
               \/ \A w \in f : w.slab = x.slab => b + n <= w.base \/ w.base + w.size <= b
               \/ b = x.base /\ n = need
        PROVE  b + n <= y.base \/ y.base + y.size <= b
    BY <1>3, <2>1, <2>3
  <2>4. ASSUME NEW j, NEW g \in Nat, NEW y \in f, y.slab = j, In(y, g)
        PROVE  (\E w \in F : w.slab = j /\ In(w, g)) \/ (j = x.slab /\ x.base <= g /\ g < x.base + need)
    <3>1. CASE y = x
      BY <2>1, <2>4, <3>1 DEF In
    <3>2. CASE y # x
      BY <2>1, <2>4, <3>2
    <3> QED BY <3>1, <3>2
  <2> QED BY <1>2, <2>1, <2>2, <2>3, <2>4 DEF Carved
<1>6. CASE x.size > need
  <2> DEFINE base == x.base + need
             size == x.size - need
  <2>0. F = InsertFree(f \ {x}, base, size, x.slab)
    BY <1>6 DEF Carve
  <2>1. base \in Nat /\ size \in Nat \ {0} /\ base + size = x.base + x.size /\ base = x.base + need
    BY <1>1, <1>6
  <2> HIDE DEF base, size
  <2>2. base \in Addresses
    BY <1>1, <1>4, <2>1 DEF Within, Addresses
  <2>3. \A y \in f \ {x} : y.slab = x.slab => y.base + y.size <= base \/ base + size <= y.base
    BY <1>1, <1>3, <2>1
  <2>4. Inserted(f \ {x}, F, base, size, x.slab)
    BY <1>1, <1>2, <2>0, <2>1, <2>2, <2>3, InsertKeeps
  <2>5. ASSUME NEW y \in F
        PROVE  y.slab \in DOMAIN sl /\ Within(y, sl[y.slab]) /\ (y.slab # x.slab => y \in f)
    <3>1. CASE y.slab # x.slab
      BY <2>4, <3>1 DEF Inserted, Sound
    <3>2. CASE y.slab = x.slab
      <4> DEFINE lo == sl[x.slab].base
                 hi == sl[x.slab].base + sl[x.slab].size
      <4>1. lo \in Nat /\ hi \in Nat /\ lo <= base /\ base + size <= hi
        BY <1>1, <1>4, <2>1 DEF Within
      <4>2. \A w \in f \ {x} : w.slab = x.slab => lo <= w.base /\ w.base + w.size <= hi
        BY DEF Sound, Within
      <4>3. lo <= y.base /\ y.base + y.size <= hi
        <5> HIDE DEF lo, hi
        <5> QED BY <2>4, <2>5, <3>2, <4>1, <4>2 DEF Inserted
      <4> QED BY <1>4, <3>2, <4>3 DEF Within
    <3> QED BY <3>1, <3>2
  <2>6. ASSUME NEW y \in F, y.slab = x.slab, NEW b \in Nat, NEW n \in Nat \ {0},
               \/ \A w \in f : w.slab = x.slab => b + n <= w.base \/ w.base + w.size <= b
               \/ b = x.base /\ n = need
        PROVE  b + n <= y.base \/ y.base + y.size <= b
    <3>1. b + n <= base \/ base + size <= b
      BY <1>1, <2>1, <2>6
    <3>2. \A w \in f \ {x} : w.slab = x.slab => b + n <= w.base \/ w.base + w.size <= b
      BY <1>1, <1>3, <2>6
    <3> QED BY <2>4, <2>6, <3>1, <3>2 DEF Inserted
  <2>7. ASSUME NEW j, NEW g \in Nat, NEW y \in f, y.slab = j, In(y, g)
        PROVE  (\E w \in F : w.slab = j /\ In(w, g)) \/ (j = x.slab /\ x.base <= g /\ g < x.base + need)
    <3>1. CASE y = x
      <4>1. (x.base <= g /\ g < x.base + need) \/ (base <= g /\ g < base + size)
        BY <1>1, <2>1, <2>7, <3>1 DEF In
      <4> QED BY <2>4, <2>7, <3>1, <4>1 DEF Inserted
    <3>2. CASE y # x
      BY <2>4, <2>7, <3>2 DEF Inserted
    <3> QED BY <3>1, <3>2
  <2>8. ListOk(F)
    BY <2>4 DEF Inserted
  <2> QED BY <2>5, <2>6, <2>7, <2>8 DEF Carved
<1> QED BY <1>5, <1>6

LEMMA TakeSound ==
  ASSUME NEW sl, SlabsOk(sl), NEW f, NEW lv, lv \subseteq Allocations, Sound(sl, f, lv), LiveOk(sl, lv),
         NEW x \in f, NEW need \in Nat \ {0}, need <= x.size,
         NEW F, F = Carve(f, x, need),
         NEW a, ~a.direct, a.base = x.base, a.size = need, a.slab = x.slab
  PROVE  Sound(sl, F, lv \cup {a})
<1>1. Carved(sl, f, F, x, need)
  BY CarveFront
<1>2. f \subseteq Extents /\ x.base \in Nat /\ x.size \in Nat
  BY ExtentType DEF Sound, ListOk
<1>3. ASSUME NEW b \in lv \cup {a}, ~b.direct
      PROVE  /\ b.slab \in DOMAIN sl /\ Within(b, sl[b.slab])
             /\ \A y \in F : y.slab = b.slab => Separate(b, y)
  <2>1. CASE b = a
    <3>1. x.slab \in DOMAIN sl /\ Within(x, sl[x.slab]) /\ sl[x.slab].base \in Nat /\ sl[x.slab].size \in Nat
      BY SlabType DEF Sound, SlabsOk
    <3>2. a.slab \in DOMAIN sl /\ Within(a, sl[a.slab])
      BY <1>2, <3>1 DEF Within
    <3>3. \A y \in F : y.slab = a.slab => a.base + a.size <= y.base \/ y.base + y.size <= a.base
      BY <1>1, <1>2 DEF Carved
    <3> QED BY <2>1, <3>2, <3>3 DEF Separate
  <2>2. CASE b \in lv
    <3>1. /\ b.slab \in DOMAIN sl /\ Within(b, sl[b.slab]) /\ b.base \in Nat /\ b.size \in Nat \ {0}
          /\ \A y \in f : y.slab = b.slab => b.base + b.size <= y.base \/ y.base + y.size <= b.base
      BY <1>3, <2>2, AllocationType DEF Sound, LiveOk, Separate
    <3>2. ASSUME NEW y \in F, y.slab = b.slab PROVE b.base + b.size <= y.base \/ y.base + y.size <= b.base
      <4>1. CASE b.slab = x.slab
        BY <1>1, <3>1, <3>2, <4>1 DEF Carved
      <4>2. CASE b.slab # x.slab
        BY <1>1, <3>1, <3>2, <4>2 DEF Carved
      <4> QED BY <4>1, <4>2
    <3> QED BY <3>1, <3>2 DEF Separate
  <2> QED BY <1>3, <2>1, <2>2
<1>4. ASSUME NEW i \in DOMAIN sl, NEW g \in Addresses, In(sl[i], g)
      PROVE  \/ \E y \in F : y.slab = i /\ In(y, g)
             \/ \E b \in lv \cup {a} : ~b.direct /\ b.slab = i /\ In(b, g)
  <2>1. g \in Nat
    BY DEF Addresses
  <2>2. (\E y \in f : y.slab = i /\ In(y, g)) \/ (\E b \in lv : ~b.direct /\ b.slab = i /\ In(b, g))
    BY <1>4 DEF Sound
  <2>3. CASE \E y \in f : y.slab = i /\ In(y, g)
    <3>1. (\E y \in F : y.slab = i /\ In(y, g)) \/ (i = x.slab /\ x.base <= g /\ g < x.base + need)
      BY <1>1, <2>1, <2>3 DEF Carved
    <3>2. CASE i = x.slab /\ x.base <= g /\ g < x.base + need
      <4>1. a.slab = i /\ In(a, g)
        BY <3>2 DEF In
      <4> QED BY <4>1
    <3> QED BY <3>1, <3>2
  <2> QED BY <2>2, <2>3
<1> QED BY <1>1, <1>3, <1>4 DEF Carved, Sound

-----------------------------------------------------------------------------
(* The state. *)

\* A slice of an extent of a device's slab is clear of all else on the device.
LEMMA TakeLive ==
  ASSUME NEW sl, SlabsOk(sl), NEW f, NEW lv, lv \subseteq Allocations, Sound(sl, f, lv), LiveOk(sl, lv),
         NEW x \in f, NEW need \in Nat \ {0}, need <= x.size, x.base % Align = 0,
         NEW a \in Allocations, ~a.direct, a.base = x.base, a.size = need, a.slab = x.slab,
         a.device = sl[x.slab].device, a.buffer = sl[x.slab].buffer, a.offset = x.base - sl[x.slab].base
  PROVE  LiveOk(sl, lv \cup {a}) /\ \A b \in lv : b.device = a.device => Separate(a, b)
<1>1. /\ x.slab \in DOMAIN sl /\ Within(x, sl[x.slab]) /\ x.base \in Nat /\ x.size \in Nat \ {0}
      /\ sl[x.slab].base \in Nat /\ sl[x.slab].size \in Nat /\ sl[x.slab].base > 0
  BY ExtentType, SlabType DEF Sound, ListOk, SlabsOk
<1>2. Within(a, x) /\ a.base > 0 /\ Within(a, sl[a.slab])
  BY <1>1 DEF Within
<1>3. ASSUME NEW b \in lv, b.device = a.device PROVE Separate(a, b)
  <2>1. b.base \in Nat /\ b.size \in Nat
    BY AllocationType
  <2>2. CASE b.direct
    <3>1. Separate(b, sl[x.slab])
      BY <1>1, <1>3, <2>2 DEF LiveOk
    <3> QED BY <1>1, <1>2, <2>1, <3>1 DEF Separate, Within
  <2>3. CASE ~b.direct /\ b.slab = x.slab
    <3>1. Separate(b, x)
      BY <2>3 DEF Sound
    <3> QED BY <1>1, <1>2, <2>1, <3>1 DEF Separate, Within
  <2>4. CASE ~b.direct /\ b.slab # x.slab
    <3>1. /\ b.slab \in DOMAIN sl /\ Within(b, sl[b.slab]) /\ sl[b.slab].device = sl[x.slab].device
          /\ sl[b.slab].base \in Nat /\ sl[b.slab].size \in Nat
      BY <1>3, <2>4, SlabType DEF Sound, LiveOk, SlabsOk
    <3>2. Separate(sl[b.slab], sl[x.slab])
      BY <1>1, <2>4, <3>1 DEF SlabsOk
    <3> QED BY <1>1, <1>2, <2>1, <3>1, <3>2 DEF Separate, Within
  <2> QED BY <2>2, <2>3, <2>4
<1>4. ASSUME NEW b \in lv, b.device = a.device PROVE Separate(b, a)
  BY <1>3, <1>4 DEF Separate
<1> QED BY <1>1, <1>2, <1>3, <1>4 DEF LiveOk

\* The map's key is free: another allocation with it would share a grain.
LEMMA RegisterAdds ==
  ASSUME NEW a, a.base \in Nat, a.size \in Nat \ {0}, live \subseteq Allocations,
         \A b \in live : b.size > 0, \A b \in live : b.device = a.device => Separate(a, b)
  PROVE  Register(a) = live \cup {a} /\ \A b \in live : b.device # a.device \/ b.base # a.base
<1>1. ASSUME NEW b \in live PROVE b.device # a.device \/ b.base # a.base
  <2>1. b.base \in Nat /\ b.size \in Nat \ {0}
    BY AllocationType
  <2> QED BY <2>1 DEF Separate
<1> QED BY <1>1 DEF Register

\* The program has the new pointer, and had none to the place.
LEMMA HandedOut ==
  ASSUME TypeOK, HeldInv, NEW a \in Allocations, live' = live \cup {a}, HandOut(a.device, a.base),
         \A b \in live : b.device # a.device \/ b.base # a.base
  PROVE  HeldInv' /\ held' \in [Devices -> [Addresses -> Nat]]
<1>1. a.device \in Devices /\ a.base \in Addresses
  BY AllocationType
<1>2. held \in [Devices -> [Addresses -> Nat]]
  BY DEF TypeOK
<1>3. held[a.device][a.base] = 0
  BY <1>1 DEF HeldInv
<1>4. /\ held' \in [Devices -> [Addresses -> Nat]] /\ held'[a.device][a.base] = 1
      /\ \A d \in Devices, g \in Addresses : d # a.device \/ g # a.base => held'[d][g] = held[d][g]
  BY <1>1, <1>2, <1>3 DEF HandOut
<1>5. ASSUME NEW d \in Devices, NEW g \in Addresses
      PROVE  held'[d][g] = IF \E b \in live' : b.device = d /\ b.base = g THEN 1 ELSE 0
  <2>1. CASE d = a.device /\ g = a.base
    <3>1. \E b \in live' : b.device = d /\ b.base = g
      BY <2>1
    <3> QED BY <1>4, <2>1, <3>1
  <2>2. CASE d # a.device \/ g # a.base
    <3>1. (\E b \in live' : b.device = d /\ b.base = g) <=> (\E b \in live : b.device = d /\ b.base = g)
      BY <2>2
    <3> QED BY <1>4, <2>2, <3>1 DEF HeldInv
  <2> QED BY <2>1, <2>2
<1> QED BY <1>4, <1>5 DEF HeldInv

\* take_best_fit() and the registration of what it took.
LEMMA TakeStep ==
  ASSUME TypeOK, HeldInv, NEW sl, SlabsOk(sl), NEW f, Sound(sl, f, live), LiveOk(sl, live),
         NEW d \in Devices, NEW need \in Nat \ {0}, NEW junk, Fits(sl, f, d, need, junk) # {},
         Take(d, need, sl, f, junk)
  PROVE  /\ Sound(sl, free', live') /\ LiveOk(sl, live') /\ live' \subseteq Allocations
         /\ HeldInv' /\ held' \in [Devices -> [Addresses -> Nat]]
         /\ {b \in live' : b.direct} = {b \in live : b.direct}
<1> DEFINE x == BestFit(Fits(sl, f, d, need, junk))
           s == SlabAt(sl, x.slab, junk)
           a == [device |-> d, base |-> x.base, size |-> need, offset |-> x.base - s.base,
                 buffer |-> s.buffer, direct |-> FALSE, slab |-> x.slab]
<1>1. x \in Fits(sl, f, d, need, junk)
  <2>1. Fits(sl, f, d, need, junk) \subseteq Extents
    BY DEF Fits, Sound, ListOk
  <2> QED BY <2>1, BestFitFits
<1>2. free' = Carve(f, x, need) /\ live' = Register(a) /\ HandOut(d, x.base)
  BY DEF Take
<1> HIDE DEF x
<1>3. x \in f /\ x.slab \in DOMAIN sl /\ s = sl[x.slab]
  BY <1>1 DEF Fits, Sound, SlabAt
<1>4. x.size >= need /\ x.base % Align = 0 /\ sl[x.slab].device = d
  BY <1>1, <1>3 DEF Fits
<1>5. x.base \in Nat /\ x.base \in Addresses /\ x.size \in Nat /\ x.slab \in Nat
      /\ s.base \in Nat /\ s.buffer \in Buffers
  <2>1. x \in Extents
    BY <1>3 DEF Sound, ListOk
  <2>2. s \in Slabs
    BY <1>3, SlabType DEF SlabsOk
  <2> QED BY <2>1, <2>2, ExtentType DEF Slabs, Addresses
<1> HIDE DEF s
<1>6. /\ a \in Allocations
      /\ ~a.direct /\ a.base = x.base /\ a.size = need /\ a.slab = x.slab /\ a.device = d
      /\ a.buffer = s.buffer /\ a.offset = x.base - s.base
  BY <1>5 DEF Allocations
<1> HIDE DEF a
<1>7. live \subseteq Allocations /\ \A b \in live : b.size > 0
  BY DEF TypeOK, LiveOk
<1>8. LiveOk(sl, live \cup {a}) /\ \A b \in live : b.device = a.device => Separate(a, b)
  BY <1>3, <1>4, <1>5, <1>6, <1>7, TakeLive
<1>9. live' = live \cup {a} /\ \A b \in live : b.device # a.device \/ b.base # a.base
  BY <1>2, <1>5, <1>6, <1>7, <1>8, RegisterAdds
<1>10. Sound(sl, free', live \cup {a})
  BY <1>2, <1>3, <1>4, <1>5, <1>6, <1>7, TakeSound
<1>11. HeldInv' /\ held' \in [Devices -> [Addresses -> Nat]]
  BY <1>2, <1>6, <1>9, HandedOut
<1> QED BY <1>6, <1>7, <1>8, <1>9, <1>10, <1>11

LEMMA Assemble ==
  ASSUME TypeOK', SlabsOk(slabs'), Sound(slabs', free', live'), LiveOk(slabs', live'), HeldInv',
         BuffersOwned'
  PROVE  IInv'
<1>1. SlabsInv'
  BY DEF SlabsInv, SlabsOk
<1>2. FreeInv' /\ Coalesced'
  BY DEF FreeInv, Coalesced, Sound, ListOk
<1>3. LiveInv'
  BY DEF LiveInv, Sound, LiveOk
<1>4. CoverInv'
  BY DEF CoverInv, Sound
<1> QED BY <1>1, <1>2, <1>3, <1>4 DEF IInv

\* Types, from the parts.
LEMMA AssembleTypes ==
  ASSUME SlabsOk(slabs'), Sound(slabs', free', live'), LiveOk(slabs', live'), live' \subseteq Allocations,
         buffers' \subseteq Devices \X Addresses, held' \in [Devices -> [Addresses -> Nat]]
  PROVE  TypeOK'
  BY DEF TypeOK, SlabsOk, Sound, ListOk, LiveOk

LEMMA IsBuffer == \A d, b : <<d, b>> # NoBuffer
  BY DEF NoBuffer

LEMMA PairEqual == \A d, b, e, c : <<d, b>> = <<e, c>> => d = e /\ b = c
  OBVIOUS

\* A slab of a GPU, from what its buffer says.
LEMMA GpuSlab ==
  ASSUME NEW sl, SlabsOk(sl), NEW i \in DOMAIN sl
  PROVE  /\ sl[i].device \in Gpus => sl[i].buffer = <<sl[i].device, sl[i].base>> /\ ~sl[i].npu
         /\ sl[i].device \in Npus => sl[i].buffer = NoBuffer /\ sl[i].npu = TRUE
         /\ sl[i].buffer # NoBuffer => sl[i].device \in Gpus
<1>1. \/ sl[i].device \in Npus /\ sl[i] = Window(sl[i].device)
      \/ sl[i].device \in Gpus /\ ~sl[i].npu /\ sl[i].buffer = <<sl[i].device, sl[i].base>>
  BY DEF SlabsOk
<1>2. \A d : Window(d).buffer = NoBuffer /\ Window(d).npu = TRUE
  BY DEF Window
<1>3. sl[i].device \in Npus => sl[i].device \notin Gpus
  OBVIOUS
<1> QED BY <1>1, <1>2, <1>3

\* What the driver finds room for is clear of every slab and every allocation of the device.
LEMMA RoomIsClear ==
  ASSUME IInv, NEW d \in Gpus, NEW size \in Nat \ {0}, NEW b \in Room(d, size)
  PROVE  /\ b \in Nat \ {0} /\ b \in Addresses /\ b + size \in Addresses /\ b % Align = 0
         /\ \A i \in DOMAIN slabs : slabs[i].device = d =>
              b + size <= slabs[i].base \/ slabs[i].base + slabs[i].size <= b
         /\ \A a \in live : a.device = d => b + size <= a.base \/ a.base + a.size <= b
         /\ <<d, b>> \notin buffers
<1>0. /\ TypeOK /\ SlabsOk(slabs) /\ Sound(slabs, free, live) /\ LiveOk(slabs, live) /\ BuffersOwned
  BY InvParts
<1>1. /\ b \in Addresses \ {0} /\ b % Align = 0 /\ b + size <= AddrEnd
      /\ \A o \in buffers : o[1] = d => b + size <= o[2] \/ o[2] + BufferSize(o) <= b
  BY DEF Room
<1>2. b \in Nat \ {0} /\ b + size \in Addresses
  BY <1>1 DEF Addresses
<1>3. ASSUME NEW i \in DOMAIN slabs, slabs[i].device = d
      PROVE  /\ slabs[i].buffer \in buffers
             /\ b + size <= slabs[i].base \/ slabs[i].base + slabs[i].size <= b
  <2> DEFINE o == <<d, slabs[i].base>>
  <2>1. slabs[i].buffer = o /\ o # NoBuffer
    BY <1>0, <1>3, GpuSlab, IsBuffer
  <2>2. o \in buffers /\ o[1] = d /\ o[2] = slabs[i].base
    BY <1>0, <2>1 DEF BuffersOwned
  <2>3. ASSUME NEW j \in DOMAIN slabs, slabs[j].buffer = o PROVE j = i
    <3>1. slabs[j].device \in Gpus
      BY <1>0, <2>1, <2>3, GpuSlab
    <3>2. slabs[j].device = d /\ slabs[j].base = slabs[i].base
      <4>1. slabs[j].buffer = <<slabs[j].device, slabs[j].base>>
        BY <1>0, <3>1, GpuSlab
      <4>2. <<slabs[j].device, slabs[j].base>> = <<d, slabs[i].base>>
        BY <2>3, <4>1
      <4> QED BY <4>2, PairEqual
    <3>3. /\ slabs[i].base \in Nat /\ slabs[i].size \in Nat \ {0}
          /\ slabs[j].base \in Nat /\ slabs[j].size \in Nat \ {0}
      BY <1>0, SlabType DEF SlabsOk
    <3> QED BY <1>0, <1>3, <3>2, <3>3 DEF SlabsOk, Separate
  <2> HIDE DEF o
  <2>4. BufferSize(o) = slabs[i].size
    <3> DEFINE S == {j \in DOMAIN slabs : slabs[j].buffer = o}
    <3>1. S = {i}
      BY <2>1, <2>3
    <3>2. (CHOOSE j \in S : TRUE) = i
      BY <3>1
    <3>3. BufferSize(o) = slabs[CHOOSE j \in S : TRUE].size
      BY <3>1 DEF BufferSize
    <3> QED BY <3>2, <3>3
  <2> QED BY <1>1, <2>1, <2>2, <2>4
<1>4. ASSUME NEW a \in live, a.direct, a.device = d
      PROVE  b + size <= a.base \/ a.base + a.size <= b
  <2> DEFINE o == <<d, a.base>>
  <2>1. a.buffer = o
    BY <1>0, <1>4 DEF LiveOk
  <2>2. o \in buffers /\ o[1] = d /\ o[2] = a.base /\ \A i \in DOMAIN slabs : slabs[i].buffer # o
    BY <1>0, <1>4, <2>1, IsBuffer DEF BuffersOwned
  <2>3. ASSUME NEW c \in live, c.direct, c.buffer = o PROVE c = a
    <3>1. c.device = d /\ c.base = a.base
      BY <1>0, <2>3 DEF LiveOk
    <3>2. a.base \in Nat /\ a.size \in Nat \ {0} /\ c.size \in Nat \ {0}
      BY <1>0, AllocationType DEF TypeOK, LiveOk
    <3> QED BY <1>0, <1>4, <3>1, <3>2 DEF LiveOk, Separate
  <2> HIDE DEF o
  <2>4. BufferSize(o) = a.size
    <3>1. {j \in DOMAIN slabs : slabs[j].buffer = o} = {}
      BY <2>2
    <3>2. (CHOOSE c \in live : c.direct /\ c.buffer = o) = a
      BY <1>4, <2>1, <2>3
    <3> QED BY <3>1, <3>2 DEF BufferSize
  <2> QED BY <1>1, <2>2, <2>4
<1>5. ASSUME NEW a \in live, ~a.direct, a.device = d
      PROVE  b + size <= a.base \/ a.base + a.size <= b
  <2>1. a.slab \in DOMAIN slabs /\ Within(a, slabs[a.slab]) /\ slabs[a.slab].device = d
    BY <1>0, <1>5 DEF Sound, LiveOk
  <2>2. b + size <= slabs[a.slab].base \/ slabs[a.slab].base + slabs[a.slab].size <= b
    BY <1>3, <2>1
  <2>3. slabs[a.slab].base \in Nat /\ slabs[a.slab].size \in Nat /\ a.base \in Nat /\ a.size \in Nat
    BY <1>0, <2>1, SlabType, AllocationType DEF SlabsOk, TypeOK
  <2> QED BY <1>2, <2>1, <2>2, <2>3 DEF Within
<1>6. <<d, b>> \notin buffers
  <2> SUFFICES ASSUME <<d, b>> \in buffers PROVE FALSE
    OBVIOUS
  <2>1. CASE \E i \in DOMAIN slabs : slabs[i].buffer = <<d, b>>
    <3>1. PICK i \in DOMAIN slabs : slabs[i].buffer = <<d, b>>
      BY <2>1
    <3>2. slabs[i].device \in Gpus
      BY <1>0, <3>1, GpuSlab, IsBuffer
    <3>3. slabs[i].device = d /\ slabs[i].base = b
      <4>1. slabs[i].buffer = <<slabs[i].device, slabs[i].base>>
        BY <1>0, <3>2, GpuSlab
      <4>2. <<slabs[i].device, slabs[i].base>> = <<d, b>>
        BY <3>1, <4>1
      <4> QED BY <4>2, PairEqual
    <3>4. slabs[i].size \in Nat \ {0}
      BY <1>0, SlabType DEF SlabsOk
    <3> QED BY <1>2, <1>3, <3>3, <3>4
  <2>2. CASE \E a \in live : a.direct /\ a.buffer = <<d, b>>
    <3>1. PICK a \in live : a.direct /\ a.buffer = <<d, b>>
      BY <2>2
    <3>2. a.device = d /\ a.base = b
      BY <1>0, <3>1 DEF LiveOk
    <3>3. a.size \in Nat \ {0}
      BY <1>0, AllocationType DEF TypeOK, LiveOk
    <3> QED BY <1>2, <1>4, <3>1, <3>2, <3>3
  <2> QED BY <1>0, <2>1, <2>2 DEF BuffersOwned
<1> QED BY <1>1, <1>2, <1>3, <1>4, <1>5, <1>6

-----------------------------------------------------------------------------
(* The steps. *)

Appended(sl, s, lv, S) ==
  /\ SlabsOk(S) /\ LiveOk(S, lv)
  /\ {S[i].buffer : i \in DOMAIN S} = {sl[i].buffer : i \in DOMAIN sl} \cup {s.buffer}

\* A slab put after the others, clear of them and of the direct allocations.
LEMMA AppendSlab ==
  ASSUME NEW sl, SlabsOk(sl), NEW f, NEW lv, Sound(sl, f, lv), LiveOk(sl, lv),
         NEW s \in Slabs, s.base > 0, s.size > 0, s.base + s.size \in Addresses,
         \/ s.device \in Npus /\ s = Window(s.device)
         \/ s.device \in Gpus /\ ~s.npu /\ s.buffer = <<s.device, s.base>>,
         \A i \in DOMAIN sl : sl[i].device = s.device => Separate(sl[i], s),
         \A a \in lv : a.direct /\ a.device = s.device => Separate(a, s)
  PROVE  Appended(sl, s, lv, Append(sl, s))
<1> DEFINE n == Len(sl) + 1
           S == Append(sl, s)
<1>1. sl \in Seq(Slabs) /\ n \notin DOMAIN sl
  BY DEF SlabsOk
<1>2. S \in Seq(Slabs) /\ DOMAIN S = DOMAIN sl \cup {n} /\ S[n] = s /\ \A i \in DOMAIN sl : S[i] = sl[i]
  BY <1>1
<1> HIDE DEF n, S
<1>3. ASSUME NEW i \in DOMAIN S
      PROVE  /\ S[i].base > 0 /\ S[i].size > 0 /\ S[i].base + S[i].size \in Addresses
             /\ \/ S[i].device \in Npus /\ S[i] = Window(S[i].device)
                \/ S[i].device \in Gpus /\ ~S[i].npu /\ S[i].buffer = <<S[i].device, S[i].base>>
  <2>1. CASE i = n
    BY <1>2, <2>1
  <2>2. CASE i \in DOMAIN sl
    BY <1>2, <2>2 DEF SlabsOk
  <2> QED BY <1>2, <2>1, <2>2
<1>4. ASSUME NEW i \in DOMAIN S, NEW j \in DOMAIN S, i # j, S[i].device = S[j].device
      PROVE  Separate(S[i], S[j])
  <2>1. CASE i = n
    BY <1>2, <1>4, <2>1 DEF Separate
  <2>2. CASE j = n
    BY <1>2, <1>4, <2>2
  <2>3. CASE i \in DOMAIN sl /\ j \in DOMAIN sl
    BY <1>2, <1>4, <2>3 DEF SlabsOk
  <2> QED BY <1>2, <2>1, <2>2, <2>3
<1>5. SlabsOk(S)
  BY <1>2, <1>3, <1>4 DEF SlabsOk
<1>6. \A a \in lv : ~a.direct => a.slab \in DOMAIN sl
  BY DEF Sound
<1>7. LiveOk(S, lv)
  BY <1>2, <1>6 DEF LiveOk
<1>8. {S[i].buffer : i \in DOMAIN S} = {sl[i].buffer : i \in DOMAIN sl} \cup {s.buffer}
  BY <1>2
<1> QED BY <1>5, <1>7, <1>8 DEF S, Appended

\* BuffersOwned, of given slabs, direct allocations and buffers.
Owned(ofSlabs, direct, bufs) ==
  LET own == {a.buffer : a \in direct}
  IN  (ofSlabs \ {NoBuffer}) \cap own = {} /\ bufs = (ofSlabs \ {NoBuffer}) \cup own

LEMMA OwnedIs ==
  ASSUME NEW ofSlabs, NEW direct
  PROVE  /\ BuffersOwned <=> Owned({slabs[i].buffer : i \in DOMAIN slabs}, {a \in live : a.direct}, buffers)
         /\ (ofSlabs = {slabs'[i].buffer : i \in DOMAIN slabs'} /\ direct = {a \in live' : a.direct})
              => (BuffersOwned' <=> Owned(ofSlabs, direct, buffers'))
  BY DEF BuffersOwned, Owned

LEMMA SliceStep ==
  ASSUME IInv, NEW d \in Devices, NEW need \in Nat \ {0}, NEW junk, Slice(d, need, junk)
  PROVE  IInv'
<1>1. /\ TypeOK /\ SlabsOk(slabs) /\ Sound(slabs, free, live) /\ LiveOk(slabs, live)
      /\ HeldInv /\ BuffersOwned
  BY InvParts
<1>2. Fits(slabs, free, d, need, junk) # {} /\ Take(d, need, slabs, free, junk)
      /\ slabs' = slabs /\ buffers' = buffers
  BY DEF Slice
<1>3. /\ Sound(slabs, free', live') /\ LiveOk(slabs, live') /\ live' \subseteq Allocations
      /\ HeldInv' /\ held' \in [Devices -> [Addresses -> Nat]]
      /\ {b \in live' : b.direct} = {b \in live : b.direct}
  BY <1>1, <1>2, TakeStep
<1>4. BuffersOwned'
  BY <1>1, <1>2, <1>3, OwnedIs
<1>5. SlabsOk(slabs') /\ Sound(slabs', free', live') /\ LiveOk(slabs', live')
  BY <1>1, <1>2, <1>3
<1>6. TypeOK'
  BY <1>1, <1>2, <1>3, <1>5, AssembleTypes DEF TypeOK
<1> QED BY <1>3, <1>4, <1>5, <1>6, Assemble

\* The first extent of a slab is put as it is.
LEMMA InsertAlone ==
  ASSUME NEW f, NEW base \in Nat, NEW size \in Nat, NEW slab, \A x \in f : x.slab # slab
  PROVE  [slab |-> slab, base |-> base, size |-> size] \in InsertFree(f, base, size, slab)
<1>1. {x \in f : x.slab = slab /\ x.base >= base} = {} /\ {x \in f : x.slab = slab /\ x.base < base} = {}
  OBVIOUS
<1>2. base + size - base = size
  OBVIOUS
<1> QED BY <1>1, <1>2 DEF InsertFree

LEMMA SliceOfNewSlabStep ==
  ASSUME IInv, NEW d \in Gpus, NEW need \in Nat \ {0}, need <= SlabSize, NEW junk, SliceOfNewSlab(d, need, junk)
  PROVE  IInv'
<1>1. /\ TypeOK /\ SlabsOk(slabs) /\ Sound(slabs, free, live) /\ LiveOk(slabs, live)
      /\ HeldInv /\ BuffersOwned
  BY InvParts
<1> DEFINE base == NewBase(d, SlabSize)
           s  == [buffer |-> <<d, base>>, base |-> base, size |-> SlabSize, device |-> d, npu |-> FALSE]
           sl == Append(slabs, s)
           f  == InsertFree(free, base, SlabSize, Len(sl))
<1>2. Room(d, SlabSize) # {} /\ slabs' = sl /\ buffers' = buffers \cup {<<d, base>>}
      /\ Take(d, need, sl, f, junk)
  BY DEF SliceOfNewSlab
<1>3. base \in Room(d, SlabSize) /\ SlabSize \in Nat \ {0}
  BY <1>2, NewBaseInRoom
<1> HIDE DEF base
<1>4. /\ base \in Nat \ {0} /\ base \in Addresses /\ base + SlabSize \in Addresses /\ base % Align = 0
      /\ \A i \in DOMAIN slabs : slabs[i].device = d =>
           base + SlabSize <= slabs[i].base \/ slabs[i].base + slabs[i].size <= base
      /\ \A a \in live : a.device = d => base + SlabSize <= a.base \/ a.base + a.size <= base
      /\ <<d, base>> \notin buffers
  BY <1>3, RoomIsClear
<1>5. s \in Slabs /\ s.base = base /\ s.size = SlabSize /\ s.device = d /\ s.npu = FALSE /\ s.buffer = <<d, base>>
  <2>1. <<d, base>> \in Buffers /\ d \in Devices
    BY <1>4 DEF Buffers, Devices
  <2> QED BY <1>3, <1>4, <2>1 DEF Slabs
<1>6. Len(sl) = Len(slabs) + 1 /\ Len(slabs) + 1 \in DOMAIN sl /\ sl[Len(slabs) + 1] = s
  BY <1>1, <1>5 DEF SlabsOk
<1> HIDE DEF s
<1>7. /\ \A i \in DOMAIN slabs : slabs[i].device = s.device => Separate(slabs[i], s)
      /\ \A a \in live : a.direct /\ a.device = s.device => Separate(a, s)
  BY <1>4, <1>5 DEF Separate
<1>8. /\ SlabsOk(sl) /\ LiveOk(sl, live)
      /\ {sl[i].buffer : i \in DOMAIN sl} = {slabs[i].buffer : i \in DOMAIN slabs} \cup {s.buffer}
  <2>1. /\ s.base > 0 /\ s.size > 0 /\ s.base + s.size \in Addresses
        /\ s.device \in Gpus /\ ~s.npu /\ s.buffer = <<s.device, s.base>>
    BY <1>3, <1>4, <1>5
  <2>2. s \in Slabs
    BY <1>5
  <2>3. Appended(slabs, s, live, sl)
    BY <1>1, <1>7, <2>1, <2>2, AppendSlab
  <2> HIDE DEF sl
  <2> QED BY <2>3 DEF Appended
<1>9. f = InsertFree(free, s.base, s.size, Len(slabs) + 1)
  BY <1>5, <1>6
<1> HIDE DEF f
<1>10. Sound(sl, f, live)
  BY <1>1, <1>3, <1>5, <1>9, Grow
<1> HIDE DEF sl
<1>11. Fits(sl, f, d, need, junk) # {}
  <2> DEFINE n == Len(slabs) + 1
             x == [slab |-> n, base |-> base, size |-> SlabSize]
  <2>1. slabs \in Seq(Slabs) /\ n \notin DOMAIN slabs /\ n \in Nat
    BY <1>1 DEF SlabsOk
  <2>2. \A y \in free : y.slab # n
    BY <1>1, <2>1 DEF Sound
  <2> HIDE DEF n
  <2>3. x \in f
    <3>1. f = InsertFree(free, base, SlabSize, n)
      BY <1>5, <1>9 DEF n
    <3> QED BY <1>3, <1>4, <2>2, <3>1, InsertAlone
  <2>4. x.slab = n /\ x.base = base /\ x.size = SlabSize
    OBVIOUS
  <2> HIDE DEF x
  <2>5. SlabAt(sl, x.slab, junk).device = d
    BY <1>5, <1>6, <2>4 DEF SlabAt, n
  <2> QED BY <1>4, <2>3, <2>4, <2>5 DEF Fits
<1>12. /\ Sound(sl, free', live') /\ LiveOk(sl, live') /\ live' \subseteq Allocations
       /\ HeldInv' /\ held' \in [Devices -> [Addresses -> Nat]]
       /\ {b \in live' : b.direct} = {b \in live : b.direct}
  <2>1. d \in Devices
    BY DEF Devices
  <2> QED BY <1>1, <1>2, <1>8, <1>10, <1>11, <2>1, TakeStep
<1>13. SlabsOk(slabs') /\ Sound(slabs', free', live') /\ LiveOk(slabs', live')
  BY <1>2, <1>8, <1>12
<1>14. BuffersOwned'
  <2> DEFINE D == {b \in live : b.direct}
             B == {slabs[i].buffer : i \in DOMAIN slabs}
             B2 == {sl[i].buffer : i \in DOMAIN sl}
  <2>1. Owned(B, D, buffers)
    BY <1>1, OwnedIs
  <2>2. B2 = B \cup {<<d, base>>}
    BY <1>5, <1>8
  <2>3. BuffersOwned' <=> Owned(B2, D, buffers')
    BY <1>2, <1>12, OwnedIs
  <2> HIDE DEF D, B, B2
  <2>4. Owned(B2, D, buffers')
    BY <1>2, <1>4, <2>1, <2>2, IsBuffer DEF Owned
  <2> QED BY <2>3, <2>4
<1>15. buffers' \subseteq Devices \X Addresses
  BY <1>1, <1>2, <1>4 DEF TypeOK, Devices
<1>16. TypeOK'
  BY <1>12, <1>13, <1>15, AssembleTypes
<1> QED BY <1>12, <1>13, <1>14, <1>16, Assemble

LEMMA DirectStep ==
  ASSUME IInv, NEW d \in Gpus, NEW need \in Nat \ {0}, Direct(d, need)
  PROVE  IInv'
<1>1. /\ TypeOK /\ SlabsOk(slabs) /\ Sound(slabs, free, live) /\ LiveOk(slabs, live)
      /\ HeldInv /\ BuffersOwned
  BY InvParts
<1> DEFINE base == NewBase(d, need)
           a == [device |-> d, base |-> base, size |-> need, offset |-> 0,
                 buffer |-> <<d, base>>, direct |-> TRUE, slab |-> 0]
<1>2. Room(d, need) # {} /\ buffers' = buffers \cup {<<d, base>>} /\ live' = Register(a)
      /\ HandOut(d, base) /\ slabs' = slabs /\ free' = free
  BY DEF Direct
<1>3. base \in Room(d, need)
  BY <1>2, NewBaseInRoom
<1> HIDE DEF base
<1>4. /\ base \in Nat \ {0} /\ base \in Addresses /\ base + need \in Addresses /\ base % Align = 0
      /\ \A i \in DOMAIN slabs : slabs[i].device = d =>
           base + need <= slabs[i].base \/ slabs[i].base + slabs[i].size <= base
      /\ \A b \in live : b.device = d => base + need <= b.base \/ b.base + b.size <= base
      /\ <<d, base>> \notin buffers
  BY <1>3, RoomIsClear
<1>5. d \in Devices /\ <<d, base>> \in Buffers /\ 0 \in Int /\ 0 \in Nat
  BY <1>4 DEF Buffers, Devices
<1>6. /\ a \in Allocations /\ a.device = d /\ a.base = base /\ a.size = need /\ a.offset = 0
      /\ a.buffer = <<d, base>> /\ a.direct = TRUE
  BY <1>4, <1>5 DEF Allocations
<1> HIDE DEF a
<1>7. live \subseteq Allocations /\ (\A b \in live : b.size > 0)
      /\ \A b \in live : b.device = a.device => Separate(a, b) /\ Separate(b, a)
  BY <1>1, <1>4, <1>6 DEF TypeOK, LiveOk, Separate
<1>8. live' = live \cup {a} /\ \A b \in live : b.device # a.device \/ b.base # a.base
  BY <1>2, <1>4, <1>6, <1>7, RegisterAdds
<1>9. HeldInv' /\ held' \in [Devices -> [Addresses -> Nat]]
  BY <1>1, <1>2, <1>6, <1>8, HandedOut
<1>10. Sound(slabs, free, live \cup {a})
  BY <1>1, <1>6 DEF Sound
<1>11. LiveOk(slabs, live \cup {a})
  <2>1. \A i \in DOMAIN slabs : a.device = slabs[i].device => Separate(a, slabs[i])
    BY <1>4, <1>6 DEF Separate
  <2>2. a.size > 0 /\ a.base > 0 /\ a.base % Align = 0 /\ a.direct /\ a.device \in Gpus
        /\ a.buffer = <<a.device, a.base>> /\ a.offset = 0
    BY <1>4, <1>6
  <2> QED BY <1>1, <1>7, <2>1, <2>2 DEF LiveOk
<1>12. SlabsOk(slabs') /\ Sound(slabs', free', live') /\ LiveOk(slabs', live') /\ live' \subseteq Allocations
  BY <1>1, <1>2, <1>6, <1>7, <1>8, <1>10, <1>11
<1>13. BuffersOwned'
  <2> DEFINE D == {b \in live : b.direct}
             D2 == {b \in live' : b.direct}
             B == {slabs[i].buffer : i \in DOMAIN slabs}
  <2>1. Owned(B, D, buffers)
    BY <1>1, OwnedIs
  <2>2. D2 = D \cup {a}
    BY <1>6, <1>8
  <2>3. BuffersOwned' <=> Owned(B, D2, buffers')
    BY <1>2, OwnedIs
  <2> HIDE DEF D, B, D2
  <2>4. Owned(B, D2, buffers')
    BY <1>2, <1>4, <1>6, <2>1, <2>2 DEF Owned
  <2> QED BY <2>3, <2>4
<1>14. buffers' \subseteq Devices \X Addresses
  BY <1>1, <1>2, <1>4, <1>5 DEF TypeOK
<1>15. TypeOK'
  BY <1>9, <1>12, <1>14, AssembleTypes
<1> QED BY <1>9, <1>12, <1>13, <1>15, Assemble

\* allocate_npu(), once the window is there.
LEMMA WindowTake ==
  ASSUME IInv, NEW d \in Npus, NEW need \in Nat \ {0}, NEW junk,
         NEW sl, SlabsOk(sl), NEW f, Sound(sl, f, live), LiveOk(sl, live),
         {sl[i].buffer : i \in DOMAIN sl} \ {NoBuffer} = {slabs[i].buffer : i \in DOMAIN slabs} \ {NoBuffer},
         slabs' = sl, buffers' = buffers,
         IF Fits(sl, f, d, need, junk) # {}
         THEN Take(d, need, sl, f, junk)
         ELSE free' = f /\ live' = live /\ held' = held
  PROVE  IInv'
<1>1. TypeOK /\ HeldInv /\ BuffersOwned
  BY InvParts
<1>2. /\ Sound(sl, free', live') /\ LiveOk(sl, live') /\ live' \subseteq Allocations
      /\ HeldInv' /\ held' \in [Devices -> [Addresses -> Nat]]
      /\ {b \in live' : b.direct} = {b \in live : b.direct}
  <2>1. CASE Fits(sl, f, d, need, junk) # {}
    <3>1. Take(d, need, sl, f, junk) /\ d \in Devices
      BY <2>1 DEF Devices
    <3> QED BY <1>1, <2>1, <3>1, TakeStep
  <2>2. CASE ~(Fits(sl, f, d, need, junk) # {})
    <3>1. free' = f /\ live' = live /\ held' = held
      BY <2>2
    <3> QED BY <1>1, <3>1 DEF TypeOK, HeldInv
  <2> QED BY <2>1, <2>2
<1>3. BuffersOwned'
  <2> DEFINE D == {b \in live : b.direct}
             B == {slabs[i].buffer : i \in DOMAIN slabs}
             B2 == {sl[i].buffer : i \in DOMAIN sl}
  <2>1. Owned(B, D, buffers) /\ B2 \ {NoBuffer} = B \ {NoBuffer}
    BY <1>1, OwnedIs
  <2>2. BuffersOwned' <=> Owned(B2, D, buffers')
    BY <1>2, OwnedIs
  <2> HIDE DEF D, B, B2
  <2> QED BY <2>1, <2>2 DEF Owned
<1>4. SlabsOk(slabs') /\ Sound(slabs', free', live') /\ LiveOk(slabs', live')
  BY <1>2
<1>5. TypeOK'
  BY <1>1, <1>2, <1>4, AssembleTypes DEF TypeOK
<1> QED BY <1>2, <1>3, <1>4, <1>5, Assemble

LEMMA NpuSliceStep ==
  ASSUME IInv, NEW d \in Npus, NEW need \in Nat \ {0}, NEW junk, NpuSlice(d, need, junk)
  PROVE  IInv'
<1>1. /\ TypeOK /\ SlabsOk(slabs) /\ Sound(slabs, free, live) /\ LiveOk(slabs, live)
  BY InvParts
<1>2. CASE HasWindow(d)
  BY <1>1, <1>2, WindowTake DEF NpuSlice
<1>3. CASE ~HasWindow(d)
  <2> DEFINE s  == Window(d)
             sl == Append(slabs, s)
             f  == InsertFree(free, s.base, s.size, Len(sl))
  <2>1. /\ slabs' = sl /\ buffers' = buffers
        /\ IF Fits(sl, f, d, need, junk) # {}
           THEN Take(d, need, sl, f, junk)
           ELSE free' = f /\ live' = live /\ held' = held
    BY <1>3 DEF NpuSlice
  <2>2. /\ s \in Slabs /\ s.base > 0 /\ s.size > 0 /\ s.base + s.size \in Addresses
        /\ s.device = d /\ s.buffer = NoBuffer
    <3>1. /\ s.base = MinAlign /\ s.size = NpuTotal - MinAlign /\ s.device = d /\ s.buffer = NoBuffer
          /\ s.npu = TRUE /\ s = [buffer |-> s.buffer, base |-> s.base, size |-> s.size,
                                  device |-> s.device, npu |-> s.npu]
      BY DEF Window
    <3>2. MinAlign \in Addresses /\ NpuTotal - MinAlign \in Nat /\ NpuTotal - MinAlign > 0 /\ NpuTotal \in Addresses
      BY DEF Addresses
    <3>3. d \in Devices /\ NoBuffer \in Buffers
      BY DEF Devices, Buffers
    <3>4. s.base + s.size = NpuTotal
      BY <3>1
    <3> HIDE DEF s
    <3>5. s \in Slabs
      BY <3>1, <3>2, <3>3 DEF Slabs
    <3> QED BY <3>1, <3>2, <3>4, <3>5
  <2>3. s = Window(s.device)
    BY <2>2
  <2> HIDE DEF s
  <2>4. \A i \in DOMAIN slabs : slabs[i].device # s.device
    BY <1>1, <1>3, <2>2, GpuSlab DEF HasWindow
  <2>5. \A a \in live : ~(a.direct /\ a.device = s.device)
    BY <1>1, <2>2 DEF LiveOk
  <2>6. Appended(slabs, s, live, sl)
    BY <1>1, <2>2, <2>3, <2>4, <2>5, AppendSlab
  <2>7. Len(sl) = Len(slabs) + 1
    BY <1>1, <2>2 DEF SlabsOk
  <2>8. Sound(sl, f, live)
    BY <1>1, <2>2, <2>7, Grow
  <2> HIDE DEF sl, f
  <2>9. SlabsOk(sl) /\ LiveOk(sl, live)
        /\ {sl[i].buffer : i \in DOMAIN sl} = {slabs[i].buffer : i \in DOMAIN slabs} \cup {NoBuffer}
    BY <2>2, <2>6 DEF Appended
  <2>10. {sl[i].buffer : i \in DOMAIN sl} \ {NoBuffer} = {slabs[i].buffer : i \in DOMAIN slabs} \ {NoBuffer}
    BY <2>9
  <2> QED BY <2>1, <2>8, <2>9, <2>10, WindowTake
<1> QED BY <1>2, <1>3

\* The map's key says which allocation it is.
LEMMA KeyUnique ==
  ASSUME TypeOK, LiveOk(slabs, live), NEW a \in live, NEW b \in live, a.device = b.device, a.base = b.base
  PROVE  a = b
<1>1. a.base \in Nat /\ a.size \in Nat \ {0} /\ b.base \in Nat /\ b.size \in Nat \ {0}
  BY AllocationType DEF TypeOK, LiveOk
<1> QED BY <1>1 DEF LiveOk, Separate

LEMMA FreeStep ==
  ASSUME IInv, NEW d \in Devices, NEW base \in Addresses, Free(d, base)
  PROVE  IInv'
<1>1. /\ TypeOK /\ SlabsOk(slabs) /\ Sound(slabs, free, live) /\ LiveOk(slabs, live)
      /\ HeldInv /\ BuffersOwned
  BY InvParts
<1>2. PICK a \in live : /\ a.device = d /\ a.base = base
                        /\ live' = live \ {a}
                        /\ IF a.direct
                           THEN buffers' = buffers \ {a.buffer} /\ UNCHANGED free
                           ELSE free' = InsertFree(free, a.base, a.size, a.slab) /\ UNCHANGED buffers
  BY DEF Free
<1>3. held' = [held EXCEPT ![d][base] = @ - 1] /\ slabs' = slabs
  BY DEF Free
<1>4. live \subseteq Allocations /\ live' \subseteq Allocations
  BY <1>1, <1>2 DEF TypeOK
<1>5. HeldInv' /\ held' \in [Devices -> [Addresses -> Nat]]
  <2>1. held \in [Devices -> [Addresses -> Nat]] /\ held[d][base] = 1
    BY <1>1, <1>2 DEF TypeOK, HeldInv
  <2>2. /\ held' \in [Devices -> [Addresses -> Nat]] /\ held'[d][base] = 0
        /\ \A e \in Devices, g \in Addresses : e # d \/ g # base => held'[e][g] = held[e][g]
    BY <1>3, <2>1
  <2>3. ASSUME NEW e \in Devices, NEW g \in Addresses
        PROVE  held'[e][g] = IF \E b \in live' : b.device = e /\ b.base = g THEN 1 ELSE 0
    <3>1. CASE e = d /\ g = base
      <4>1. ~\E b \in live' : b.device = e /\ b.base = g
        BY <1>1, <1>2, <3>1, KeyUnique
      <4> QED BY <2>2, <3>1, <4>1
    <3>2. CASE e # d \/ g # base
      <4>1. (\E b \in live' : b.device = e /\ b.base = g) <=> (\E b \in live : b.device = e /\ b.base = g)
        BY <1>2, <3>2
      <4> QED BY <1>1, <2>2, <3>2, <4>1 DEF HeldInv
    <3> QED BY <3>1, <3>2
  <2> QED BY <2>2, <2>3 DEF HeldInv
<1>6. LiveOk(slabs, live \ {a})
  BY <1>1 DEF LiveOk
<1>7. Sound(slabs, free', live \ {a})
  <2>1. CASE a.direct
    <3>1. free' = free
      BY <1>2, <2>1
    <3> QED BY <1>1, <2>1, <3>1 DEF Sound
  <2>2. CASE ~a.direct
    <3>1. free' = InsertFree(free, a.base, a.size, a.slab)
      BY <1>2, <2>2
    <3> QED BY <1>1, <1>4, <2>2, <3>1, GiveBack
  <2> QED BY <2>1, <2>2
<1>8. BuffersOwned' /\ buffers' \subseteq buffers
  <2> DEFINE D == {b \in live : b.direct}
             D2 == {b \in live' : b.direct}
             B == {slabs[i].buffer : i \in DOMAIN slabs}
  <2>1. Owned(B, D, buffers)
    BY <1>1, OwnedIs
  <2>2. D2 = D \ {a}
    BY <1>2
  <2>3. BuffersOwned' <=> Owned(B, D2, buffers')
    BY <1>3, OwnedIs
  <2>4. CASE a.direct
    <3>1. buffers' = buffers \ {a.buffer} /\ a \in D
      BY <1>2, <2>4
    <3>2. ASSUME NEW b \in D, b.buffer = a.buffer PROVE b = a
      <4>1. b \in live /\ b.buffer = <<b.device, b.base>> /\ a.buffer = <<a.device, a.base>>
        BY <1>1, <2>4 DEF LiveOk
      <4>2. <<b.device, b.base>> = <<a.device, a.base>>
        BY <3>2, <4>1
      <4>3. b.device = a.device /\ b.base = a.base
        BY <4>2, PairEqual
      <4> QED BY <1>1, <4>1, <4>3, KeyUnique
    <3> HIDE DEF D, B, D2
    <3>3. Owned(B, D2, buffers')
      BY <2>1, <2>2, <3>1, <3>2 DEF Owned
    <3> QED BY <2>3, <3>1, <3>3
  <2>5. CASE ~a.direct
    <3>1. buffers' = buffers /\ D2 = D
      BY <1>2, <2>2, <2>5
    <3> HIDE DEF D, B, D2
    <3> QED BY <2>1, <2>3, <3>1
  <2> QED BY <2>4, <2>5
<1>9. SlabsOk(slabs') /\ Sound(slabs', free', live') /\ LiveOk(slabs', live')
  BY <1>1, <1>2, <1>3, <1>6, <1>7
<1>10. TypeOK'
  <2>1. buffers' \subseteq Devices \X Addresses
    BY <1>1, <1>8 DEF TypeOK
  <2> QED BY <1>4, <1>5, <1>9, <2>1, AssembleTypes
<1> QED BY <1>5, <1>8, <1>9, <1>10, Assemble

LEMMA PickNone ==
  ASSUME NEW s
  PROVE  Pick(s, {}) = <<>>
<1>1. Cardinality({}) = 0 /\ 1 .. 0 = {}
  BY FS_EmptySet
<1> QED BY <1>1 DEF Pick

\* release_all_allocations() of the only device with slabs: what is left is in buffers of its own.
LEMMA ResetStep ==
  ASSUME IInv, ~ResetWithOthers, NEW d \in Devices, NEW junk, Reset(d, junk)
  PROVE  IInv'
<1>1. /\ TypeOK /\ SlabsOk(slabs) /\ Sound(slabs, free, live) /\ LiveOk(slabs, live)
      /\ HeldInv /\ BuffersOwned
  BY InvParts
<1>2. d \in Gpus /\ \A i \in DOMAIN slabs : slabs[i].device = d
  BY DEF Reset
<1>3. {x \in free : SlabAt(slabs, x.slab, junk).device # d} = {}
  BY <1>1, <1>2 DEF Sound, SlabAt
<1>4. {i \in DOMAIN slabs : slabs[i].npu /\ slabs[i].device = d} = {}
  BY <1>1, <1>2, GpuSlab
<1>5. {i \in DOMAIN slabs : slabs[i].device # d /\ slabs[i].buffer # NoBuffer} = {}
  BY <1>2
<1> DEFINE B == {slabs[i].buffer : i \in DOMAIN slabs}
           D == {a \in live : a.direct}
<1>6. /\ live' = {a \in live : a.device # d} /\ free' = {} /\ slabs' = <<>>
      /\ buffers' = buffers \ (B \cup {a.buffer : a \in {b \in D : b.device = d}})
      /\ held' = [held EXCEPT ![d] = [g \in Addresses |-> 0]]
  <2>1. {i \in DOMAIN slabs : slabs[i].device = d} = DOMAIN slabs
        /\ {b \in D : b.device = d} = {a \in live : a.device = d /\ a.direct}
    BY <1>2
  <2>2. slabs' = Pick(slabs, {})
    BY <1>5 DEF Reset
  <2>3. free' = {}
    BY <1>3, <1>4 DEF Reset
  <2>4. buffers' = buffers \ ({slabs[i].buffer : i \in {i \in DOMAIN slabs : slabs[i].device = d}}
                                 \cup {a.buffer : a \in {a \in live : a.device = d /\ a.direct}})
        /\ live' = {a \in live : a.device # d} /\ held' = [held EXCEPT ![d] = [g \in Addresses |-> 0]]
    BY DEF Reset
  <2> QED BY <2>1, <2>2, <2>3, <2>4, PickNone
<1>7. live \subseteq Allocations /\ live' \subseteq live /\ \A a \in live' : a.direct = TRUE
  <2>1. \A a \in live : ~a.direct => a.device = d
    BY <1>1, <1>2 DEF Sound, LiveOk
  <2>2. \A a \in live : a.direct \in BOOLEAN
    BY <1>1, AllocationType DEF TypeOK
  <2> QED BY <1>1, <1>6, <2>1, <2>2 DEF TypeOK
<1>8. SlabsOk(slabs')
  BY <1>6 DEF SlabsOk
<1>9. Sound(slabs', free', live')
  BY <1>6, <1>7 DEF Sound, ListOk
<1>10. LiveOk(slabs', live')
  BY <1>1, <1>6, <1>7 DEF LiveOk
<1>11. HeldInv' /\ held' \in [Devices -> [Addresses -> Nat]]
  <2>1. /\ held' \in [Devices -> [Addresses -> Nat]] /\ \A g \in Addresses : held'[d][g] = 0
        /\ \A e \in Devices : e # d => held'[e] = held[e]
    BY <1>1, <1>6 DEF TypeOK
  <2>2. ASSUME NEW e \in Devices, NEW g \in Addresses
        PROVE  held'[e][g] = IF \E b \in live' : b.device = e /\ b.base = g THEN 1 ELSE 0
    <3>1. CASE e = d
      BY <1>6, <2>1, <3>1
    <3>2. CASE e # d
      <4>1. (\E b \in live' : b.device = e /\ b.base = g) <=> (\E b \in live : b.device = e /\ b.base = g)
        BY <1>6, <3>2
      <4> QED BY <1>1, <2>1, <3>2, <4>1 DEF HeldInv
    <3> QED BY <3>1, <3>2
  <2> QED BY <2>1, <2>2 DEF HeldInv
<1>12. BuffersOwned' /\ buffers' \subseteq buffers
  <2> DEFINE D2 == {b \in live' : b.direct}
             own == {b \in D : b.device = d}
  <2>1. Owned(B, D, buffers)
    BY <1>1, OwnedIs
  <2>2. D2 = D \ own
    BY <1>6
  <2>3. {slabs'[i].buffer : i \in DOMAIN slabs'} = {}
    BY <1>6
  <2>4. BuffersOwned' <=> Owned({}, D2, buffers')
    BY <2>3, OwnedIs
  <2>5. ASSUME NEW b \in D \ own, NEW c \in own PROVE b.buffer # c.buffer
    <3>1. b.buffer = <<b.device, b.base>> /\ c.buffer = <<c.device, c.base>> /\ b.device # c.device
      BY <1>1 DEF LiveOk
    <3> QED BY <3>1, PairEqual
  <2>6. ASSUME NEW b \in D PROVE b.buffer # NoBuffer
    <3>1. b.buffer = <<b.device, b.base>>
      BY <1>1 DEF LiveOk
    <3> QED BY <3>1, IsBuffer
  <2> HIDE DEF D, B, D2, own
  <2>7. buffers' = buffers \ (B \cup {a.buffer : a \in own})
    BY <1>6 DEF own
  <2>8. Owned({}, D2, buffers')
    BY <2>1, <2>2, <2>5, <2>6, <2>7 DEF Owned
  <2> QED BY <2>4, <2>7, <2>8
<1>13. TypeOK'
  <2>1. buffers' \subseteq Devices \X Addresses /\ live' \subseteq Allocations
    BY <1>1, <1>7, <1>12 DEF TypeOK
  <2> QED BY <1>8, <1>9, <1>10, <1>11, <2>1, AssembleTypes
<1> QED BY <1>8, <1>9, <1>10, <1>11, <1>12, <1>13, Assemble

-----------------------------------------------------------------------------
(* The theorems. *)

LEMMA InitInv == Init => IInv
<1> SUFFICES ASSUME Init PROVE IInv
  OBVIOUS
<1>1. slabs = <<>> /\ free = {} /\ live = {} /\ buffers = {}
      /\ held = [d \in Devices |-> [g \in Addresses |-> 0]]
  BY DEF Init
<1>2. TypeOK
  BY <1>1 DEF TypeOK
<1>3. SlabsInv /\ FreeInv /\ Coalesced /\ LiveInv /\ CoverInv
  BY <1>1 DEF SlabsInv, FreeInv, Coalesced, LiveInv, CoverInv
<1>4. HeldInv
  BY <1>1 DEF HeldInv
<1>5. BuffersOwned
  BY <1>1 DEF BuffersOwned
<1> QED BY <1>2, <1>3, <1>4, <1>5 DEF IInv

LEMMA InductiveStep ==
  ASSUME SafeUse, IInv, [Next]_vars
  PROVE  IInv'
<1>1. CASE UNCHANGED vars
  <2>0. slabs' = slabs /\ free' = free /\ live' = live /\ buffers' = buffers /\ held' = held
    BY <1>1 DEF vars
  <2>1. TypeOK'
    BY <2>0 DEF IInv, TypeOK
  <2>2. SlabsInv'
    BY <2>0 DEF IInv, SlabsInv
  <2>3. FreeInv' /\ Coalesced'
    BY <2>0 DEF IInv, FreeInv, Coalesced
  <2>4. LiveInv'
    BY <2>0 DEF IInv, LiveInv
  <2>5. CoverInv'
    BY <2>0 DEF IInv, CoverInv
  <2>6. HeldInv'
    BY <2>0 DEF IInv, HeldInv
  <2>7. BuffersOwned'
    BY <2>0 DEF IInv, BuffersOwned
  <2> QED BY <2>1, <2>2, <2>3, <2>4, <2>5, <2>6, <2>7 DEF IInv
<1>2. CASE Next
  <2>1. PICK d \in Devices, junk \in Junk :
          \/ \E n \in Sizes : Malloc(d, n, junk) \/ MallocManaged(d, n, junk) \/ MallocPhysical(d, n, junk)
          \/ \E g \in Addresses : Free(d, g)
          \/ Reset(d, junk)
    BY <1>2 DEF Next
  <2>2. ASSUME NEW n \in Sizes PROVE AlignUp(n) \in Nat \ {0}
    BY AlignUpPositive DEF SafeUse
  <2>3. ASSUME NEW n \in Sizes, AllocateDevice(d, n, junk) PROVE IInv'
    <3> DEFINE need == AlignUp(n)
    <3>1. need \in Nat \ {0}
      BY <2>2
    <3>2. \/ d \in Npus /\ NpuSlice(d, need, junk)
          \/ d \in Gpus /\ Direct(d, need)
          \/ d \in Gpus /\ need < SlabSize \div DirectDivisor
             /\ (Slice(d, need, junk) \/ SliceOfNewSlab(d, need, junk))
      BY <2>3 DEF AllocateDevice
    <3> HIDE DEF need
    <3>3. CASE d \in Npus /\ NpuSlice(d, need, junk)
      BY <3>1, <3>3, NpuSliceStep
    <3>4. CASE d \in Gpus /\ Direct(d, need)
      BY <3>1, <3>4, DirectStep
    <3>5. CASE d \in Gpus /\ Slice(d, need, junk)
      BY <3>1, <3>5, SliceStep
    <3>6. CASE d \in Gpus /\ need < SlabSize \div DirectDivisor /\ SliceOfNewSlab(d, need, junk)
      <4>1. SlabSize \div DirectDivisor <= SlabSize
        OBVIOUS
      <4>2. SlabSize \div DirectDivisor \in Int
        OBVIOUS
      <4>3. need <= SlabSize
        BY <3>1, <3>6, <4>1, <4>2
      <4> QED BY <3>1, <3>6, <4>3, SliceOfNewSlabStep
    <3> QED BY <3>2, <3>3, <3>4, <3>5, <3>6
  <2>4. ASSUME NEW n \in Sizes, MallocPhysical(d, n, junk) PROVE IInv'
    BY <2>2, <2>4, NpuSliceStep, DirectStep DEF MallocPhysical
  <2>5. ASSUME NEW n \in Sizes, Malloc(d, n, junk) \/ MallocManaged(d, n, junk) PROVE IInv'
    BY <2>3, <2>5 DEF Malloc, MallocManaged
  <2>6. ASSUME NEW g \in Addresses, Free(d, g) PROVE IInv'
    BY <2>6, FreeStep
  <2>7. CASE Reset(d, junk)
    BY <2>7, ResetStep DEF SafeUse
  <2> QED BY <2>1, <2>4, <2>5, <2>6, <2>7
<1> QED BY <1>1, <1>2

\* The inductive invariant holds for any devices, sizes and bounds: every slab is tiled by
\* its extents and allocations, whatever the sequence of calls (memory.cpp).
THEOREM MemoryInvariance ==
  ASSUME SafeUse
  PROVE  Spec => []IInv
<1>1. Init => IInv
  BY InitInv
<1>2. IInv /\ [Next]_vars => IInv'
  BY InductiveStep
<1> QED BY <1>1, <1>2, PTL DEF Spec

LEMMA InvTiled ==
  ASSUME IInv
  PROVE  Tiled
<1>1. /\ TypeOK /\ SlabsOk(slabs) /\ Sound(slabs, free, live) /\ LiveOk(slabs, live)
  BY InvParts
<1>2. /\ \A x \in free : x.base \in Nat /\ x.size \in Nat \ {0}
      /\ \A a \in live : a.base \in Nat /\ a.size \in Nat \ {0}
  BY <1>1, ExtentType, AllocationType DEF TypeOK, LiveOk
<1>3. ASSUME NEW i \in DOMAIN slabs
      PROVE  LET parts == {<<x.base, x.size>> : x \in {y \in free : y.slab = i}}
                 taken == {<<a.base, a.size>> : a \in {b \in live : ~b.direct /\ b.slab = i}}
                 Cover(g) == {p \in parts \cup taken : p[1] <= g /\ g < p[1] + p[2]}
             IN  /\ parts \cap taken = {}
                 /\ \A g \in Addresses : Cardinality(Cover(g)) = IF In(slabs[i], g) THEN 1 ELSE 0
  <2> DEFINE X == {y \in free : y.slab = i}
             A == {b \in live : ~b.direct /\ b.slab = i}
             parts == {<<x.base, x.size>> : x \in X}
             taken == {<<a.base, a.size>> : a \in A}
             Cover(g) == {p \in parts \cup taken : p[1] <= g /\ g < p[1] + p[2]}
  <2>1. /\ \A x, y \in X : x # y => Separate(x, y)
        /\ \A x \in X : Within(x, slabs[i])
    BY <1>1 DEF Sound, ListOk
  <2>2. /\ \A a, b \in A : a # b => Separate(a, b)
        /\ \A a \in A : Within(a, slabs[i]) /\ \A x \in X : Separate(a, x)
    <3>1. \A a \in A : a.device = slabs[i].device
      BY <1>1 DEF LiveOk
    <3> QED BY <1>1, <3>1 DEF LiveOk, Sound
  <2>3. /\ \A x \in X : x.base \in Nat /\ x.size \in Nat \ {0}
        /\ \A a \in A : a.base \in Nat /\ a.size \in Nat \ {0}
        /\ slabs[i].base \in Nat /\ slabs[i].size \in Nat
    BY <1>1, <1>2, SlabType DEF SlabsOk
  <2>4. \A g \in Addresses : In(slabs[i], g) => (\E x \in X : In(x, g)) \/ (\E a \in A : In(a, g))
    BY <1>1 DEF Sound
  <2> HIDE DEF X, A
  <2>5. parts \cap taken = {}
    <3> SUFFICES ASSUME NEW x \in X, NEW a \in A, <<x.base, x.size>> = <<a.base, a.size>> PROVE FALSE
      OBVIOUS
    <3>1. x.base = a.base /\ x.size = a.size
      BY PairEqual
    <3>2. Separate(a, x)
      BY <2>2
    <3> QED BY <2>3, <3>1, <3>2 DEF Separate
  <2>6. ASSUME NEW g \in Addresses PROVE Cardinality(Cover(g)) = IF In(slabs[i], g) THEN 1 ELSE 0
    <3>1. g \in Nat
      BY DEF Addresses
    <3>2. ASSUME NEW p \in Cover(g)
          PROVE  \/ \E x \in X : p = <<x.base, x.size>> /\ In(x, g)
                 \/ \E a \in A : p = <<a.base, a.size>> /\ In(a, g)
      <4>1. CASE \E x \in X : p = <<x.base, x.size>>
        BY <3>2, <4>1 DEF In
      <4>2. CASE \E a \in A : p = <<a.base, a.size>>
        BY <3>2, <4>2 DEF In
      <4> QED BY <3>2, <4>1, <4>2
    <3>3. /\ \A x \in X : In(x, g) => <<x.base, x.size>> \in Cover(g)
          /\ \A a \in A : In(a, g) => <<a.base, a.size>> \in Cover(g)
      BY DEF In
    <3>4. \A p, q \in Cover(g) : p = q
      <4> SUFFICES ASSUME NEW p \in Cover(g), NEW q \in Cover(g) PROVE p = q
        OBVIOUS
      <4>1. /\ \A x, y \in X : In(x, g) /\ In(y, g) => x = y
            /\ \A a, b \in A : In(a, g) /\ In(b, g) => a = b
            /\ \A a \in A, x \in X : ~(In(a, g) /\ In(x, g))
        BY <2>1, <2>2, <2>3, <3>1 DEF In, Separate
      <4>2. /\ \/ \E x \in X : p = <<x.base, x.size>> /\ In(x, g)
               \/ \E a \in A : p = <<a.base, a.size>> /\ In(a, g)
            /\ \/ \E x \in X : q = <<x.base, x.size>> /\ In(x, g)
               \/ \E a \in A : q = <<a.base, a.size>> /\ In(a, g)
        BY <3>2
      <4> HIDE DEF Cover
      <4> QED BY <4>1, <4>2
    <3>5. CASE In(slabs[i], g)
      <4>1. PICK p : p \in Cover(g)
        BY <2>4, <3>3, <3>5
      <4>2. Cover(g) = {p}
        <5> HIDE DEF Cover
        <5> QED BY <3>4, <4>1
      <4>3. Cardinality({p}) = 1
        BY FS_Singleton
      <4> QED BY <3>5, <4>2, <4>3
    <3>6. CASE ~In(slabs[i], g)
      <4>1. Cover(g) = {}
        <5> SUFFICES ASSUME NEW p \in Cover(g) PROVE FALSE
          OBVIOUS
        <5>1. (\E x \in X : In(x, g)) \/ (\E a \in A : In(a, g))
          BY <3>2
        <5>2. \A x : x.base \in Nat /\ x.size \in Nat /\ Within(x, slabs[i]) /\ In(x, g) => In(slabs[i], g)
          BY <2>3, <3>1 DEF Within, In
        <5> QED BY <2>1, <2>2, <2>3, <3>6, <5>1, <5>2
      <4> QED BY <3>6, <4>1, FS_EmptySet
    <3> QED BY <3>5, <3>6
  <2> QED BY <2>5, <2>6 DEF X, A
<1> QED BY <1>1, <1>3 DEF Tiled, Sound

LEMMA InvFindsOwner ==
  ASSUME IInv
  PROVE  FindsOwner
<1>1. /\ TypeOK /\ SlabsOk(slabs) /\ Sound(slabs, free, live) /\ LiveOk(slabs, live) /\ BuffersOwned
  BY InvParts
<1>2. \A a \in live : a.base \in Nat /\ a.size \in Nat \ {0}
  BY <1>1, AllocationType DEF TypeOK, LiveOk
<1>3. ASSUME NEW d \in Devices, NEW g \in Addresses
      PROVE  FindLocked(d, g) = {a \in live : a.device = d /\ In(a, g)}
  <2>1. g \in Nat
    BY DEF Addresses
  <2>2. ASSUME NEW a \in live, a.device = d, In(a, g), NEW b \in live, b.device = d, b.base <= g
        PROVE  b.base <= a.base
    <3>1. CASE a = b
      BY <1>2, <3>1
    <3>2. CASE a # b
      <4>1. Separate(a, b)
        BY <1>1, <2>2, <3>2 DEF LiveOk
      <4> QED BY <1>2, <2>1, <2>2, <4>1 DEF Separate, In
    <3> QED BY <3>1, <3>2
  <2> QED BY <2>2 DEF FindLocked, In
<1>4. ASSUME NEW a \in live, a.device \in Gpus
      PROVE  a.buffer \in buffers /\ a.buffer[2] + a.offset = a.base
  <2>1. CASE a.direct
    <3>1. a.buffer = <<a.device, a.base>> /\ a.offset = 0
      BY <1>1, <2>1 DEF LiveOk
    <3>2. a.buffer \in buffers
      BY <1>1, <2>1 DEF BuffersOwned
    <3> QED BY <1>2, <3>1, <3>2
  <2>2. CASE ~a.direct
    <3>1. /\ a.slab \in DOMAIN slabs /\ a.device = slabs[a.slab].device /\ a.buffer = slabs[a.slab].buffer
          /\ a.offset = a.base - slabs[a.slab].base
      BY <1>1, <2>2 DEF LiveOk, Sound
    <3>2. a.buffer = <<a.device, slabs[a.slab].base>> /\ a.buffer # NoBuffer
      <4>1. slabs[a.slab].buffer = <<slabs[a.slab].device, slabs[a.slab].base>>
        BY <1>1, <1>4, <3>1, GpuSlab
      <4> QED BY <3>1, <4>1, IsBuffer
    <3>3. a.buffer \in buffers
      BY <1>1, <3>1, <3>2 DEF BuffersOwned
    <3>4. slabs[a.slab].base \in Nat
      BY <1>1, <3>1, SlabType DEF SlabsOk
    <3> QED BY <1>2, <3>1, <3>2, <3>3, <3>4
  <2> QED BY <2>1, <2>2
<1> QED BY <1>3, <1>4 DEF FindsOwner

LEMMA InvRegistered ==
  ASSUME IInv
  PROVE  Registered
  BY DEF IInv, HeldInv, Registered

\* Carving, splitting and joining neither lose a grain of a slab nor give it out twice
\* (take_best_fit, insert_free, release_all_allocations).
THEOREM MemoryTiled ==
  ASSUME SafeUse
  PROVE  Spec => []Tiled
  BY MemoryInvariance, InvTiled, PTL

\* No two free extents of a slab touch: insert_free() joins on both sides.
THEOREM FreeListCoalesced ==
  ASSUME SafeUse
  PROVE  Spec => []Coalesced
<1>1. IInv => Coalesced
  BY DEF IInv
<1> QED BY <1>1, MemoryInvariance, PTL

\* A pointer the program was given and has not freed is in g_live.
THEOREM PointersRegistered ==
  ASSUME SafeUse
  PROVE  Spec => []Registered
  BY MemoryInvariance, InvRegistered, PTL

\* find_locked() finds whatever holds an address, in a buffer the driver has.
THEOREM AddressFindsOwner ==
  ASSUME SafeUse
  PROVE  Spec => []FindsOwner
  BY MemoryInvariance, InvFindsOwner, PTL

\* No driver buffer is leaked and none is used after its release.
THEOREM BuffersHaveOwners ==
  ASSUME SafeUse
  PROVE  Spec => []BuffersOwned
<1>1. IInv => BuffersOwned
  BY DEF IInv
<1> QED BY <1>1, MemoryInvariance, PTL

-----------------------------------------------------------------------------
(* Cache lines. *)

\* Allocations are made of whole units.
WholeUnits == \A a \in live : AlignUp(a.size) = a.size

LEMMA AlignUpTwice ==
  ASSUME NEW v \in Nat
  PROVE  AlignUp(AlignUp(v)) = AlignUp(v)
<1> DEFINE q == (v + Align - 1) \div Align
<1>1. q \in Int
  OBVIOUS
<1> HIDE DEF q
<1>2. (q * Align + Align - 1) \div Align = q
  BY <1>1
<1>3. AlignUp(v) = q * Align
  BY DEF AlignUp, q
<1> QED BY <1>2, <1>3 DEF AlignUp

LEMMA WholeUnitsStep ==
  ASSUME WholeUnits, [Next]_vars
  PROVE  WholeUnits'
<1>1. CASE UNCHANGED vars
  BY <1>1 DEF vars, WholeUnits
<1>2. CASE Next
  <2>1. PICK d \in Devices, junk \in Junk :
          \/ \E n \in Sizes : Malloc(d, n, junk) \/ MallocManaged(d, n, junk) \/ MallocPhysical(d, n, junk)
          \/ \E g \in Addresses : Free(d, g)
          \/ Reset(d, junk)
    BY <1>2 DEF Next
  <2>2. ASSUME NEW a, AlignUp(a.size) = a.size, live' = Register(a) PROVE WholeUnits'
    BY <2>2 DEF WholeUnits, Register
  <2>3. ASSUME live' \subseteq live PROVE WholeUnits'
    BY <2>3 DEF WholeUnits
  <2>4. ASSUME NEW n \in Sizes PROVE AlignUp(AlignUp(n)) = AlignUp(n)
    BY AlignUpTwice
  <2>5. ASSUME NEW need, AlignUp(need) = need, NEW sl, NEW f, Take(d, need, sl, f, junk) PROVE WholeUnits'
    <3> DEFINE x == BestFit(Fits(sl, f, d, need, junk))
               s == SlabAt(sl, x.slab, junk)
               a == [device |-> d, base |-> x.base, size |-> need, offset |-> x.base - s.base,
                     buffer |-> s.buffer, direct |-> FALSE, slab |-> x.slab]
    <3>1. live' = Register(a)
      BY <2>5 DEF Take
    <3>2. a.size = need
      OBVIOUS
    <3> HIDE DEF a
    <3> QED BY <2>2, <2>5, <3>1, <3>2
  <2>6. ASSUME NEW need, AlignUp(need) = need, Direct(d, need) PROVE WholeUnits'
    <3> DEFINE base == NewBase(d, need)
               a == [device |-> d, base |-> base, size |-> need, offset |-> 0,
                     buffer |-> <<d, base>>, direct |-> TRUE, slab |-> 0]
    <3>1. live' = Register(a)
      BY <2>6 DEF Direct
    <3>2. a.size = need
      OBVIOUS
    <3> HIDE DEF a
    <3> QED BY <2>2, <2>6, <3>1, <3>2
  <2>7. ASSUME NEW need, AlignUp(need) = need, NpuSlice(d, need, junk) PROVE WholeUnits'
    <3> DEFINE sl == IF HasWindow(d) THEN slabs ELSE Append(slabs, Window(d))
               f  == IF HasWindow(d) THEN free
                     ELSE InsertFree(free, Window(d).base, Window(d).size, Len(sl))
    <3>1. Take(d, need, sl, f, junk) \/ live' = live
      BY <2>7 DEF NpuSlice
    <3> HIDE DEF sl, f
    <3> QED BY <2>3, <2>5, <2>7, <3>1
  <2>8. ASSUME NEW need, AlignUp(need) = need, Slice(d, need, junk) PROVE WholeUnits'
    BY <2>5, <2>8 DEF Slice
  <2>9. ASSUME NEW need, AlignUp(need) = need, SliceOfNewSlab(d, need, junk) PROVE WholeUnits'
    <3>1. \E sl, f : Take(d, need, sl, f, junk)
      BY <2>9 DEF SliceOfNewSlab
    <3> QED BY <2>5, <2>9, <3>1
  <2>10. ASSUME NEW n \in Sizes, AllocateDevice(d, n, junk) PROVE WholeUnits'
    <3> DEFINE need == AlignUp(n)
    <3>1. AlignUp(need) = need
      BY <2>4
    <3>2. NpuSlice(d, need, junk) \/ Direct(d, need) \/ Slice(d, need, junk) \/ SliceOfNewSlab(d, need, junk)
      BY <2>10 DEF AllocateDevice
    <3> HIDE DEF need
    <3> QED BY <2>6, <2>7, <2>8, <2>9, <3>1, <3>2
  <2>11. ASSUME NEW n \in Sizes, MallocPhysical(d, n, junk) PROVE WholeUnits'
    BY <2>4, <2>6, <2>7, <2>11 DEF MallocPhysical
  <2>12. ASSUME NEW n \in Sizes, Malloc(d, n, junk) \/ MallocManaged(d, n, junk) PROVE WholeUnits'
    BY <2>10, <2>12 DEF Malloc, MallocManaged
  <2>13. ASSUME NEW g \in Addresses, Free(d, g) PROVE WholeUnits'
    BY <2>3, <2>13 DEF Free
  <2>14. ASSUME Reset(d, junk) PROVE WholeUnits'
    BY <2>3, <2>14 DEF Reset
  <2> QED BY <2>1, <2>11, <2>12, <2>13, <2>14
<1> QED BY <1>1, <1>2

\* "No two allocations ever share a cache line" (memory.cpp), once no request of no bytes is
\* let through: memory_zero is the run that shows what such a request does.
THEOREM LinesNotShared ==
  ASSUME SafeUse
  PROVE  Spec => []SharesNoLine
<1>1. Init => WholeUnits
  BY DEF Init, WholeUnits
<1>2. WholeUnits /\ [Next]_vars => WholeUnits'
  BY WholeUnitsStep
<1>3. IInv /\ WholeUnits => SharesNoLine
  BY DEF IInv, LiveInv, WholeUnits, Separate, SharesNoLine
<1> QED BY <1>1, <1>2, <1>3, MemoryInvariance, PTL DEF Spec

=============================================================================

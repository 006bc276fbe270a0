---------------------------- MODULE SehFramesProofs ----------------------------
(***************************************************************************)
(* The properties of SehFrames for every memory and any number of objects. *)
(***************************************************************************)
EXTENDS SehFrames, LeastElements

-----------------------------------------------------------------------------
\* Memory

\* Page p holds address x
In(p, x) == Address(p, 0) <= x /\ x < Address(p, PageSize)

LEMMA PageBounds ==
  ASSUME NEW p \in Pages
  PROVE  Address(p, 0) \in Nat /\ Address(p, PageSize) \in Nat
<1>1. p \in Nat /\ PageSize \in Nat
  BY MemoryAssumption
<1>2. p * PageSize \in Nat
  BY <1>1
<1> QED
  BY <1>1, <1>2 DEF Address

LEMMA PageOf ==
  ASSUME NEW p \in Pages, NEW o \in 0..(PageSize - 1)
  PROVE  In(p, Address(p, o)) /\ Address(p, o) \in Addresses
<1>1. p \in Nat /\ PageSize \in Nat /\ o \in Nat /\ o < PageSize
  BY MemoryAssumption
<1>2. p * PageSize \in Nat
  BY <1>1
<1> QED
  BY <1>1, <1>2 DEF In, Address, Addresses

LEMMA AddressesArePositive == Addresses \in SUBSET (Nat \ {0})
<1> SUFFICES ASSUME NEW p \in Pages, NEW o \in 0..(PageSize - 1)
             PROVE  Address(p, o) \in Nat \ {0}
  BY DEF Addresses
<1>1. p \in Nat /\ p >= 1 /\ PageSize \in Nat /\ PageSize >= 1 /\ o \in Nat
  BY MemoryAssumption
<1>2. p * PageSize \in Nat /\ p * PageSize >= PageSize
  <2>1. PICK k \in Nat : p = 1 + k
    BY <1>1
  <2>2. p * PageSize = PageSize + k * PageSize
    BY <1>1, <2>1
  <2>3. k * PageSize \in Nat
    BY <1>1
  <2> QED
    BY <1>1, <2>2, <2>3
<1> QED
  BY <1>1, <1>2 DEF Address

\* No two pages hold the same address.
LEMMA PagesApart ==
  ASSUME NEW p \in Pages, NEW q \in Pages, NEW x \in Int, In(p, x), In(q, x)
  PROVE  p = q
<1>1. ASSUME NEW a \in Pages, NEW b \in Pages, In(a, x), In(b, x), a < b PROVE FALSE
  <2>1. a \in Nat /\ b \in Nat /\ PageSize \in Nat
    BY MemoryAssumption
  <2>2. PICK k \in Nat : b = a + 1 + k
    BY <1>1, <2>1
  <2>3. b * PageSize = a * PageSize + PageSize + k * PageSize
    BY <2>1, <2>2
  <2>4. a * PageSize \in Nat /\ k * PageSize \in Nat
    BY <2>1
  <2>5. x < a * PageSize + PageSize /\ b * PageSize <= x
    BY <1>1, <2>1, <2>3, <2>4 DEF In, Address
  <2> QED
    BY <2>1, <2>3, <2>4, <2>5
<1>2. p \in Nat /\ q \in Nat
  BY MemoryAssumption
<1>3. ~(p < q) /\ ~(q < p)
  BY <1>1
<1> QED
  BY <1>2, <1>3

\* The image base is where one of the blocks begins.
LEMMA BaseIsABlock ==
  ASSUME NEW c \in Pages, NEW d \in Pages
  PROVE  /\ BaseOf(c, d) \in {Address(c, 0), Address(d, 0)}
         /\ BaseOf(c, d) \in Addresses
<1>1. 0 \in 0..(PageSize - 1)
  BY MemoryAssumption
<1>2. Address(c, 0) \in Addresses /\ Address(d, 0) \in Addresses
  BY <1>1, PageOf
<1>3. {Address(c, 0), Address(d, 0)} \in SUBSET Nat
  BY <1>2, AddressesArePositive
<1>4. BaseOf(c, d) \in {Address(c, 0), Address(d, 0)}
  BY <1>3, MinIsLeast DEF BaseOf
<1> QED
  BY <1>2, <1>4

-----------------------------------------------------------------------------
\* Ranges

\* The range of an image covers its functions and stays in its page.
LEMMA CoveringCovers ==
  ASSUME NEW p \in Pages, NEW functions \in CodeIn(p)
  PROVE  /\ Covering(functions) \in Extent
         /\ In(p, Covering(functions).first) /\ In(p, Covering(functions).last)
         /\ \A r \in functions : /\ r \in Extent
                                 /\ Covering(functions).first <= r.first
                                 /\ r.last <= Covering(functions).last
<1> DEFINE firsts == { r.first : r \in functions }
           lasts == { r.last : r \in functions }
           range == Covering(functions)
<1>1. functions # {} /\ \A r \in functions : /\ r \in Extent
                                             /\ r.first >= Address(p, 0)
                                             /\ r.last < Address(p, PageSize)
  BY DEF CodeIn
<1>2. \A r \in Extent : r.first \in Addresses /\ r.last \in Addresses /\ r.first < r.last
  BY DEF Extent
<1>3. p \in Nat /\ PageSize \in Nat
  BY MemoryAssumption
<1>4. Address(p, 0) \in Nat /\ Address(p, PageSize) \in Nat
  BY PageBounds
<1>5. /\ firsts \in SUBSET Addresses /\ firsts # {}
      /\ lasts \in SUBSET Addresses /\ lasts # {}
  BY <1>1, <1>2
<1>6. firsts \in SUBSET Nat /\ lasts \in SUBSET Nat
  BY <1>5, AddressesArePositive
<1>7. \A n \in lasts : n <= Address(p, PageSize)
  <2>1. TAKE n \in lasts
  <2>2. PICK r \in functions : n = r.last
    BY <2>1
  <2>3. n < Address(p, PageSize) /\ n \in Nat
    BY <1>1, <1>6, <2>2
  <2> QED
    BY <1>4, <2>3
<1>8. Min(firsts) \in firsts /\ \A n \in firsts : Min(firsts) <= n
  BY <1>5, <1>6, MinIsLeast
<1>9. Max(lasts) \in lasts /\ \A n \in lasts : Max(lasts) >= n
  BY <1>4, <1>5, <1>6, <1>7, MaxIsGreatest
<1>10. range = [first |-> Min(firsts), last |-> Max(lasts)]
  BY DEF Covering
<1>11. \A r \in functions : range.first <= r.first /\ r.last <= range.last
  <2>1. TAKE r \in functions
  <2>2. Min(firsts) <= r.first
    BY <1>8
  <2>3. Max(lasts) >= r.last
    BY <1>9
  <2>4. r.last \in Nat /\ Max(lasts) \in Nat
    BY <1>6, <1>9
  <2> QED
    BY <1>10, <2>2, <2>3, <2>4
<1>12. PICK f \in functions : Min(firsts) = f.first
  BY <1>8
<1>13. PICK l \in functions : Max(lasts) = l.last
  BY <1>9
<1> HIDE DEF firsts, lasts
<1>14. range.first = f.first /\ range.last = l.last /\ range = [first |-> f.first, last |-> l.last]
  BY <1>10, <1>12, <1>13
<1>15. /\ f.first \in Nat /\ f.last \in Nat /\ l.first \in Nat /\ l.last \in Nat
       /\ f.first < f.last /\ l.first < l.last
       /\ f.first \in Addresses /\ l.last \in Addresses
  BY <1>1, <1>2, AddressesArePositive
<1>16. range.first < range.last
  <2>1. f.last <= range.last
    BY <1>11
  <2> QED
    BY <1>14, <1>15, <2>1
<1>17. range \in Extent
  BY <1>14, <1>15, <1>16 DEF Extent
<1>18. In(p, range.first) /\ In(p, range.last)
  <2>1. f.first >= Address(p, 0) /\ l.last < Address(p, PageSize)
    BY <1>1
  <2> QED
    BY <1>4, <1>14, <1>15, <1>16, <2>1 DEF In
<1> HIDE DEF range
<1> QED
  BY <1>1, <1>11, <1>17, <1>18 DEF range

-----------------------------------------------------------------------------
\* The invariant

Live(m) == phase[m] \in {"reserved", "finalized"}

\* An object has two pages of its own as long as it lives.
PagesHeld ==
  /\ \A m \in Managers :
       IF Live(m) THEN code[m] \in Pages /\ data[m] \in Pages /\ code[m] # data[m]
       ELSE code[m] = None /\ data[m] = None
  /\ \A m, n \in Managers : m # n /\ Live(m) /\ Live(n) =>
       {code[m], data[m]} \cap {code[n], data[n]} = {}

\* finalizeMemory has cleared ImageBase by the time there are frames to
\* deregister.
BaseUntilFinal ==
  \A m \in Managers : /\ phase[m] = "reserved" => imageBase[m] = TrueBase(m)
                      /\ phase[m] = "finalized" => imageBase[m] = 0

\* The table of an image lists functions of its page.
TableOf(m, t) ==
  /\ phase[m] = "finalized"
  /\ ehFrames[m] = {t}
  /\ t.functions \in CodeIn(code[m])
  /\ \E o \in TableOffsets : t.addr = Address(data[m], o)
FramesInPage == \A m \in Managers : \A t \in ehFrames[m] : TableOf(m, t)

\* The handler has the range of every live image, and with assertions no other
\* under its base.
RangesKept ==
  status = "ok" => \A m \in Managers : \A t \in ehFrames[m] :
    /\ Covering(t.functions) \in imageMap[TrueBase(m)]
    /\ Debug => imageMap[TrueBase(m)] = {Covering(t.functions)}

\* There is nothing else in the map, but under the bases of former images.
Owned(a, r) ==
  \E m \in Managers : \E t \in ehFrames[m] :
    a = TrueBase(m) /\ r = Covering(t.functions)
RangesOwned ==
  /\ \A a \in Addresses : \A r \in imageMap[a] : Owned(a, r) \/ a \in former
  /\ Removed = {} => former = {}

IInv ==
  /\ TypeOK /\ PagesHeld /\ BaseUntilFinal /\ FramesInPage
  /\ RangesKept /\ RangesOwned /\ AssertHasCause

LEMMA InitHolds == Init => IInv
<1> SUFFICES ASSUME Init PROVE IInv
  OBVIOUS
<1>1. TypeOK
  BY DEF Init, TypeOK
<1>2. PagesHeld /\ BaseUntilFinal /\ FramesInPage
  BY DEF Init, PagesHeld, BaseUntilFinal, FramesInPage, Live
<1>3. RangesKept /\ RangesOwned /\ AssertHasCause
  BY DEF Init, RangesKept, RangesOwned, AssertHasCause, Removed
<1> QED
  BY <1>1, <1>2, <1>3 DEF IInv

\* Images that live at the same time have different bases.
LEMMA BasesApart ==
  ASSUME PagesHeld, NEW m \in Managers, NEW n \in Managers, Live(m), Live(n),
         TrueBase(m) = TrueBase(n)
  PROVE  m = n
<1>1. /\ code[m] \in Pages /\ data[m] \in Pages /\ code[n] \in Pages /\ data[n] \in Pages
      /\ m # n => {code[m], data[m]} \cap {code[n], data[n]} = {}
  BY DEF PagesHeld
<1>2. /\ TrueBase(m) \in {Address(code[m], 0), Address(data[m], 0)}
      /\ TrueBase(n) \in {Address(code[n], 0), Address(data[n], 0)}
      /\ TrueBase(m) \in Addresses
  BY <1>1, BaseIsABlock DEF TrueBase
<1>3. \A p \in Pages : In(p, Address(p, 0))
  BY PageOf, MemoryAssumption
<1>4. PICK p \in {code[m], data[m]} : TrueBase(m) = Address(p, 0)
  BY <1>2
<1>5. PICK q \in {code[n], data[n]} : TrueBase(n) = Address(q, 0)
  BY <1>2
<1>6. In(p, TrueBase(m)) /\ In(q, TrueBase(m)) /\ TrueBase(m) \in Int
  <2>1. In(p, TrueBase(m)) /\ In(q, TrueBase(m))
    BY <1>1, <1>3, <1>4, <1>5
  <2>2. TrueBase(m) \in Int
    BY <1>2, AddressesArePositive
  <2> QED
    BY <2>1, <2>2
<1>7. p = q
  BY <1>1, <1>6, PagesApart
<1> QED
  BY <1>1, <1>7

LEMMA ReserveKeeps ==
  ASSUME IInv, NEW m \in Managers, NEW c \in Pages, NEW d \in Pages, Reserve(m, c, d)
  PROVE  IInv'
<1>1. /\ status = "ok" /\ phase[m] = "new" /\ c # d /\ c \notin Held /\ d \notin Held
      /\ phase' = [phase EXCEPT ![m] = "reserved"]
      /\ code' = [code EXCEPT ![m] = c]
      /\ data' = [data EXCEPT ![m] = d]
      /\ imageBase' = [imageBase EXCEPT ![m] = BaseOf(c, d)]
      /\ status' = status /\ ehFrames' = ehFrames /\ imageMap' = imageMap
      /\ tables' = tables /\ former' = former
  BY DEF Reserve, Free
<1>2. TypeOK
  BY DEF IInv
<1>3. TypeOK'
  BY <1>1, <1>2, BaseIsABlock DEF TypeOK
<1>4. /\ phase'[m] = "reserved" /\ code'[m] = c /\ data'[m] = d
      /\ imageBase'[m] = BaseOf(c, d)
      /\ \A n \in Managers \ {m} : /\ phase'[n] = phase[n] /\ code'[n] = code[n]
                                   /\ data'[n] = data[n] /\ imageBase'[n] = imageBase[n]
  BY <1>1, <1>2 DEF TypeOK
<1>5. \A n \in Managers : c # code[n] /\ d # code[n] /\ c # data[n] /\ d # data[n]
  BY <1>1 DEF Held
<1>6. PagesHeld'
  BY <1>1, <1>4, <1>5 DEF IInv, PagesHeld, Live
<1>7. BaseUntilFinal'
  BY <1>4 DEF IInv, BaseUntilFinal, TrueBase
<1>8. ehFrames[m] = {}
  BY <1>1 DEF IInv, FramesInPage, TableOf
<1>9. FramesInPage'
  BY <1>1, <1>4, <1>8 DEF IInv, FramesInPage, TableOf
<1>10. \A n \in Managers : ehFrames[n] # {} => TrueBase(n)' = TrueBase(n)
  BY <1>4, <1>8 DEF TrueBase
<1>11. RangesKept'
  BY <1>1, <1>10 DEF IInv, RangesKept
<1>12. Removed' = Removed
  BY <1>1, <1>4 DEF Removed
<1>13. RangesOwned'
  <2>1. \A a, r : Owned(a, r) => Owned(a, r)'
    BY <1>1, <1>10 DEF Owned, Covering
  <2> QED
    BY <1>1, <1>12, <2>1 DEF IInv, RangesOwned
<1>14. AssertHasCause'
  BY <1>1 DEF AssertHasCause
<1> QED
  BY <1>3, <1>6, <1>7, <1>9, <1>11, <1>13, <1>14 DEF IInv

\* Nothing is found in the map when an object is removed.
LEMMA RemoveKeeps ==
  ASSUME IInv, NEW m \in Managers, Remove(m)
  PROVE  IInv'
<1>1. /\ status = "ok" /\ Live(m)
      /\ DeRegisterEHFrames(imageBase[m], ehFrames[m])
      /\ ehFrames' = [ehFrames EXCEPT ![m] = {}]
      /\ phase' = [phase EXCEPT ![m] = "removed"]
      /\ code' = [code EXCEPT ![m] = None]
      /\ data' = [data EXCEPT ![m] = None]
      /\ former' = former \cup { TrueBase(n) : n \in Registered \cap {m} }
      /\ status' = status /\ imageBase' = imageBase
  BY DEF Remove, Live
<1>2. TypeOK
  BY DEF IInv
<1>3. imageMap' = imageMap /\ tables' = tables
  <2>1. ehFrames[m] # {} => imageBase[m] \notin Addresses
    BY AddressesArePositive DEF IInv, FramesInPage, TableOf, BaseUntilFinal
  <2> QED
    BY <1>1, <2>1 DEF DeRegisterEHFrames
<1>4. /\ phase'[m] = "removed" /\ code'[m] = None /\ data'[m] = None /\ ehFrames'[m] = {}
      /\ \A n \in Managers \ {m} : /\ phase'[n] = phase[n] /\ code'[n] = code[n]
                                   /\ data'[n] = data[n] /\ ehFrames'[n] = ehFrames[n]
  BY <1>1, <1>2 DEF TypeOK
<1>5. TypeOK'
  <2>1. code' \in [Managers -> Pages \cup {None}] /\ data' \in [Managers -> Pages \cup {None}]
    BY <1>1, <1>2 DEF TypeOK
  <2>2. phase' \in [Managers -> {"new", "reserved", "finalized", "removed"}]
    BY <1>1, <1>2 DEF TypeOK
  <2>3. ehFrames' \in [Managers -> SUBSET [addr : Addresses, functions : SUBSET Extent]]
    BY <1>1, <1>2 DEF TypeOK
  <2>4. former' \subseteq Addresses
    <3>1. code[m] \in Pages /\ data[m] \in Pages
      BY <1>1 DEF IInv, PagesHeld
    <3>2. TrueBase(m) \in Addresses
      BY <3>1, BaseIsABlock DEF TrueBase
    <3> QED
      BY <1>1, <1>2, <3>2 DEF TypeOK
  <2> QED
    BY <1>1, <1>2, <1>3, <2>1, <2>2, <2>3, <2>4 DEF TypeOK
<1>6. PagesHeld'
  BY <1>4 DEF IInv, PagesHeld, Live
<1>7. BaseUntilFinal'
  BY <1>1, <1>4 DEF IInv, BaseUntilFinal, TrueBase
<1>8. FramesInPage'
  BY <1>4 DEF IInv, FramesInPage, TableOf
<1>9. RangesKept'
  BY <1>1, <1>3, <1>4 DEF IInv, RangesKept, TrueBase
<1>10. Removed' # {}
  BY <1>4 DEF Removed
<1>11. RangesOwned'
  <2>1. ASSUME NEW a \in Addresses, NEW r \in imageMap[a]
        PROVE  Owned(a, r)' \/ a \in former'
    <3>1. CASE a \in former
      BY <1>1, <3>1
    <3>2. CASE Owned(a, r)
      <4>1. PICK n \in Managers : \E t \in ehFrames[n] :
                   a = TrueBase(n) /\ r = Covering(t.functions)
        BY <3>2 DEF Owned
      <4>2. CASE n = m
        BY <1>1, <4>1, <4>2 DEF Registered
      <4>3. CASE n # m
        <5>1. TrueBase(n)' = TrueBase(n) /\ ehFrames'[n] = ehFrames[n]
          BY <1>4, <4>3 DEF TrueBase
        <5> QED
          BY <4>1, <5>1 DEF Owned, Covering
      <4> QED
        BY <4>2, <4>3
    <3> QED
      BY <2>1, <3>1, <3>2 DEF IInv, RangesOwned
  <2> QED
    BY <1>3, <1>10, <2>1 DEF RangesOwned
<1>12. AssertHasCause'
  BY <1>1 DEF AssertHasCause
<1> QED
  BY <1>5, <1>6, <1>7, <1>8, <1>9, <1>11, <1>12 DEF IInv

\* What finalizeMemory does not depend on the table for
LEMMA FinalizeCommon ==
  ASSUME IInv, NEW m \in Managers, FinalizeMemory(m)
  PROVE  /\ status = "ok" /\ phase[m] = "reserved" /\ imageBase[m] = TrueBase(m)
         /\ phase' = [phase EXCEPT ![m] = "finalized"]
         /\ imageBase' = [imageBase EXCEPT ![m] = 0]
         /\ code' = code /\ data' = data /\ ehFrames[m] = {}
         /\ code[m] \in Pages /\ data[m] \in Pages /\ TrueBase(m) \in Addresses
         /\ PagesHeld' /\ BaseUntilFinal' /\ Removed' = Removed /\ former' = former
<1>1. /\ status = "ok" /\ phase[m] = "reserved"
      /\ phase' = [phase EXCEPT ![m] = "finalized"]
      /\ imageBase' = [imageBase EXCEPT ![m] = 0]
      /\ code' = code /\ data' = data /\ former' = former
  BY DEF FinalizeMemory
<1>2. phase \in [Managers -> {"new", "reserved", "finalized", "removed"}]
      /\ imageBase \in [Managers -> Addresses \cup {0}]
  BY DEF IInv, TypeOK
<1>3. /\ phase'[m] = "finalized" /\ imageBase'[m] = 0
      /\ \A n \in Managers \ {m} : phase'[n] = phase[n] /\ imageBase'[n] = imageBase[n]
  BY <1>1, <1>2
<1>4. imageBase[m] = TrueBase(m) /\ ehFrames[m] = {}
  BY <1>1 DEF IInv, BaseUntilFinal, FramesInPage, TableOf
<1>5. code[m] \in Pages /\ data[m] \in Pages
  BY <1>1 DEF IInv, PagesHeld, Live
<1>6. TrueBase(m) \in Addresses
  BY <1>5, BaseIsABlock DEF TrueBase
<1>7. PagesHeld'
  BY <1>1, <1>3 DEF IInv, PagesHeld, Live
<1>8. BaseUntilFinal'
  BY <1>1, <1>3 DEF IInv, BaseUntilFinal, TrueBase
<1>9. Removed' = Removed
  BY <1>1, <1>3 DEF Removed
<1> QED
  BY <1>1, <1>4, <1>5, <1>6, <1>7, <1>8, <1>9

\* An address in a page of one live image is no base of another's.
LEMMA NoBaseInForeignPage ==
  ASSUME PagesHeld, NEW m \in Managers, NEW n \in Managers, m # n, Live(m), Live(n),
         NEW o \in 0..(PageSize - 1)
  PROVE  Address(data[m], o) # TrueBase(n)
<1> SUFFICES ASSUME Address(data[m], o) = TrueBase(n) PROVE FALSE
  OBVIOUS
<1>1. /\ data[m] \in Pages /\ code[n] \in Pages /\ data[n] \in Pages
      /\ data[m] \notin {code[n], data[n]}
  BY DEF PagesHeld
<1>2. PICK p \in {code[n], data[n]} : TrueBase(n) = Address(p, 0)
  BY <1>1, BaseIsABlock DEF TrueBase
<1>3. 0 \in 0..(PageSize - 1)
  BY MemoryAssumption
<1>4. In(p, Address(p, 0)) /\ In(data[m], Address(data[m], o))
  BY <1>1, <1>3, PageOf
<1>5. Address(p, 0) \in Int
  <2>1. Address(p, 0) \in Addresses
    BY <1>1, <1>3, PageOf
  <2>2. \A x \in Addresses : x \in Int
    BY AddressesArePositive
  <2> QED
    BY <2>1, <2>2
<1>6. p = data[m]
  BY <1>1, <1>2, <1>4, <1>5, PagesApart
<1> QED
  BY <1>1, <1>6

LEMMA FinalizeWithTable ==
  ASSUME IInv, NEW m \in Managers, FinalizeMemory(m),
         NEW functions \in CodeIn(code[m]), NEW o \in TableOffsets, NEW table,
         table = [addr |-> Address(data[m], o), functions |-> functions],
         ehFrames' = [ehFrames EXCEPT ![m] = {table}],
         RegisterEHFrames(imageBase[m], table.addr, functions)
  PROVE  IInv'
<1> DEFINE base == TrueBase(m)
           range == Covering(functions)
<1>1. /\ status = "ok" /\ phase[m] = "reserved" /\ imageBase[m] = base
      /\ phase' = [phase EXCEPT ![m] = "finalized"]
      /\ imageBase' = [imageBase EXCEPT ![m] = 0]
      /\ code' = code /\ data' = data /\ ehFrames[m] = {}
      /\ code[m] \in Pages /\ data[m] \in Pages /\ base \in Addresses
      /\ PagesHeld' /\ BaseUntilFinal' /\ Removed' = Removed /\ former' = former
  BY FinalizeCommon
<1>2. TypeOK
  BY DEF IInv
<1>3. /\ o \in 0..(PageSize - 1)
      /\ table.addr = Address(data[m], o) /\ table.functions = functions
      /\ table.addr \in Addresses
  <2>1. o \in 0..(PageSize - 1)
    BY MemoryAssumption DEF TableOffsets
  <2> QED
    BY <1>1, <2>1, PageOf
<1>4. range \in Extent /\ functions \in SUBSET Extent
  BY <1>1, CoveringCovers
<1>5. \A n \in Managers : TrueBase(n)' = TrueBase(n)
  BY <1>1 DEF TrueBase
<1>6. /\ phase'[m] = "finalized" /\ ehFrames'[m] = {table}
      /\ \A n \in Managers \ {m} : phase'[n] = phase[n] /\ ehFrames'[n] = ehFrames[n]
  BY <1>1, <1>2 DEF TypeOK
<1>7. FramesInPage'
  <2>1. ASSUME NEW n \in Managers, NEW t \in ehFrames'[n] PROVE TableOf(n, t)'
    <3>1. CASE n = m
      BY <1>1, <1>3, <1>6, <2>1, <3>1 DEF TableOf, CodeIn
    <3>2. CASE n # m
      BY <1>1, <1>6, <2>1, <3>2 DEF IInv, FramesInPage, TableOf
    <3> QED
      BY <3>1, <3>2
  <2> QED
    BY <2>1 DEF FramesInPage
<1>8. \A n \in Managers \ {m} : ehFrames[n] # {} => TrueBase(n) # base
  BY <1>1, BasesApart DEF IInv, FramesInPage, TableOf, Live
<1>9. /\ imageMap \in [Addresses -> SUBSET Extent]
      /\ table \in [addr : Addresses, functions : SUBSET Extent]
      /\ ehFrames' \in [Managers -> SUBSET [addr : Addresses, functions : SUBSET Extent]]
  <2>1. table \in [addr : Addresses, functions : SUBSET Extent]
    BY <1>3, <1>4
  <2> QED
    BY <1>2, <2>1 DEF TypeOK
<1>10. phase' \in [Managers -> {"new", "reserved", "finalized", "removed"}]
       /\ imageBase' \in [Managers -> Addresses \cup {0}]
  BY <1>1, <1>2 DEF TypeOK
\* What was owned still is: the new image had no table before.
<1>11. \A a, r : Owned(a, r) => Owned(a, r)'
  <2>1. TAKE a, r
  <2>2. HAVE Owned(a, r)
  <2>3. PICK n \in Managers : \E t \in ehFrames[n] :
               a = TrueBase(n) /\ r = Covering(t.functions)
    BY <2>2 DEF Owned
  <2>4. n # m
    BY <1>1, <2>3
  <2> QED
    BY <1>5, <1>6, <2>3, <2>4 DEF Owned, Covering
<1>12. CASE /\ ~(Debug /\ (imageMap[base] # {}
                            \/ [imageMap EXCEPT ![base] = @ \cup {range}][table.addr] # {}))
            /\ imageMap' = [imageMap EXCEPT ![base] = @ \cup {range}]
            /\ tables' = tables \cup {table.addr} /\ status' = status
  <2>1. /\ imageMap'[base] = imageMap[base] \cup {range}
        /\ \A a \in Addresses \ {base} : imageMap'[a] = imageMap[a]
        /\ imageMap' \in [Addresses -> SUBSET Extent]
    BY <1>1, <1>4, <1>9, <1>12
  <2>2. TypeOK'
    BY <1>1, <1>2, <1>3, <1>9, <1>10, <1>12, <2>1 DEF TypeOK
  <2>3. Debug => imageMap[base] = {}
    BY <1>12
  <2>4. RangesKept'
    <3>1. ASSUME NEW n \in Managers, NEW t \in ehFrames'[n]
          PROVE  /\ Covering(t.functions) \in imageMap'[TrueBase(n)]
                 /\ Debug => imageMap'[TrueBase(n)] = {Covering(t.functions)}
      <4>1. CASE n = m
        BY <1>3, <1>6, <2>1, <2>3, <3>1, <4>1
      <4>2. CASE n # m
        <5>1. t \in ehFrames[n] /\ TrueBase(n) # base /\ TrueBase(n) \in Addresses
          <6>1. t \in ehFrames[n] /\ TrueBase(n) # base
            BY <1>6, <1>8, <3>1, <4>2
          <6>2. code[n] \in Pages /\ data[n] \in Pages
            BY <6>1 DEF IInv, FramesInPage, TableOf, PagesHeld, Live
          <6> QED
            BY <6>1, <6>2, BaseIsABlock DEF TrueBase
        <5>2. imageMap'[TrueBase(n)] = imageMap[TrueBase(n)]
          BY <2>1, <5>1
        <5> QED
          BY <1>1, <5>1, <5>2 DEF IInv, RangesKept
      <4> QED
        BY <4>1, <4>2
    <3> QED
      BY <1>5, <3>1 DEF RangesKept, Covering
  <2>5. RangesOwned'
    <3>1. ASSUME NEW a \in Addresses, NEW r \in imageMap'[a]
          PROVE  Owned(a, r)' \/ a \in former'
      <4>1. CASE a = base /\ r = range
        BY <1>3, <1>5, <1>6, <4>1 DEF Owned, Covering
      <4>2. CASE r \in imageMap[a]
        BY <1>1, <1>11, <3>1, <4>2 DEF IInv, RangesOwned
      <4> QED
        BY <2>1, <3>1, <4>1, <4>2
    <3> QED
      BY <1>1, <3>1 DEF IInv, RangesOwned
  <2>6. AssertHasCause'
    BY <1>1, <1>12 DEF AssertHasCause
  <2> QED
    BY <1>1, <1>7, <2>2, <2>4, <2>5, <2>6 DEF IInv
<1>13. CASE /\ Debug /\ (imageMap[base] # {}
                          \/ [imageMap EXCEPT ![base] = @ \cup {range}][table.addr] # {})
            /\ status' = "assert" /\ imageMap' = imageMap /\ tables' = tables
  <2>1. TypeOK'
    BY <1>1, <1>2, <1>9, <1>10, <1>13 DEF TypeOK
  <2>2. RangesKept'
    BY <1>13 DEF RangesKept
  <2>3. RangesOwned'
    BY <1>1, <1>13, <1>11 DEF IInv, RangesOwned
  <2>4. AssertHasCause'
    <3> SUFFICES ASSUME {base, table.addr} \cap former = {}, table.addr # base PROVE FALSE
      BY <1>1, <1>5, <1>6 DEF AssertHasCause
    <3>1. imageMap[base] # {} \/ imageMap[table.addr] # {}
      BY <1>1, <1>3, <1>9, <1>13
    <3>2. PICK a \in {base, table.addr} : imageMap[a] # {}
      BY <3>1
    <3>3. PICK n \in Managers : ehFrames[n] # {} /\ a = TrueBase(n)
      BY <1>1, <1>3, <3>2 DEF IInv, RangesOwned, Owned
    <3>4. n # m /\ Live(n) /\ Live(m)
      BY <1>1, <3>3 DEF IInv, FramesInPage, TableOf, Live
    <3>5. a # base
      BY <1>8, <3>3, <3>4
    <3>6. Address(data[m], o) # TrueBase(n)
      BY <1>3, <3>4, NoBaseInForeignPage DEF IInv
    <3> QED
      BY <1>3, <3>2, <3>3, <3>5, <3>6
  <2> QED
    BY <1>1, <1>7, <2>1, <2>2, <2>3, <2>4 DEF IInv
<1> QED
  BY <1>1, <1>12, <1>13 DEF RegisterEHFrames

LEMMA FinalizeKeeps ==
  ASSUME IInv, NEW m \in Managers, FinalizeMemory(m)
  PROVE  IInv'
<1>1. CASE /\ status' = status /\ ehFrames' = ehFrames /\ imageMap' = imageMap
           /\ tables' = tables
  <2>1. /\ status = "ok" /\ ehFrames[m] = {}
        /\ phase' = [phase EXCEPT ![m] = "finalized"]
        /\ imageBase' = [imageBase EXCEPT ![m] = 0]
        /\ code' = code /\ data' = data
        /\ PagesHeld' /\ BaseUntilFinal' /\ Removed' = Removed /\ former' = former
    BY FinalizeCommon
  <2>2. TypeOK'
    BY <1>1, <2>1 DEF IInv, TypeOK
  <2>3. \A n \in Managers : ehFrames[n] # {} => phase'[n] = phase[n]
    BY <2>1 DEF IInv, TypeOK
  <2>4. FramesInPage'
    BY <1>1, <2>1, <2>3 DEF IInv, FramesInPage, TableOf
  <2>5. RangesKept' /\ RangesOwned' /\ AssertHasCause'
    BY <1>1, <2>1 DEF IInv, RangesKept, RangesOwned, Owned, AssertHasCause, TrueBase
  <2> QED
    BY <2>1, <2>2, <2>4, <2>5 DEF IInv
<1>2. CASE \E functions \in CodeIn(code[m]), o \in TableOffsets :
             LET table == [addr |-> Address(data[m], o), functions |-> functions]
             IN /\ ehFrames' = [ehFrames EXCEPT ![m] = {table}]
                /\ RegisterEHFrames(imageBase[m], table.addr, functions)
  BY <1>2, FinalizeWithTable
<1> QED
  BY <1>1, <1>2 DEF FinalizeMemory

LEMMA IInvStep == IInv /\ [Next]_vars => IInv'
<1> SUFFICES ASSUME IInv, [Next]_vars PROVE IInv'
  OBVIOUS
<1>1. CASE UNCHANGED vars
  <2>1. TypeOK' /\ PagesHeld' /\ BaseUntilFinal' /\ FramesInPage'
    BY <1>1 DEF vars, IInv, TypeOK, PagesHeld, BaseUntilFinal, FramesInPage, TableOf,
                Live, TrueBase
  <2>2. RangesKept' /\ RangesOwned' /\ AssertHasCause'
    BY <1>1 DEF vars, IInv, RangesKept, RangesOwned, Owned, AssertHasCause, Removed,
                TrueBase
  <2> QED
    BY <2>1, <2>2 DEF IInv
<1>2. ASSUME NEW m \in Managers, NEW c \in Pages, NEW d \in Pages, Reserve(m, c, d)
      PROVE  IInv'
  BY <1>2, ReserveKeeps
<1>3. ASSUME NEW m \in Managers, FinalizeMemory(m) PROVE IInv'
  BY <1>3, FinalizeKeeps
<1>4. ASSUME NEW m \in Managers, Remove(m) PROVE IInv'
  BY <1>4, RemoveKeeps
<1> QED
  BY <1>1, <1>2, <1>3, <1>4 DEF Next, Aborted, Idle

\* What the handler recorded of each object stays true whatever other objects do:
\* the ranges of the static map are those of the images that registered them.
THEOREM Invariance == Spec => []IInv
<1> QED
  BY InitHolds, IInvStep, PTL DEF Spec

-----------------------------------------------------------------------------
\* Who is throwing

\* A return address in an image is in its code page and in its range.
LEMMA CallerInRange ==
  ASSUME IInv, NEW m \in Managers, NEW a \in Callers(m)
  PROVE  \E t \in ehFrames[m] :
           /\ TableOf(m, t) /\ code[m] \in Pages /\ Live(m) /\ a \in Addresses
           /\ In(code[m], a)
           /\ Covering(t.functions).first <= a /\ a <= Covering(t.functions).last
<1>1. PICK t \in ehFrames[m] : \E r \in t.functions : r.first < a /\ a <= r.last
  BY DEF Callers
<1>2. PICK r \in t.functions : r.first < a /\ a <= r.last
  BY <1>1
<1>3. TableOf(m, t) /\ Live(m) /\ code[m] \in Pages /\ t.functions \in CodeIn(code[m])
  BY DEF IInv, FramesInPage, TableOf, PagesHeld, Live
<1> DEFINE range == Covering(t.functions)
<1>5. /\ range \in Extent /\ In(code[m], range.first) /\ In(code[m], range.last)
      /\ r \in Extent /\ range.first <= r.first /\ r.last <= range.last
  BY <1>3, CoveringCovers
<1> HIDE DEF range
<1>6. a \in Addresses
  BY DEF Callers
<1>7. /\ a \in Nat /\ r.first \in Nat /\ r.last \in Nat
      /\ range.first \in Nat /\ range.last \in Nat
  BY <1>5, <1>6, AddressesArePositive DEF Extent
<1>8. range.first <= a /\ a <= range.last
  BY <1>2, <1>5, <1>7
<1>9. In(code[m], a)
  <2>1. Address(code[m], 0) \in Int /\ Address(code[m], PageSize) \in Int
    BY <1>3, PageBounds
  <2> QED
    BY <1>5, <1>7, <1>8, <2>1 DEF In
<1> QED
  BY <1>3, <1>6, <1>8, <1>9 DEF range

\* Nothing in another live image's range has its address.
LEMMA RangeIsOwn ==
  ASSUME IInv, NEW m \in Managers, NEW a \in Callers(m), NEW n \in Managers,
         NEW t \in ehFrames[n],
         Covering(t.functions).first <= a, a <= Covering(t.functions).last
  PROVE  m = n
<1>1. Live(m) /\ code[m] \in Pages /\ a \in Addresses /\ In(code[m], a)
  BY CallerInRange
<1>2. Live(n) /\ code[n] \in Pages /\ t.functions \in CodeIn(code[n])
  BY DEF IInv, FramesInPage, TableOf, PagesHeld, Live
<1>3. PICK range \in Extent : range = Covering(t.functions)
  BY <1>2, CoveringCovers
<1>4. In(code[n], range.first) /\ In(code[n], range.last)
  BY <1>2, <1>3, CoveringCovers
<1>5. a \in Nat /\ range.first \in Nat /\ range.last \in Nat
  BY <1>1, AddressesArePositive DEF Extent
<1>6. Address(code[n], 0) \in Int /\ Address(code[n], PageSize) \in Int
  BY <1>2, PageBounds
<1>7. In(code[n], a)
  BY <1>3, <1>4, <1>5, <1>6 DEF In
<1>8. code[m] = code[n]
  BY <1>1, <1>2, <1>5, <1>7, PagesApart
<1> QED
  BY <1>1, <1>2, <1>8 DEF IInv, PagesHeld

\* The addresses under which FindEHFrame finds the caller
Hits(caller) == { b \in Addresses : \E r \in imageMap[b] :
                                      r.first <= caller /\ caller <= r.last }

LEMMA Found ==
  ASSUME NEW caller
  PROVE  IF Hits(caller) = {} THEN FindEHFrame(caller) = 0
         ELSE FindEHFrame(caller) \in Hits(caller)
<1>1. Hits(caller) \in SUBSET Nat
  BY AddressesArePositive DEF Hits
<1>2. Hits(caller) # {} => Min(Hits(caller)) \in Hits(caller)
  BY <1>1, MinIsLeast
<1> QED
  BY <1>2 DEF FindEHFrame, Hits

LEMMA LiveImageHits ==
  ASSUME IInv, status = "ok", NEW m \in Managers, NEW a \in Callers(m)
  PROVE  TrueBase(m) \in Hits(a)
<1>1. PICK t \in ehFrames[m] : /\ TableOf(m, t) /\ Live(m)
                               /\ Covering(t.functions).first <= a
                               /\ a <= Covering(t.functions).last
  BY CallerInRange
<1>2. Covering(t.functions) \in imageMap[TrueBase(m)]
  BY <1>1 DEF IInv, RangesKept
<1>3. code[m] \in Pages /\ data[m] \in Pages
  BY <1>1 DEF IInv, PagesHeld
<1>4. TrueBase(m) \in Addresses
  BY <1>3, BaseIsABlock DEF TrueBase
<1> QED
  BY <1>1, <1>2, <1>4 DEF Hits

\* The types, for any memory and any number of objects.
THEOREM TypeCorrect == Spec => []TypeOK
<1>1. IInv => TypeOK
  BY DEF IInv
<1> QED
  BY <1>1, Invariance, PTL

\* An assertion of the handler never fails without one of its two causes: a base
\* left behind by a removed image, or a table at the image base.
THEOREM AssertionsHaveCauses == Spec => []AssertHasCause
<1>1. IInv => AssertHasCause
  BY DEF IInv
<1> QED
  BY <1>1, Invariance, PTL

\* Whatever was loaded, finalized and removed before, RaiseSEHException finds an
\* image for every exception of live compiled code, with assertions and without.
THEOREM NoThrowIsLost == Spec => []LiveCodeIsFound
<1>1. IInv => LiveCodeIsFound
  <2> SUFFICES ASSUME IInv, status = "ok", NEW m \in Managers, NEW a \in Callers(m)
               PROVE  FindEHFrame(a) # 0
    BY DEF LiveCodeIsFound
  <2>1. FindEHFrame(a) \in Hits(a)
    BY LiveImageHits, Found
  <2> QED
    BY <2>1, AddressesArePositive DEF Hits
<1> QED
  BY <1>1, Invariance, PTL

\* Until an object is removed, the image found is the one that throws.
THEOREM ThrowsAreOwn == Spec => []ThrowsFromOwnImage
<1>1. IInv => ThrowsFromOwnImage
  <2> SUFFICES ASSUME IInv, status = "ok", Removed = {},
                      NEW m \in Managers, NEW a \in Callers(m)
               PROVE  FindEHFrame(a) = TrueBase(m)
    BY DEF ThrowsFromOwnImage
  <2>1. TrueBase(m) \in Hits(a)
    BY LiveImageHits
  <2>2. ASSUME NEW b \in Hits(a) PROVE b = TrueBase(m)
    <3>1. PICK r \in imageMap[b] : r.first <= a /\ a <= r.last
      BY <2>2 DEF Hits
    <3>2. PICK n \in Managers : \E t \in ehFrames[n] :
                 b = TrueBase(n) /\ r = Covering(t.functions)
      BY <2>2, <3>1 DEF IInv, RangesOwned, Owned, Hits
    <3>3. m = n
      BY <3>1, <3>2, RangeIsOwn
    <3> QED
      BY <3>2, <3>3
  <2> QED
    BY <2>1, <2>2, Found
<1> QED
  BY <1>1, Invariance, PTL

\* With assertions, a throw is never attributed to another live image.
THEOREM NoThrowIsAnothers == Spec => []NotTakenForAnotherImage
<1>1. IInv => NotTakenForAnotherImage
  <2> SUFFICES ASSUME IInv, Debug, status = "ok", NEW m \in Managers,
                      NEW other \in Registered \ {m}, NEW a \in Callers(m),
                      FindEHFrame(a) = TrueBase(other)
               PROVE  FALSE
    BY DEF NotTakenForAnotherImage
  <2>1. FindEHFrame(a) \in Hits(a)
    BY LiveImageHits, Found
  <2>2. PICK r \in imageMap[TrueBase(other)] : r.first <= a /\ a <= r.last
    BY <2>1 DEF Hits
  <2>3. other \in Managers /\ other # m
    BY DEF Registered
  <2>4. PICK t \in ehFrames[other] : TRUE
    BY DEF Registered
  <2>5. r = Covering(t.functions)
    BY <2>2, <2>3, <2>4 DEF IInv, RangesKept
  <2> QED
    BY <2>2, <2>3, <2>4, <2>5, RangeIsOwn
<1> QED
  BY <1>1, Invariance, PTL
=============================================================================

------------------------ MODULE SectionBlocksProofs ------------------------
(***************************************************************************)
(* Whatever sections an object has, they fit into what was reserved: each  *)
(* section starts no later than the next multiple of its block's greatest  *)
(* alignment, and from there on there is room for all sections to come.    *)
(***************************************************************************)
EXTENDS SectionBlocks, LeastElements

\* Products keep the order of their factors.
LEMMA TimesMonotone ==
  ASSUME NEW i \in Int, NEW k \in Int, i <= k, NEW n \in Nat
  PROVE  i * n <= k * n
<1>1. k * n = i * n + (k - i) * n /\ (k - i) * n \in Int
  OBVIOUS
<1>2. (k - i) \in Nat
  OBVIOUS
<1>3. (k - i) * n >= 0
  BY <1>2
<1>4. i * n \in Int /\ k * n \in Int
  OBVIOUS
<1> QED
  BY <1>1, <1>3, <1>4

\* Rounding up gives a multiple, less than the alignment away.
LEMMA AlignUpIsNear ==
  ASSUME NEW x \in Nat, NEW a \in Nat \ {0}
  PROVE  /\ AlignUp(x, a) \in Nat
         /\ x <= AlignUp(x, a) /\ AlignUp(x, a) < x + a
         /\ \E k \in Nat : AlignUp(x, a) = k * a
<1> DEFINE q == (x + a - 1) \div a
           r == (x + a - 1) % a
<1>1. x + a - 1 \in Nat
  OBVIOUS
<1>2. q \in Int /\ r \in 0..(a - 1) /\ x + a - 1 = a * q + r
  BY <1>1
<1>3. q \in Nat
  BY <1>1
<1>4. AlignUp(x, a) = q * a
  BY DEF AlignUp
<1>5. q * a = a * q /\ q * a \in Nat
  BY <1>3
<1> HIDE DEF q, r
<1> QED
  BY <1>2, <1>3, <1>4, <1>5

\* Rounding up gives the least multiple.
LEMMA AlignUpIsLeast ==
  ASSUME NEW x \in Nat, NEW a \in Nat \ {0}, NEW k \in Nat, x <= k * a
  PROVE  AlignUp(x, a) <= k * a
<1>1. PICK q \in Nat : AlignUp(x, a) = q * a
  BY AlignUpIsNear
<1>2. q * a < k * a + a /\ q * a \in Nat /\ k * a \in Nat
  <2>1. q * a \in Nat /\ k * a \in Nat
    OBVIOUS
  <2>2. q * a < x + a
    BY <1>1, AlignUpIsNear
  <2> QED
    BY <2>1, <2>2
<1>3. q <= k
  <2>1. SUFFICES ASSUME k + 1 <= q PROVE FALSE
    OBVIOUS
  <2>2. (k + 1) * a <= q * a
    BY <2>1, TimesMonotone
  <2>3. (k + 1) * a = k * a + a
    OBVIOUS
  <2> QED
    BY <1>2, <2>2, <2>3
<1> QED
  BY <1>1, <1>3, TimesMonotone

\* Divides is being a multiple.
LEMMA DividesMeansMultiple ==
  ASSUME NEW a \in Nat \ {0}, NEW b \in Nat
  PROVE  Divides(a, b) <=> \E k \in Nat : b = k * a
<1>1. ASSUME NEW k \in Nat, b = k * a PROVE k <= b
  <2>1. PICK j \in Nat : a = j + 1
    <3>1. a - 1 \in Nat /\ a = (a - 1) + 1
      OBVIOUS
    <3> QED
      BY <3>1
  <2>2. k * a = k * j + k /\ k * j \in Nat
    BY <2>1
  <2> QED
    BY <1>1, <2>2
<1>2. ASSUME NEW k \in Nat, b = k * a PROVE k \in 0..b
  BY <1>1, <1>2
<1> QED
  BY <1>2 DEF Divides

\* A block's alignment rounds no less than that of one of its sections.
LEMMA CoarserRoundsFurther ==
  ASSUME NEW x \in Nat, NEW a \in Nat \ {0}, NEW b \in Nat \ {0}, Divides(a, b)
  PROVE  AlignUp(x, a) <= AlignUp(x, b)
<1>1. PICK m \in Nat : b = m * a
  BY DividesMeansMultiple
<1>2. PICK k \in Nat : AlignUp(x, b) = k * b
  BY AlignUpIsNear
<1>3. PICK n \in Nat : n * a = k * b
  <2>1. k * b = (k * m) * a /\ k * m \in Nat
    BY <1>1
  <2> QED
    BY <2>1
<1>4. x <= n * a
  BY <1>2, <1>3, AlignUpIsNear
<1>5. AlignUp(x, a) <= n * a
  BY <1>4, AlignUpIsLeast
<1> QED
  BY <1>2, <1>3, <1>5

\* After a section, what is still to come starts where the rounded size of the
\* section ends, or before.
LEMMA NextFits ==
  ASSUME NEW x \in Nat, NEW size \in Nat, NEW a \in Nat \ {0}, NEW b \in Nat \ {0},
         Divides(a, b)
  PROVE  /\ AlignUp(x, a) + size <= AlignUp(x, b) + AlignUp(size, b)
         /\ AlignUp(AlignUp(x, a) + size, b) <= AlignUp(x, b) + AlignUp(size, b)
<1>1. AlignUp(x, a) <= AlignUp(x, b) /\ AlignUp(x, a) \in Nat
  BY CoarserRoundsFurther, AlignUpIsNear
<1>2. PICK i \in Nat : AlignUp(x, b) = i * b
  BY AlignUpIsNear
<1>3. PICK j \in Nat : AlignUp(size, b) = j * b
  BY AlignUpIsNear
<1>4. size <= AlignUp(size, b)
  BY AlignUpIsNear
<1>5. (i + j) * b = i * b + j * b /\ i * b \in Nat /\ j * b \in Nat /\ i + j \in Nat
  OBVIOUS
<1>6. AlignUp(x, a) + size <= (i + j) * b
  BY <1>1, <1>2, <1>3, <1>4, <1>5
<1>7. AlignUp(AlignUp(x, a) + size, b) <= (i + j) * b
  <2>1. AlignUp(x, a) + size \in Nat
    BY <1>1
  <2> QED
    BY <1>5, <1>6, <2>1, AlignUpIsLeast
<1> QED
  BY <1>2, <1>3, <1>5, <1>6, <1>7

-----------------------------------------------------------------------------
LEMMA InitIsInductive == Init => Inductive
<1> SUFFICES ASSUME Init PROVE Inductive
  OBVIOUS
<1>1. TypeOK
  BY BlocksAssumption DEF Init, TypeOK
<1>2. Room /\ Passed /\ SectionsApart
  BY DEF Init, Room, Passed, SectionsApart
<1>3. Reserved
  BY DEF Init, Reserved
<1> QED
  BY <1>1, <1>2, <1>3 DEF Inductive

\* What can be chosen for a block.
LEMMA ChoicesAreNumbers ==
  /\ Spacing \in Nat
  /\ \A x \in Bases \cup {0} : x \in Nat
  /\ \A x \in Totals : x \in 0..Spacing /\ x \in Nat
  /\ \A x \in Alignments : x \in Nat \ {0}
  BY BlocksAssumption

\* A block just reserved is empty, and its start needs no rounding.
LEMMA ReserveKeepsInductive ==
  ASSUME Inductive, NEW at \in [Blocks -> Bases \cup {0}], NEW size \in [Blocks -> Totals],
         NEW alignment \in [Blocks -> Alignments], Reserve(at, size, alignment),
         sections = {}
  PROVE  Inductive' /\ status' # "out of bounds"
<1>a. /\ \A b \in Blocks : Divides(alignment[b], at[b])
      /\ \A b, c \in Blocks : at[b] = at[c] => b = c \/ at[b] = 0
      /\ base' = at /\ align' = alignment /\ budget' = size /\ addr' = at
      /\ end' = [b \in Blocks |-> IF at[b] # 0 THEN at[b] + size[b] ELSE 0]
      /\ debug' = debug /\ sections' = {}
  BY DEF Reserve, End
<1>b. /\ status' \in {"ok", "bad allocation"}
      /\ status' = "ok" => \A b \in Blocks : at[b] = 0 => ~debug
  BY DEF Reserve
<1>1. \A b \in Blocks : at[b] \in Nat /\ size[b] \in 0..Spacing /\ size[b] \in Nat
                        /\ alignment[b] \in Nat \ {0} /\ Spacing \in Nat
  BY ChoicesAreNumbers
<1>2. \A b \in Blocks : end'[b] = IF at[b] # 0 THEN at[b] + size[b] ELSE 0
  BY <1>a
<1>3. TypeOK'
  <2>1. \A b \in Blocks : end'[b] \in Nat
    BY <1>1, <1>2
  <2>2. end' \in [Blocks -> Nat] /\ addr' \in [Blocks -> Nat] /\ budget' \in [Blocks -> Nat]
    BY <1>a, <1>1, <2>1
  <2>3. align' \in [Blocks -> Nat \ {0}] /\ base' \in [Blocks -> Bases \cup {0}]
    BY <1>a, <1>1
  <2>4. status' \in {"ok", "bad allocation"} /\ debug' \in BOOLEAN /\ sections' = {}
    BY <1>a, <1>b DEF Inductive, TypeOK
  <2> QED
    BY <2>2, <2>3, <2>4 DEF TypeOK
<1>4. ASSUME NEW b \in Blocks PROVE AlignUp(at[b], alignment[b]) = at[b]
  <2> DEFINE x == at[b]
             a == alignment[b]
  <2>0. x \in Nat /\ a \in Nat \ {0} /\ Divides(a, x)
    BY <1>a, <1>1
  <2> HIDE DEF x, a
  <2>1. PICK k \in Nat : x = k * a
    BY <2>0, DividesMeansMultiple
  <2>2. AlignUp(x, a) <= k * a
    BY <2>0, <2>1, AlignUpIsLeast
  <2>3. AlignUp(x, a) = x
    <3>1. AlignUp(x, a) <= x
      BY <2>1, <2>2
    <3>2. x <= AlignUp(x, a) /\ AlignUp(x, a) \in Nat
      BY <2>0, AlignUpIsNear
    <3> QED
      BY <2>0, <3>1, <3>2
  <2> QED
    BY <2>3 DEF x, a
<1>5. Room'
  <2>1. SUFFICES ASSUME status' = "ok", NEW b \in Blocks
                 PROVE  /\ align'[b] \in Alignments
                        /\ base'[b] = 0 => ~debug' /\ addr'[b] = 0
                        /\ base'[b] # 0 =>
                             /\ base'[b] <= addr'[b]
                             /\ AlignUp(addr'[b], align'[b]) + budget'[b] <= end'[b]
    BY DEF Room
  <2>2. base'[b] = at[b] /\ align'[b] = alignment[b] /\ budget'[b] = size[b]
        /\ addr'[b] = at[b] /\ end'[b] = IF at[b] # 0 THEN at[b] + size[b] ELSE 0
    BY <1>a
  <2>3. at[b] = 0 => ~debug'
    BY <1>a, <1>b, <2>1
  <2>4. base'[b] = 0 => ~debug' /\ addr'[b] = 0
    BY <2>2, <2>3
  <2>5. align'[b] \in Alignments
    BY <2>2
  <2>6. base'[b] # 0 => /\ base'[b] <= addr'[b]
                        /\ AlignUp(addr'[b], align'[b]) + budget'[b] <= end'[b]
    BY <1>1, <1>4, <2>2
  <2> QED
    BY <2>4, <2>5, <2>6
<1>6. Reserved'
  BY <1>a, <1>1, <1>2 DEF Reserved
<1>7. Passed' /\ SectionsApart'
  BY <1>a DEF Passed, SectionsApart
<1> QED
  BY <1>b, <1>3, <1>5, <1>6, <1>7 DEF Inductive

\* A section placed between Addr and End of its block.
LEMMA PlaceKeepsInductive ==
  ASSUME Inductive, status = "ok", status' = "ok",
         NEW b \in Blocks, base[b] # 0,
         NEW out \in Nat, addr[b] <= out,
         NEW size \in Nat, NEW alignment \in Nat \ {0}, Divides(alignment, out),
         NEW rounded \in Nat, rounded <= budget[b],
         out + size <= AlignUp(addr[b], align[b]) + rounded,
         AlignUp(out + size, align[b]) <= AlignUp(addr[b], align[b]) + rounded,
         sections' = sections \cup {[ block |-> b, first |-> out, size |-> size,
                                      alignment |-> alignment ]},
         addr' = [addr EXCEPT ![b] = out + size],
         budget' = [budget EXCEPT ![b] = @ - rounded],
         UNCHANGED <<debug, base, align, end>>
  PROVE  Inductive' /\ out + size <= end[b]
<1> DEFINE new == [ block |-> b, first |-> out, size |-> size, alignment |-> alignment ]
<1>1. /\ align[b] \in Nat \ {0} /\ addr[b] \in Nat /\ end[b] \in Nat
      /\ base[b] \in Nat /\ budget[b] \in Nat
  BY BlocksAssumption DEF Inductive, TypeOK
<1>2. base[b] <= addr[b] /\ AlignUp(addr[b], align[b]) + budget[b] <= end[b]
  BY DEF Inductive, Room
<1>3. AlignUp(addr[b], align[b]) \in Nat /\ AlignUp(out + size, align[b]) \in Nat
  BY <1>1, AlignUpIsNear
<1>4. out + size <= end[b] /\ base[b] <= out
  BY <1>1, <1>2, <1>3
<1>5. addr'[b] = out + size /\ budget'[b] = budget[b] - rounded
  BY DEF Inductive, TypeOK
<1>6. \A c \in Blocks : c # b => addr'[c] = addr[c] /\ budget'[c] = budget[c]
  BY DEF Inductive, TypeOK
<1>7. TypeOK'
  <2>1. out + size \in Nat /\ budget[b] - rounded \in Nat
    BY <1>1
  <2> QED
    BY <2>1 DEF Inductive, TypeOK
<1>8. Room'
  <2>1. AlignUp(out + size, align[b]) + (budget[b] - rounded) <= end[b]
    BY <1>1, <1>2, <1>3
  <2>2. base[b] <= out + size
    BY <1>1, <1>4
  <2> QED
    BY <1>5, <1>6, <2>1, <2>2 DEF Inductive, Room
<1>9. Reserved'
  BY DEF Inductive, Reserved
<1>10. Passed'
  <2>1. ASSUME NEW s \in sections PROVE s.first + s.size <= addr'[s.block]
    <3>1. /\ s.block \in Blocks /\ s.first \in Nat /\ s.size \in Nat
          /\ s.first + s.size <= addr[s.block]
      BY DEF Inductive, TypeOK, Passed
    <3>2. addr[b] <= out + size
      BY <1>1
    <3> QED
      BY <1>1, <1>5, <1>6, <3>1, <3>2
  <2>2. new.first + new.size <= addr'[new.block]
    BY <1>5
  <2> QED
    BY <2>1, <2>2 DEF Passed
<1>11. SectionsApart'
  <2>1. ASSUME NEW s \in sections
        PROVE s.first + s.size <= out \/ out + size <= s.first
    <3>1. PICK c \in Blocks : c = s.block
      BY DEF Inductive, TypeOK
    <3>2. /\ base[c] # 0 /\ s.first \in Nat /\ s.size \in Nat
          /\ base[c] <= s.first /\ s.first + s.size <= end[c]
          /\ s.first + s.size <= addr[c]
      BY <3>1 DEF Inductive, TypeOK, SectionsApart, Passed
    <3>3. CASE c = b
      BY <1>1, <3>2, <3>3
    <3>4. CASE c # b
      <4>1. end[c] <= base[c] + Spacing /\ end[b] <= base[b] + Spacing /\ base[b] # base[c]
        BY <3>2, <3>4 DEF Inductive, Reserved
      <4>2. base[c] \in Bases /\ base[b] \in Bases /\ end[c] \in Nat
        BY <3>2 DEF Inductive, TypeOK
      <4>3. base[c] \in Nat /\ Spacing \in Nat
        BY <4>2, BlocksAssumption
      <4>4. base[b] < base[c] \/ base[c] < base[b]
        BY <1>1, <4>1, <4>3
      <4>5. base[c] + Spacing <= base[b] \/ base[b] + Spacing <= base[c]
        BY <4>2, <4>4, BlocksAssumption
      <4> QED
        BY <1>1, <1>4, <3>2, <4>1, <4>2, <4>3, <4>5
    <3> QED
      BY <3>3, <3>4
  <2>2. ASSUME NEW s \in sections' PROVE s \in sections \/ s = new
    BY <2>2
  <2>3. ASSUME NEW s \in sections'
        PROVE /\ Divides(s.alignment, s.first) /\ base[s.block] # 0
              /\ base[s.block] <= s.first /\ s.first + s.size <= end[s.block]
    <3>1. CASE s \in sections
      BY <3>1 DEF Inductive, SectionsApart
    <3>2. CASE s = new
      BY <1>4, <3>2
    <3> QED
      BY <2>2, <2>3, <3>1, <3>2
  <2>4. ASSUME NEW s \in sections', NEW t \in sections'
        PROVE s = t \/ s.first + s.size <= t.first \/ t.first + t.size <= s.first
    <3>1. CASE s \in sections /\ t \in sections
      BY <3>1 DEF Inductive, SectionsApart
    <3>2. CASE s \in sections /\ t = new
      BY <2>1, <3>2
    <3>3. CASE s = new /\ t \in sections
      BY <2>1, <3>3
    <3> QED
      BY <2>2, <2>4, <3>1, <3>2, <3>3
  <2> QED
    BY <2>3, <2>4 DEF SectionsApart
<1> QED
  BY <1>4, <1>7, <1>8, <1>9, <1>10, <1>11 DEF Inductive

\* What allocating a section does, once it is known where the section goes.
LEMMA AllocateKeepsInductive ==
  ASSUME Inductive, NEW b \in Blocks, NEW size \in Sizes, NEW alignment \in Alignments,
         AllocateSection(b, size, alignment)
  PROVE  Inductive' /\ status' # "out of bounds"
<1>1. PICK out : out = Out(b, alignment)
  OBVIOUS
<1>2. PICK rounded : rounded = Rounded(b, size)
  OBVIOUS
<1>3. /\ status = "ok" /\ alignment <= align[b] /\ rounded <= budget[b]
      /\ UNCHANGED <<debug, base, align, end>>
      /\ budget' = [budget EXCEPT ![b] = @ - rounded]
  BY <1>1, <1>2 DEF AllocateSection
<1>4. ~(debug /\ out + size > end[b]) =>
        /\ status' = IF out = 0 THEN "fatal" ELSE "ok"
        /\ addr' = [addr EXCEPT ![b] = out + size]
        /\ sections' = IF out = 0 THEN sections
                       ELSE sections \cup {[ block |-> b, first |-> out, size |-> size,
                                             alignment |-> alignment ]}
  BY <1>1 DEF AllocateSection
<1>5. /\ alignment \in Nat \ {0} /\ align[b] \in Nat \ {0} /\ size \in Nat
      /\ Divides(alignment, align[b])
      /\ addr[b] \in Nat /\ end[b] \in Nat /\ base[b] \in Nat /\ budget[b] \in Nat
  BY <1>3, BlocksAssumption DEF Inductive, TypeOK, Room
<1>6. out = AlignUp(addr[b], alignment) /\ out \in Nat /\ addr[b] <= out
  BY <1>1, <1>5, AlignUpIsNear DEF Out
<1>7. Divides(alignment, out)
  BY <1>5, <1>6, AlignUpIsNear, DividesMeansMultiple
<1>8. rounded = AlignUp(size, align[b]) /\ rounded \in Nat
  BY <1>2, <1>5, AlignUpIsNear DEF Rounded
<1>9. /\ out + size <= AlignUp(addr[b], align[b]) + rounded
      /\ AlignUp(out + size, align[b]) <= AlignUp(addr[b], align[b]) + rounded
  BY <1>5, <1>6, <1>8, NextFits
<1>10. CASE base[b] = 0
  <2>1. ~debug /\ addr[b] = 0
    BY <1>3, <1>10 DEF Inductive, Room
  <2>2. out = 0
    <3>1. addr[b] <= 0 * alignment /\ 0 * alignment = 0
      BY <1>5, <2>1
    <3>2. AlignUp(addr[b], alignment) <= 0 * alignment
      BY <1>5, <3>1, AlignUpIsLeast
    <3> QED
      BY <1>6, <3>1, <3>2
  <2>3. /\ status' = "fatal" /\ sections' = sections
        /\ addr' = [addr EXCEPT ![b] = out + size]
    BY <1>4, <2>1, <2>2
  <2>4. TypeOK'
    <3>1. out + size \in Nat /\ budget[b] - rounded \in Nat
      BY <1>3, <1>5, <1>6, <1>8
    <3> QED
      BY <1>3, <2>3, <3>1 DEF Inductive, TypeOK
  <2>5. Room' /\ Reserved' /\ SectionsApart'
    BY <1>3, <2>3 DEF Inductive, Room, Reserved, SectionsApart
  <2>6. Passed'
    <3>1. \A s \in sections : s.block # b /\ s.block \in Blocks
      BY <1>10 DEF Inductive, TypeOK, SectionsApart
    <3> QED
      BY <2>3, <3>1 DEF Inductive, TypeOK, Passed
  <2> QED
    BY <2>3, <2>4, <2>5, <2>6 DEF Inductive
<1>11. CASE base[b] # 0
  <2>1. base[b] <= addr[b] /\ AlignUp(addr[b], align[b]) + budget[b] <= end[b]
    BY <1>3, <1>11 DEF Inductive, Room
  <2>2. out + size <= end[b] /\ out # 0
    <3>1. AlignUp(addr[b], align[b]) \in Nat
      BY <1>5, AlignUpIsNear
    <3> QED
      BY <1>3, <1>5, <1>6, <1>8, <1>9, <1>11, <2>1, <3>1
  <2>3. /\ status' = "ok"
        /\ addr' = [addr EXCEPT ![b] = out + size]
        /\ sections' = sections \cup {[ block |-> b, first |-> out, size |-> size,
                                        alignment |-> alignment ]}
    BY <1>4, <1>5, <1>6, <2>2
  <2>4. Inductive'
    BY <1>3, <1>5, <1>6, <1>7, <1>8, <1>9, <1>11, <2>3, PlaceKeepsInductive
  <2> QED
    BY <2>3, <2>4
<1> QED
  BY <1>10, <1>11

-----------------------------------------------------------------------------
\* Nothing is placed before memory is reserved.
NothingYet == status = "new" => sections = {}

\* What the invariant is for.
LEMMA NextKeepsInductive ==
  ASSUME Inductive, NothingYet, NeverOutOfBounds, [Next]_vars
  PROVE  Inductive' /\ NothingYet' /\ NeverOutOfBounds'
<1>1. ASSUME NEW at \in [Blocks -> Bases \cup {0}], NEW size \in [Blocks -> Totals],
             NEW alignment \in [Blocks -> Alignments], Reserve(at, size, alignment)
      PROVE  Inductive' /\ NothingYet' /\ NeverOutOfBounds'
  <2>1. sections = {}
    BY <1>1 DEF NothingYet, Reserve
  <2>2. status' # "new"
    BY <1>1 DEF Reserve
  <2> QED
    BY <1>1, <2>1, <2>2, ReserveKeepsInductive DEF NothingYet, NeverOutOfBounds
<1>2. ASSUME NEW b \in Blocks, NEW size \in Sizes, NEW alignment \in Alignments,
             AllocateSection(b, size, alignment)
      PROVE  Inductive' /\ NothingYet' /\ NeverOutOfBounds'
  <2>1. status' # "new"
    BY <1>2 DEF AllocateSection
  <2> QED
    BY <1>2, <2>1, AllocateKeepsInductive DEF NothingYet, NeverOutOfBounds
<1>3. CASE UNCHANGED vars
  BY <1>3 DEF vars, Inductive, TypeOK, Room, Reserved, Passed, SectionsApart,
              NothingYet, NeverOutOfBounds
<1> QED
  BY <1>1, <1>2, <1>3 DEF Next, Idle

\* Everything the invariant gives holds of the specification.
LEMMA AlwaysAll == Spec => [](Inductive /\ NothingYet /\ NeverOutOfBounds)
<1> DEFINE Inv == Inductive /\ NothingYet /\ NeverOutOfBounds
<1>1. Init => Inv
  BY InitIsInductive DEF Init, NothingYet, NeverOutOfBounds
<1>2. Inv /\ [Next]_vars => Inv'
  BY NextKeepsInductive
<1> QED
  BY <1>1, <1>2, PTL DEF Spec

\* What reserveAllocationSpace leaves room for is enough after every allocation:
\* the inductive invariant of the three blocks.
THEOREM AlwaysInductive == Spec => []Inductive
  BY AlwaysAll, PTL

\* The assertion "Out of bounds" of Block::Next never fails, for all numbers,
\* sizes and alignments of sections, and wherever the blocks are.
THEOREM SectionsFit == Spec => []NeverOutOfBounds
  BY AlwaysAll, PTL

\* Under the same conditions, with or without assertions, sections are aligned,
\* in their block and apart.
THEOREM SectionsAreApart == Spec => []SectionsApart
<1>1. Inductive => SectionsApart
  BY DEF Inductive
<1> QED
  BY <1>1, AlwaysAll, PTL

-----------------------------------------------------------------------------
\* The image base

\* The first section of a block is where the block begins.
BeginsAtBase(b) ==
  base[b] # 0 => \/ addr[b] = base[b] /\ \A s \in sections : s.block # b
                 \/ \E s \in sections : s.block = b /\ s.first = base[b]

FirstAtBase ==
  /\ status # "new" => imageBase = ImageBase(base)
  /\ \A b \in Blocks : Divides(align[b], base[b]) /\ BeginsAtBase(b)

\* A base that has its block's alignment is not rounded up.
LEMMA AlignedStays ==
  ASSUME NEW x \in Nat, NEW a \in Nat \ {0}, NEW b \in Nat \ {0},
         Divides(a, b), Divides(b, x)
  PROVE  AlignUp(x, a) = x
<1>1. PICK k \in Nat : b = k * a
  BY DividesMeansMultiple
<1>2. PICK l \in Nat : x = l * b
  BY DividesMeansMultiple
<1>3. x = (l * k) * a /\ l * k \in Nat
  BY <1>1, <1>2
<1>4. AlignUp(x, a) <= x
  BY <1>3, AlignUpIsLeast
<1>5. x <= AlignUp(x, a) /\ AlignUp(x, a) \in Nat
  BY AlignUpIsNear
<1> QED
  BY <1>4, <1>5

LEMMA AllocateFirst ==
  ASSUME Inductive, FirstAtBase, NEW b \in Blocks, NEW size \in Sizes,
         NEW alignment \in Alignments, AllocateSection(b, size, alignment)
  PROVE  FirstAtBase'
<1>1. PICK out : out = Out(b, alignment)
  OBVIOUS
<1>2. /\ status = "ok" /\ alignment <= align[b]
      /\ base' = base /\ align' = align /\ imageBase' = imageBase
  BY DEF AllocateSection
<1>3. /\ alignment \in Nat \ {0} /\ align[b] \in Nat \ {0} /\ size \in Nat
      /\ Divides(alignment, align[b])
      /\ addr \in [Blocks -> Nat] /\ base[b] \in Nat
  BY <1>2, BlocksAssumption DEF Inductive, TypeOK, Room
<1>4. out = AlignUp(addr[b], alignment) /\ out \in Nat /\ addr[b] <= out
  BY <1>1, <1>3, AlignUpIsNear DEF Out
<1>5. status' # "out of bounds"
  BY AllocateKeepsInductive
<1>6. /\ addr' = [addr EXCEPT ![b] = out + size]
      /\ sections' = IF out = 0 THEN sections
                     ELSE sections \cup {[ block |-> b, first |-> out, size |-> size,
                                           alignment |-> alignment ]}
  BY <1>1, <1>5 DEF AllocateSection
<1>7. \A c \in Blocks \ {b} : addr'[c] = addr[c]
  BY <1>3, <1>6
<1>8. \A c \in Blocks \ {b} : BeginsAtBase(c)'
  <2>1. TAKE c \in Blocks \ {b}
  <2>2. \A s \in sections' : s \in sections \/ s.block = b
    BY <1>6
  <2>3. sections \subseteq sections'
    BY <1>6
  <2>4. BeginsAtBase(c)
    BY DEF FirstAtBase
  <2> QED
    BY <1>2, <1>7, <2>1, <2>2, <2>3, <2>4 DEF BeginsAtBase
<1>9. BeginsAtBase(b)'
  <2> SUFFICES ASSUME base[b] # 0
               PROVE  \E s \in sections' : s.block = b /\ s.first = base[b]
    BY <1>2 DEF BeginsAtBase
  <2>1. base[b] <= addr[b] /\ addr[b] \in Nat
    BY <1>2, <1>3 DEF Inductive, Room
  <2>2. sections' = sections \cup {[ block |-> b, first |-> out, size |-> size,
                                     alignment |-> alignment ]}
    BY <1>3, <1>4, <1>6, <2>1
  <2>3. CASE addr[b] = base[b]
    <3>1. out = base[b]
      BY <1>3, <1>4, <2>3, AlignedStays DEF FirstAtBase
    <3>2. PICK s : s = [ block |-> b, first |-> out, size |-> size, alignment |-> alignment ]
      OBVIOUS
    <3>3. s \in sections' /\ s.block = b /\ s.first = out
      BY <2>2, <3>2
    <3> QED
      BY <3>1, <3>3
  <2>4. CASE addr[b] # base[b]
    BY <2>2, <2>4 DEF FirstAtBase, BeginsAtBase
  <2> QED
    BY <2>3, <2>4
<1>10. imageBase' = ImageBase(base')
  BY <1>2 DEF FirstAtBase
<1>11. \A c \in Blocks : Divides(align'[c], base'[c])
  BY <1>2 DEF FirstAtBase
<1> QED
  BY <1>8, <1>9, <1>10, <1>11 DEF FirstAtBase

LEMMA AlwaysFirstAtBase == Spec => []FirstAtBase
<1>1. Init => FirstAtBase
  <2>1. Divides(1, 0)
    BY DEF Divides
  <2> QED
    BY <2>1 DEF Init, FirstAtBase, BeginsAtBase
<1>2. Inductive /\ NothingYet /\ FirstAtBase /\ [Next]_vars => FirstAtBase'
  <2> SUFFICES ASSUME Inductive, NothingYet, FirstAtBase, [Next]_vars PROVE FirstAtBase'
    OBVIOUS
  <2>1. ASSUME NEW at \in [Blocks -> Bases \cup {0}], NEW size \in [Blocks -> Totals],
               NEW alignment \in [Blocks -> Alignments], Reserve(at, size, alignment)
        PROVE  FirstAtBase'
    BY <2>1 DEF Reserve, FirstAtBase, BeginsAtBase, NothingYet
  <2>2. ASSUME NEW b \in Blocks, NEW size \in Sizes, NEW alignment \in Alignments,
               AllocateSection(b, size, alignment)
        PROVE  FirstAtBase'
    BY <2>2, AllocateFirst
  <2>3. CASE UNCHANGED vars
    BY <2>3 DEF vars, FirstAtBase, BeginsAtBase
  <2> QED
    BY <2>1, <2>2, <2>3 DEF Next, Idle
<1> QED
  BY <1>1, <1>2, AlwaysAll, PTL DEF Spec

\* ImageBase, from which the unwind tables count, is the lowest section whenever
\* its block is used at all, and is never 0 in a build with assertions.
THEOREM TablesCountFromLowest == Spec => []ImageBaseIsLowest
<1>1. Inductive /\ FirstAtBase => ImageBaseIsLowest
  <2> SUFFICES ASSUME Inductive, FirstAtBase, status = "ok" PROVE ImageBaseIsLowest
    BY DEF ImageBaseIsLowest
  <2> DEFINE bases == { base[b] : b \in Blocks }
             firsts == { s.first : s \in sections }
  <2>1. base \in [Blocks -> Nat]
    <3>1. base \in [Blocks -> Bases \cup {0}]
      BY DEF Inductive, TypeOK
    <3>2. \A x \in Bases \cup {0} : x \in Nat
      BY BlocksAssumption
    <3> QED
      BY <3>1, <3>2
  <2>2. bases \in SUBSET Nat /\ bases # {}
    BY <2>1, BlocksAssumption
  <2>3. imageBase = Min(bases)
    BY DEF FirstAtBase, ImageBase
  <2>4. imageBase \in bases /\ imageBase \in Nat /\ \A b \in Blocks : imageBase <= base[b]
    <3>1. imageBase \in bases /\ \A x \in bases : imageBase <= x
      BY <2>2, <2>3, MinIsLeast
    <3>2. \A b \in Blocks : base[b] \in bases
      OBVIOUS
    <3> HIDE DEF bases
    <3> QED
      BY <2>2, <3>1, <3>2
  <2>5. \A s \in sections : /\ s.block \in Blocks /\ s.first \in Nat
                            /\ base[s.block] # 0 /\ base[s.block] <= s.first
    BY DEF Inductive, TypeOK, SectionsApart
  <2>6. \A s \in sections : imageBase <= s.first
    BY <2>1, <2>4, <2>5
  <2>7. ASSUME NEW s \in sections, base[s.block] = imageBase
        PROVE  imageBase = LowestSection
    <3>1. PICK t \in sections : t.first = imageBase
      BY <2>5, <2>7 DEF FirstAtBase, BeginsAtBase
    <3>2. firsts \in SUBSET Nat /\ imageBase \in firsts
      BY <2>5, <3>1
    <3>3. \A n \in firsts : imageBase <= n
      BY <2>6
    <3> QED
      BY <3>2, <3>3, MinIs DEF LowestSection
  <2>8. debug => imageBase # 0
    BY <2>4 DEF Inductive, Room
  <2> QED
    BY <2>6, <2>7, <2>8 DEF ImageBaseIsLowest
<1> QED
  BY <1>1, AlwaysAll, AlwaysFirstAtBase, PTL
=============================================================================

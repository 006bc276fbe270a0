---------------------------- MODULE SectionBlocks ----------------------------
(***************************************************************************)
(* How SingleSectionMemoryManager hands out the memory of one object: a    *)
(* block for each of code, read-only and writable data is reserved once,   *)
(* and RuntimeDyld's sections are cut from the blocks one by one.          *)
(*                                                                         *)
(* RuntimeDyld is external.  It reserves, for a block, the greatest        *)
(* alignment of its sections and the sum of their sizes, each rounded up   *)
(* to that alignment; `budget' is what it has not used of that sum.        *)
(***************************************************************************)
EXTENDS Integers, FiniteSetsExt

CONSTANTS
  Blocks,      \* Code, ROData and RWData
  Bases,       \* where the operating system may place a block
  Spacing,     \* the least distance of two bases
  Alignments,  \* of sections
  Sizes,       \* of sections
  Totals,      \* of the sections of a block
  Builds,      \* {TRUE}: assert() is compiled in, {FALSE}: NDEBUG
  MaxSections  \* bound: sections of an object

Divides(a, b) == \E k \in 0..b : b = k * a

ASSUME BlocksAssumption ==
  /\ Blocks # {} /\ IsFiniteSet(Blocks)
  /\ Spacing \in Nat
  /\ Bases \subseteq Nat \ {0}
  /\ \A a, b \in Bases : a < b => a + Spacing <= b
  /\ Alignments \subseteq Nat \ {0}
  /\ \A a, b \in Alignments : a <= b => Divides(a, b)   \* powers of two
  /\ Sizes \subseteq Nat \ {0}
  /\ Totals \subseteq 0..Spacing
  /\ Builds \subseteq BOOLEAN
  /\ MaxSections \in Nat

VARIABLES
  status,     \* "new", "ok", the assertion that failed, or LLVM's fatal error
  debug,      \* whether assert() is compiled in
  base,       \* what the operating system reserved for a block, 0 for nothing
  align,      \* the alignment asked for
  addr, end,  \* Block::Addr, Block::End
  budget,     \* what RuntimeDyld asked for and has not used yet
  sections,   \* where the sections are
  imageBase   \* SingleSectionMemoryManager::ImageBase

vars == <<status, debug, base, align, addr, end, budget, sections, imageBase>>

Init ==
  /\ status = "new"
  /\ debug \in Builds
  /\ base = [b \in Blocks |-> 0]
  /\ align = [b \in Blocks |-> 1]
  /\ addr = base /\ end = base /\ budget = base
  /\ sections = {}
  /\ imageBase = 0

\* The least multiple of a that is not below x: (x + a - 1) & ~(a - 1)
AlignUp(x, a) == ((x + a - 1) \div a) * a

\* Mutant: the default alignment is the least
OutAtLeast16(b, alignment) == AlignUp(addr[b], IF alignment < 16 THEN 16 ELSE alignment)

\* Mutant: not aligned
OutUnaligned(b, alignment) == addr[b]

\* Next: where the section goes
Out(b, alignment) == AlignUp(addr[b], IF alignment = 0 THEN 16 ELSE alignment)

\* Reset
End(start, size) == IF start # 0 THEN start + size ELSE 0

\* Mutant: the highest
HighestBase(bases) == Max({ bases[b] : b \in Blocks })

ImageBase(bases) == Min({ bases[b] : b \in Blocks })

\* reserveAllocationSpace: each reservation may fail
Reserve(at, size, alignment) ==
  /\ status = "new"
  /\ \A b \in Blocks : Divides(alignment[b], at[b]) /\ Divides(alignment[b], size[b])
  /\ \A b, c \in Blocks : at[b] = at[c] => b = c \/ at[b] = 0
  /\ base' = at
  /\ align' = alignment
  /\ budget' = size
  /\ addr' = at
  /\ end' = [b \in Blocks |-> End(at[b], size[b])]
  /\ imageBase' = ImageBase(at)
  /\ status' = IF debug /\ \E b \in Blocks : at[b] = 0 THEN "bad allocation" ELSE "ok"
  /\ UNCHANGED <<debug, sections>>

\* What RuntimeDyld rounds the size of a section in block b to
Rounded(b, size) == AlignUp(size, align[b])

\* allocateCodeSection, allocateDataSection; RuntimeDyld gives up when it gets
\* null
AllocateSection(b, size, alignment) ==
  LET out == Out(b, alignment)
      failed == debug /\ out + size > end[b]
  IN /\ status = "ok"
     /\ alignment <= align[b]
     /\ Rounded(b, size) <= budget[b]
     /\ Cardinality(sections) < MaxSections
     /\ status' = IF failed THEN "out of bounds" ELSE IF out = 0 THEN "fatal" ELSE "ok"
     /\ addr' = IF failed THEN addr ELSE [addr EXCEPT ![b] = out + size]
     /\ budget' = [budget EXCEPT ![b] = @ - Rounded(b, size)]
     /\ sections' = IF failed \/ out = 0 THEN sections
                    ELSE sections \cup {[ block |-> b, first |-> out, size |-> size,
                                          alignment |-> alignment ]}
     /\ UNCHANGED <<debug, base, align, end, imageBase>>

\* All sections are where they belong, or the process has ended
Idle == status # "new" /\ UNCHANGED vars

Next ==
  \/ status = "new" /\ \E at \in [Blocks -> Bases \cup {0}], size \in [Blocks -> Totals],
                           alignment \in [Blocks -> Alignments] :
                      Reserve(at, size, alignment)
  \/ \E b \in Blocks, size \in Sizes, alignment \in Alignments :
       AllocateSection(b, size, alignment)
  \/ Idle

Spec == Init /\ [][Next]_vars

-----------------------------------------------------------------------------
\* Properties

TypeOK ==
  /\ status \in {"new", "ok", "bad allocation", "out of bounds", "fatal"}
  /\ debug \in BOOLEAN
  /\ base \in [Blocks -> Bases \cup {0}]
  /\ align \in [Blocks -> Nat \ {0}]
  /\ addr \in [Blocks -> Nat] /\ end \in [Blocks -> Nat] /\ budget \in [Blocks -> Nat]
  /\ sections \subseteq [block : Blocks, first : Nat, size : Nat, alignment : Nat]

\* What is left of a block, from the next multiple of its alignment on, has room
\* for all that is still to come.
Room ==
  status = "ok" => \A b \in Blocks :
    /\ align[b] \in Alignments
    /\ base[b] = 0 => ~debug /\ addr[b] = 0
    /\ base[b] # 0 => /\ base[b] <= addr[b]
                     /\ AlignUp(addr[b], align[b]) + budget[b] <= end[b]

\* Blocks are apart.
Reserved ==
  /\ \A b \in Blocks : base[b] # 0 => end[b] <= base[b] + Spacing
  /\ \A b, c \in Blocks : base[b] = base[c] => b = c \/ base[b] = 0

\* Addr has passed every section of its block.
Passed == \A s \in sections : s.first + s.size <= addr[s.block]

\* Sections are aligned as asked, inside what was reserved for their block, and
\* no two overlap, those of different blocks included; in a build without
\* assertions too.
SectionsApart ==
  /\ \A s \in sections : /\ Divides(s.alignment, s.first)
                         /\ base[s.block] # 0
                         /\ base[s.block] <= s.first
                         /\ s.first + s.size <= end[s.block]
  /\ \A s, t \in sections : \/ s = t
                            \/ s.first + s.size <= t.first
                            \/ t.first + t.size <= s.first

\* The inductive invariant of SectionBlocksProofs: types, room and order.
Inductive == TypeOK /\ Room /\ Reserved /\ Passed /\ SectionsApart

\* WindowsMemoryManager.cpp:40: "RuntimeDyld should have called
\* reserveAllocationSpace with an amount that will fit all required
\* alignemnts": the assertion never fails, however sections of different
\* alignment follow each other.
NeverOutOfBounds == status # "out of bounds"

\* The unwind tables hold 32 bit offsets from the lowest section, and
\* finalizeMemory takes ImageBase for it, the lowest block: they are the same if
\* anything is in the lowest block.  With assertions ImageBase is never 0, which
\* FindEHFrame could not tell from `not found'.
LowestSection == Min({ s.first : s \in sections })
ImageBaseIsLowest ==
  status = "ok" =>
    /\ \A s \in sections : imageBase <= s.first
    /\ (\E s \in sections : base[s.block] = imageBase) => imageBase = LowestSection
    /\ debug => imageBase # 0
=============================================================================

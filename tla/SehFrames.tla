------------------------------ MODULE SehFrames ------------------------------
(***************************************************************************)
(* SingleSectionMemoryManager and the process-wide SEHFrameHandler of      *)
(* WindowsMemoryManager.cpp.  The object layer makes one manager per       *)
(* object; RuntimeDyld drives it: reserve, load, register the unwind       *)
(* tables, finalize, and, when the object is removed or the backend is     *)
(* destroyed, deregister and release the memory.  The handler's map        *)
(* outlives all of them, since it is static.                               *)
(*                                                                         *)
(* Memory is Pages of PageSize addresses.  An image has its code in one    *)
(* page and the lower of its two data blocks in another.  DWORD offsets    *)
(* from the image base are kept as the absolute addresses they add up to.  *)
(***************************************************************************)
EXTENDS Naturals, FiniteSetsExt

CONSTANTS
  Managers,   \* the memory managers the process ever makes
  Pages,      \* the memory the operating system hands out
  PageSize,   \* addresses per page
  Debug,      \* whether assert() is compiled in (no NDEBUG)
  None        \* no page

ASSUME MemoryAssumption ==
  /\ Pages \subseteq Nat \ {0}
  /\ PageSize \in Nat \ {0, 1, 2}
  /\ Debug \in BOOLEAN
  /\ None \notin Pages

Address(page, offset) == page * PageSize + offset
Addresses == { Address(p, o) : p \in Pages, o \in 0..(PageSize - 1) }

\* A RUNTIME_FUNCTION: the addresses first..last, the latter one past the code
Extent == { r \in [first : Addresses, last : Addresses] : r.first < r.last }

\* What a page of code may hold: disjoint functions, and the allocator leaves
\* room behind the last byte
CodeIn(page) ==
  LET inside == { r \in Extent : r.first >= Address(page, 0)
                                 /\ r.last < Address(page, PageSize) }
  IN { functions \in (SUBSET inside) \ {{}} :
         \A r, s \in functions : r = s \/ r.last <= s.first \/ s.last <= r.first }

\* Where the unwind table is in its block: at the start, or further in
TableOffsets == {0, 1}

VARIABLES
  status,      \* "ok", or "assert" when an assertion of the handler failed
  phase,       \* how far the object of a manager is
  code, data,  \* the pages reserved for it
  imageBase,   \* SingleSectionMemoryManager::ImageBase
  ehFrames,    \* EHFrames: at most one table, with the functions it lists
  imageMap,    \* SEHFrameHandler::m_Map: the ranges of a base, {} for no entry
  tables,      \* tables the operating system knows (RtlAddFunctionTable)
  former       \* history: the bases of removed images that had registered a table

vars == <<status, phase, code, data, imageBase, ehFrames, imageMap, tables, former>>

Init ==
  /\ status = "ok"
  /\ phase = [m \in Managers |-> "new"]
  /\ code = [m \in Managers |-> None]
  /\ data = [m \in Managers |-> None]
  /\ imageBase = [m \in Managers |-> 0]
  /\ ehFrames = [m \in Managers |-> {}]
  /\ imageMap = [a \in Addresses |-> {}]
  /\ tables = {}
  /\ former = {}

Held == { code[m] : m \in Managers } \cup { data[m] : m \in Managers }
Free == Pages \ Held

\* Mutant: ImageBase a static member, the lowest page of the process
BaseOfProcess(c, d) == Min({ Address(p, 0) : p \in Pages \cup {c, d} })

BaseOf(c, d) == Min({Address(c, 0), Address(d, 0)})
TrueBase(m) == BaseOf(code[m], data[m])
Registered == { m \in Managers : ehFrames[m] # {} }

\* reserveAllocationSpace: the blocks, and the lowest of their addresses
Reserve(m, c, d) ==
  /\ status = "ok" /\ phase[m] = "new"
  /\ c \in Free /\ d \in Free /\ c # d
  /\ phase' = [phase EXCEPT ![m] = "reserved"]
  /\ code' = [code EXCEPT ![m] = c]
  /\ data' = [data EXCEPT ![m] = d]
  /\ imageBase' = [imageBase EXCEPT ![m] = BaseOf(c, d)]
  /\ UNCHANGED <<status, ehFrames, imageMap, tables, former>>

\* Mutant: the range starts with its bounds the wrong way round
CoveringSwapped(functions) == [first |-> Max({ r.first : r \in functions }),
                               last |-> Min({ r.last : r \in functions })]

\* RegisterEHFrames, with a table at `addr' listing `functions': one range for
\* them all, unless one of the two assertions fails
Covering(functions) == [first |-> Min({ r.first : r \in functions }),
                        last |-> Max({ r.last : r \in functions })]
\* Mutant: BlockRange->first starts from 0, and std::min leaves it there
RegisterFromBase(base, addr, functions) ==
  LET range == [first |-> base, last |-> Covering(functions).last]
      fails == Debug /\ (imageMap[base] # {} \/ base = addr)
  IN \/ /\ ~fails
        /\ imageMap' = [imageMap EXCEPT ![base] = @ \cup {range}]
        /\ tables' = tables \cup {addr}
        /\ UNCHANGED status
     \/ /\ fails
        /\ status' = "assert"
        /\ UNCHANGED <<imageMap, tables>>

\* Mutant: keyed by the table instead of the image base
RegisterByTable(base, addr, functions) ==
  /\ imageMap' = [imageMap EXCEPT ![addr] = @ \cup {Covering(functions)}]
  /\ tables' = tables \cup {addr}
  /\ IF Debug /\ (imageMap[addr] # {} \/ imageMap[base] # {})
     THEN status' = "assert" ELSE UNCHANGED status

RegisterEHFrames(base, addr, functions) ==
  LET map == [imageMap EXCEPT ![base] = @ \cup {Covering(functions)}]
      fails == Debug /\ (imageMap[base] # {} \/ map[addr] # {})
  IN \/ /\ ~fails
        /\ imageMap' = map
        /\ tables' = tables \cup {addr}
        /\ UNCHANGED status
     \/ /\ fails
        /\ status' = "assert"
        /\ UNCHANGED <<imageMap, tables>>

\* finalizeMemory, after RuntimeDyld has reported the unwind table, if any
FinalizeMemory(m) ==
  /\ status = "ok" /\ phase[m] = "reserved"
  /\ phase' = [phase EXCEPT ![m] = "finalized"]
  /\ imageBase' = [imageBase EXCEPT ![m] = 0]
  /\ \/ UNCHANGED <<status, ehFrames, imageMap, tables>>
     \/ \E functions \in CodeIn(code[m]), o \in TableOffsets :
          LET table == [addr |-> Address(data[m], o), functions |-> functions]
          IN /\ ehFrames' = [ehFrames EXCEPT ![m] = {table}]
             /\ RegisterEHFrames(imageBase[m], table.addr, functions)
  /\ UNCHANGED <<code, data, former>>

\* ~ConcreteLinkedObject: deregisterEHFrames, then the memory goes back
DeRegisterEHFrames(base, frames) ==
  LET found == frames # {} /\ base \in Addresses /\ imageMap[base] # {}
  IN /\ imageMap' = IF found THEN [imageMap EXCEPT ![base] = {}] ELSE imageMap
     /\ tables' = IF found THEN tables \ { t.addr : t \in frames } ELSE tables

Remove(m) ==
  /\ status = "ok" /\ phase[m] \in {"reserved", "finalized"}
  /\ DeRegisterEHFrames(imageBase[m], ehFrames[m])
  /\ ehFrames' = [ehFrames EXCEPT ![m] = {}]
  /\ phase' = [phase EXCEPT ![m] = "removed"]
  /\ code' = [code EXCEPT ![m] = None]
  /\ data' = [data EXCEPT ![m] = None]
  /\ former' = former \cup { TrueBase(n) : n \in Registered \cap {m} }
  /\ UNCHANGED <<status, imageBase>>

Aborted == status = "assert" /\ UNCHANGED vars
Idle == (\A m \in Managers : phase[m] = "removed") /\ UNCHANGED vars

Next ==
  \/ \E m \in Managers :
       \/ \E c, d \in Pages : Reserve(m, c, d)
       \/ FinalizeMemory(m)
       \/ Remove(m)
  \/ Aborted \/ Idle

Spec == Init /\ [][Next]_vars

-----------------------------------------------------------------------------
\* RaiseSEHException: who is throwing

\* Mutant: the end of the range taken for exclusive
FindEHFrameExclusive(caller) ==
  LET hits == { b \in Addresses : \E r \in imageMap[b] :
                                    r.first <= caller /\ caller < r.last }
  IN IF hits = {} THEN 0 ELSE Min(hits)

\* FindEHFrame: the first entry of the ordered map that covers the caller
FindEHFrame(caller) ==
  LET hits == { b \in Addresses : \E r \in imageMap[b] :
                                    r.first <= caller /\ caller <= r.last }
  IN IF hits = {} THEN 0 ELSE Min(hits)

\* Return addresses in m's code
Callers(m) == { a \in Addresses : \E t \in ehFrames[m] : \E r \in t.functions :
                                    r.first < a /\ a <= r.last }
Removed == { m \in Managers : phase[m] = "removed" }

TypeOK ==
  /\ status \in {"ok", "assert"}
  /\ phase \in [Managers -> {"new", "reserved", "finalized", "removed"}]
  /\ code \in [Managers -> Pages \cup {None}]
  /\ data \in [Managers -> Pages \cup {None}]
  /\ imageBase \in [Managers -> Addresses \cup {0}]
  /\ ehFrames \in [Managers ->
       SUBSET [addr : Addresses, functions : SUBSET Extent]]
  /\ imageMap \in [Addresses -> SUBSET Extent]
  /\ tables \subseteq Addresses
  /\ former \subseteq Addresses

\* An exception thrown by live compiled code is always found to come from an
\* image (and so never reaches the C runtime's _CxxThrowException), whatever
\* other objects were loaded, finalized or removed in the meantime.
LiveCodeIsFound ==
  status = "ok" => \A m \in Managers : \A a \in Callers(m) : FindEHFrame(a) # 0

\* As long as nothing was removed, RaiseSEHException reports the base of the
\* very image that throws.
ThrowsFromOwnImage ==
  status = "ok" /\ Removed = {} =>
    \A m \in Managers : \A a \in Callers(m) : FindEHFrame(a) = TrueBase(m)

\* Entries of removed images may answer for the pages that were theirs, but in
\* a build with assertions a throw is never taken for one of another live image.
NotTakenForAnotherImage ==
  Debug /\ status = "ok" =>
    \A m \in Managers : \A other \in Registered \ {m} : \A a \in Callers(m) :
      FindEHFrame(a) # TrueBase(other)

\* An assertion of the handler fails only for an image whose base or unwind table
\* lies where a removed image that registered had its base, or whose table lies at
\* its own base.
AssertHasCause ==
  status = "assert" =>
    \E m \in Managers : \E t \in ehFrames[m] :
      t.addr = TrueBase(m) \/ {TrueBase(m), t.addr} \cap former # {}

\* WindowsMemoryManager.cpp:185, 188: deregistering will "Remove the ImageBase
\* from lookup" and "Unregister all the PRUNTIME_FUNCTIONs".
RemovedIsForgotten ==
  \A a \in Addresses :
    imageMap[a] # {} => \E m \in Registered : TrueBase(m) = a
=============================================================================

------------------------------ MODULE PageTable ------------------------------
(***************************************************************************)
(* The two-level page table of assignment 7 (p1/page_table.c).  An entry   *)
(* is the address it holds and the set of its low bits that are set; what  *)
(* posix_memalign returns is one of Heap.  Tables in Static are variables  *)
(* of the program, put into a directory before it is used, as main does.   *)
(***************************************************************************)
EXTENDS Integers

CONSTANTS Directories,     \* the page directories
          Heap, Static,    \* addresses of page tables
          NULL,
          PageSize,        \* 2^OFFSET_BITS = 4096 in the code
          Entries,         \* ENTRIES_PER_TABLE, 1024 in the code
          Inputs,          \* the virtual addresses that callers pass
          Frames,          \* the physical ones
          Rights           \* the accesses that pages are mapped for

ASSUME SizeAssumption == PageSize \in Nat \ {0} /\ Entries \in Nat \ {0}

AddressSize == Entries * Entries * PageSize     \* 2^32 in the code

Modes  == {"read", "write"}       \* ReadWrite
Levels == {"user", "kernel"}      \* PrivilegeLevel

ASSUME InputAssumption == /\ Inputs \cup Frames \subseteq 0 .. AddressSize - 1
                          /\ Rights \subseteq Modes \X Levels
ASSUME HeapAssumption  == NULL \notin Heap \cup Static /\ Heap \cap Static = {}

Tables  == Heap \cup Static
Indexes == 0 .. Entries - 1

INVALID_ADDRESS == AddressSize - 1

PAGE_PRESENT_MASK   == {0}
PAGE_READWRITE_MASK == {1}
PAGE_USERMODE_MASK  == {2}
PAGE_ACCESSED_MASK  == {5}
Bits == {0, 1, 2, 5}

VARIABLES
    cr3,          \* the directory in use
    directory,    \* entries of each directory
    table,        \* entries of each table
    allocated,    \* tables that posix_memalign gave and free did not take
    crashed,      \* was the program killed?
    returned      \* result of the last call

memory == <<directory, table, allocated>>
vars == <<cr3, memory, crashed, returned>>

(* The right shift is by the bits of both, OFFSET_BITS and BITS_PER_ENTRY. *)
_getPageDirectoryIndex(address) == (address \div PageSize) \div Entries
_getPageTableIndex(address)     == (address \div PageSize) % Entries
_getOffset(address)             == address % PageSize

ZeroPDE    == [base |-> NULL, bits |-> {}]
ZeroedPage == [j \in Indexes |-> [base |-> 0, bits |-> {}]]

Present(entry) == PAGE_PRESENT_MASK \subseteq entry.bits

(* The directory entry and the table entry of an address.                  *)
PDE(d, address) == directory[d][_getPageDirectoryIndex(address)]
PTE(d, address) == table[PDE(d, address).base][_getPageTableIndex(address)]

HasPage(d, address) == Present(PDE(d, address)) /\ Present(PTE(d, address))

(* Each static table is in one place, and no page is mapped yet.           *)
Init ==
    /\ cr3 \in Directories
    /\ \E place \in [Static -> Directories \X Indexes] :
          /\ \A t, u \in Static : place[t] = place[u] => t = u
          /\ directory = [d \in Directories |-> [i \in Indexes |->
                IF \E t \in Static : place[t] = <<d, i>>
                  THEN [base |-> CHOOSE t \in Static : place[t] = <<d, i>>,
                        bits |-> PAGE_PRESENT_MASK]
                  ELSE ZeroPDE]]
    /\ table = [t \in Tables |-> ZeroedPage]
    /\ allocated = {}
    /\ crashed = FALSE
    /\ returned = 0

setPageDirectory(d) == /\ cr3' = d
                       /\ UNCHANGED <<memory, crashed, returned>>

-----------------------------------------------------------------------------
(* Mutated: the bits of the page mapped before are kept.                   *)
EntryOver(old, physical, mode, level) ==
    [base |-> physical,
     bits |-> old.bits \cup PAGE_PRESENT_MASK
              \cup (IF mode = "write" THEN PAGE_READWRITE_MASK ELSE {})
              \cup (IF level = "user" THEN PAGE_USERMODE_MASK ELSE {})]

(* The whole entry is new: the page counts as not accessed.                *)
EntryFor(old, physical, mode, level) ==
    [base |-> physical,
     bits |-> PAGE_PRESENT_MASK
              \cup (IF mode = "write" THEN PAGE_READWRITE_MASK ELSE {})
              \cup (IF level = "user" THEN PAGE_USERMODE_MASK ELSE {})]

(* mapPage without a table: posix_memalign gives any memory that is free,  *)
(* and memset clears it.                                                   *)
MapInNewTable(virtual, physical, mode, level) ==
    LET j == _getPageTableIndex(virtual) IN
    /\ ~ Present(PDE(cr3, virtual))
    /\ \E t \in Heap \ allocated :
          /\ allocated' = allocated \cup {t}
          /\ directory' = [directory EXCEPT
                ![cr3][_getPageDirectoryIndex(virtual)] =
                    [base |-> t, bits |-> PAGE_PRESENT_MASK]]
          /\ table' = [table EXCEPT ![t] = [ZeroedPage EXCEPT ![j] =
                          EntryFor(ZeroedPage[j], physical, mode, level)]]
    /\ returned' = 0

MapInTable(virtual, physical, mode, level) ==
    /\ Present(PDE(cr3, virtual))
    /\ table' = [table EXCEPT
          ![PDE(cr3, virtual).base][_getPageTableIndex(virtual)] =
              EntryFor(@, physical, mode, level)]
    /\ returned' = 0
    /\ UNCHANGED <<directory, allocated>>

(* posix_memalign may fail at any time.                                    *)
MapFails(virtual, physical) ==
    /\ \/ _getOffset(virtual) # 0
       \/ _getOffset(physical) # 0
       \/ ~ Present(PDE(cr3, virtual))
    /\ returned' = -1
    /\ UNCHANGED memory

mapPage(virtual, physical, mode, level) ==
    /\ \/ /\ _getOffset(virtual) = 0
          /\ _getOffset(physical) = 0
          /\ \/ MapInNewTable(virtual, physical, mode, level)
             \/ MapInTable(virtual, physical, mode, level)
       \/ MapFails(virtual, physical)
    /\ UNCHANGED <<cr3, crashed>>

-----------------------------------------------------------------------------
(* The kernel may do anything to a page that is present.                   *)
Permitted(pte, mode, level) ==
    level = "user" =>
        /\ mode = "write" => PAGE_READWRITE_MASK \subseteq pte.bits
        /\ PAGE_USERMODE_MASK \subseteq pte.bits

Translates(d, address, mode, level) ==
    /\ HasPage(d, address)
    /\ Permitted(PTE(d, address), mode, level)

translatePageTable(address, mode, level) ==
    /\ IF Translates(cr3, address, mode, level)
         THEN /\ table' = [table EXCEPT
                    ![PDE(cr3, address).base][_getPageTableIndex(address)].bits =
                        @ \cup PAGE_ACCESSED_MASK]
              /\ returned' = PTE(cr3, address).base + _getOffset(address)
         ELSE /\ returned' = INVALID_ADDRESS
              /\ UNCHANGED table
    /\ UNCHANGED <<cr3, directory, allocated, crashed>>

-----------------------------------------------------------------------------
(* Mutated: the loop looks for entries that are zero; the entry in the     *)
(* directory of a table that was freed stays present.                      *)
AllZero(page) == \A j \in Indexes : page[j].bits = {}
FreeOnly(t, d, i) == /\ allocated' = allocated \ {t}
                     /\ UNCHANGED directory

AllUnmapped(page) == \A j \in Indexes : ~ Present(page[j])

(* free(pageTable), and the entry of the directory is no longer present.   *)
FreeTable(t, d, i) ==
    /\ allocated' = allocated \ {t}
    /\ directory' = [directory EXCEPT ![d][i].bits = @ \ PAGE_PRESENT_MASK]

UnmapFails(virtual) ==
    /\ _getOffset(virtual) # 0 \/ ~ HasPage(cr3, virtual)
    /\ returned' = -1
    /\ UNCHANGED <<memory, crashed>>

(* free of a table that is not on the heap kills the program, which does   *)
(* not return.  What is in a freed table is lost.                          *)
UnmapPresent(virtual) ==
    LET t    == PDE(cr3, virtual).base
        page == [table[t] EXCEPT ![_getPageTableIndex(virtual)].bits =
                                    @ \ PAGE_PRESENT_MASK]
    IN
    /\ _getOffset(virtual) = 0
    /\ HasPage(cr3, virtual)
    /\ \/ /\ ~ AllUnmapped(page)
          /\ table' = [table EXCEPT ![t] = page]
          /\ returned' = 0
          /\ UNCHANGED <<directory, allocated, crashed>>
       \/ /\ AllUnmapped(page)
          /\ t \in allocated
          /\ table' = [table EXCEPT ![t] = ZeroedPage]
          /\ FreeTable(t, cr3, _getPageDirectoryIndex(virtual))
          /\ returned' = 0
          /\ UNCHANGED crashed
       \/ /\ AllUnmapped(page)
          /\ t \notin allocated
          /\ crashed' = TRUE
          /\ UNCHANGED <<memory, returned>>

unmapPage(virtual) == /\ UnmapFails(virtual) \/ UnmapPresent(virtual)
                      /\ UNCHANGED cr3

Next == /\ ~ crashed
        /\ \/ \E d \in Directories : setPageDirectory(d)
           \/ \E v \in Inputs, p \in Frames, r \in Rights :
                 mapPage(v, p, r[1], r[2])
           \/ \E v \in Inputs, mode \in Modes, level \in Levels :
                 translatePageTable(v, mode, level)
           \/ \E v \in Inputs : unmapPage(v)

Spec == Init /\ [][Next]_vars

-----------------------------------------------------------------------------
PTEs == [base : {a \in 0 .. AddressSize - 1 : _getOffset(a) = 0},
         bits : SUBSET Bits]
PDEs == [base : Tables \cup {NULL}, bits : SUBSET PAGE_PRESENT_MASK]

TypeOK ==
    /\ cr3 \in Directories
    /\ directory \in [Directories -> [Indexes -> PDEs]]
    /\ table \in [Tables -> [Indexes -> PTEs]]
    /\ allocated \in SUBSET Heap
    /\ crashed \in BOOLEAN
    /\ returned \in {-1} \cup 0 .. AddressSize - 1

Uses(t, d, i) == Present(directory[d][i]) /\ directory[d][i].base = t

(* A table is in one place of one directory, and is not used any more once *)
(* it was freed.                                                           *)
OnePlace ==
    /\ \A d, e \in Directories : \A i, j \in Indexes : \A t \in Tables \cup {NULL} :
          Uses(t, d, i) /\ Uses(t, e, j) => d = e /\ i = j
    /\ \A d \in Directories : \A i \in Indexes :
          Present(directory[d][i]) => directory[d][i].base \in allocated \cup Static

(* The conjunction is inductive, and is what the refinement below needs: a *)
(* step that writes one entry of a table changes one page of one           *)
(* directory.                                                              *)
TablesInv == /\ TypeOK
             /\ OnePlace

(* No table leaks, or is kept for nothing: what posix_memalign gave is in  *)
(* some directory and maps a page.                                         *)
NoLeak ==
    \A t \in allocated :
        /\ \E d \in Directories : \E i \in Indexes : Uses(t, d, i)
        /\ \E j \in Indexes : Present(table[t][j])

Pages == {v - _getOffset(v) : v \in Inputs}

(* What a page is mapped to, from its entry.                               *)
Reading(pte) == [frame    |-> pte.base,
                 writable |-> PAGE_READWRITE_MASK \subseteq pte.bits,
                 user     |-> PAGE_USERMODE_MASK \subseteq pte.bits,
                 accessed |-> PAGE_ACCESSED_MASK \subseteq pte.bits]

Meaning(d, page) == IF HasPage(d, page) THEN Reading(PTE(d, page))
                                        ELSE [frame |-> -1]

AddressSpaces == INSTANCE AddressSpace WITH
    Spaces <- Directories, current <- cr3,
    mapping <- [d \in Directories |-> [page \in Pages |-> Meaning(d, page)]]

(* The tables are an address space per directory, whatever is mapped,      *)
(* unmapped and freed: a page translates to the frame it was mapped to     *)
(* last, with those rights, and no other page is touched.                  *)
ImplementsAddressSpace == AddressSpaces!Spec
=============================================================================

---------------------------- MODULE PageTable_proofs ----------------------------
(***************************************************************************)
(* The page table keeps its tables apart and implements address spaces,    *)
(* for every number of directories and tables, and every size.             *)
(***************************************************************************)
EXTENDS PageTable, TLAPS

USE SizeAssumption, InputAssumption, HeapAssumption

Addresses == 0 .. AddressSize - 1

-----------------------------------------------------------------------------
(* Division with a remainder.                                              *)
LEMMA Division ==
  ASSUME NEW n \in Nat, NEW k \in Nat \ {0}
  PROVE  /\ n \div k \in Nat
         /\ n % k \in 0 .. k - 1
         /\ n = k * (n \div k) + (n % k)
<1>1. n % k \in 0 .. k - 1 /\ n \div k \in Nat
  OBVIOUS
<1>2. n - (n % k) = k * (n \div k)
  OBVIOUS
<1> QED BY <1>1, <1>2

(* A quotient is determined by the bounds of the dividend.                 *)
LEMMA Quotient ==
  ASSUME NEW n \in Nat, NEW k \in Nat \ {0}, NEW q \in Nat, NEW r \in 0 .. k - 1,
         n = k * q + r
  PROVE  n \div k = q /\ n % k = r
OBVIOUS

LEMMA QuotientBelow ==
  ASSUME NEW n \in Nat, NEW k \in Nat \ {0}, NEW m \in Nat, n < k * m
  PROVE  n \div k < m
OBVIOUS

-----------------------------------------------------------------------------
LEMMA SizeTypes == AddressSize \in Nat \ {0} /\ _getOffset(0) = 0
<1>1. Entries * Entries \in Nat \ {0}
  OBVIOUS
<1>2. 0 % PageSize = 0
  OBVIOUS
<1> QED BY <1>1, <1>2 DEF AddressSize, _getOffset

(* Addresses: their indexes exist, the base of the page has the same ones, *)
(* and two pages differ in one of them.                                    *)
LEMMA IndexTypes ==
  ASSUME NEW a \in Addresses
  PROVE  /\ _getPageDirectoryIndex(a) \in Indexes
         /\ _getPageTableIndex(a) \in Indexes
         /\ _getOffset(a) \in 0 .. PageSize - 1
<1> DEFINE n == a \div PageSize
<1>1. a \in Nat /\ a < PageSize * (Entries * Entries)
  BY DEF Addresses, AddressSize
<1>2. n \in Nat
  BY <1>1, Division
<1>3. Entries * Entries \in Nat
  OBVIOUS
<1>4. n < Entries * Entries
  BY <1>1, <1>3, QuotientBelow
<1>5. n \div Entries < Entries
  BY <1>2, <1>4, QuotientBelow
<1>6. n \div Entries \in Nat /\ n % Entries \in 0 .. Entries - 1
  BY <1>2, Division
<1> QED BY <1>1, <1>5, <1>6, Division
        DEF Indexes, _getPageDirectoryIndex, _getPageTableIndex, _getOffset

LEMMA BaseIndexes ==
  ASSUME NEW a \in Addresses, NEW b, b = a - _getOffset(a)
  PROVE  /\ b \in Addresses
         /\ _getOffset(b) = 0
         /\ b \div PageSize = a \div PageSize
<1>1. a \in Nat
  BY DEF Addresses
<1>2. /\ a \div PageSize \in Nat
      /\ a % PageSize \in 0 .. PageSize - 1
      /\ a = PageSize * (a \div PageSize) + (a % PageSize)
  BY <1>1, Division
<1>3. b = PageSize * (a \div PageSize) + 0 /\ b \in Nat /\ b <= a
  BY <1>1, <1>2 DEF _getOffset
<1>4. b \div PageSize = a \div PageSize /\ b % PageSize = 0
  <2> DEFINE q == a \div PageSize
  <2>1. q \in Nat /\ b \in Nat /\ b = PageSize * q + 0 /\ 0 \in 0 .. PageSize - 1
    BY <1>2, <1>3
  <2> HIDE DEF q
  <2>2. \A r \in 0 .. PageSize - 1 : b = PageSize * q + r =>
           b \div PageSize = q /\ b % PageSize = r
    BY <2>1, Quotient
  <2>3. b \div PageSize = q /\ b % PageSize = 0
    BY <2>1, <2>2
  <2> QED BY <2>3 DEF q
<1>5. b \in Addresses
  BY <1>3, SizeTypes DEF Addresses
<1> QED BY <1>4, <1>5 DEF _getOffset

LEMMA PagesDiffer ==
  ASSUME NEW a \in Addresses, NEW b \in Addresses,
         _getOffset(a) = 0, _getOffset(b) = 0,
         _getPageDirectoryIndex(a) = _getPageDirectoryIndex(b),
         _getPageTableIndex(a) = _getPageTableIndex(b)
  PROVE  a = b
<1>1. a \in Nat /\ b \in Nat
  BY DEF Addresses
<1>2. a \div PageSize \in Nat /\ b \div PageSize \in Nat
  BY <1>1, Division
<1>3. a \div PageSize = b \div PageSize
  <2> DEFINE m == a \div PageSize
             n == b \div PageSize
  <2>1. m \in Nat /\ n \in Nat /\ m \div Entries = n \div Entries
                              /\ m % Entries = n % Entries
    BY <1>2 DEF _getPageDirectoryIndex, _getPageTableIndex
  <2> HIDE DEF m, n
  <2>2. m = Entries * (m \div Entries) + (m % Entries)
    BY <2>1, Division
  <2>3. n = Entries * (n \div Entries) + (n % Entries)
    BY <2>1, Division
  <2>4. m = n
    BY <2>1, <2>2, <2>3
  <2> QED BY <2>4 DEF m, n
<1>4. /\ a = PageSize * (a \div PageSize) + 0
      /\ b = PageSize * (b \div PageSize) + 0
  BY <1>1, Division DEF _getOffset
<1> QED BY <1>3, <1>4

(* An address inside a frame.                                              *)
LEMMA InsideFrame ==
  ASSUME NEW b \in Addresses, _getOffset(b) = 0, NEW o \in 0 .. PageSize - 1
  PROVE  b + o \in Addresses
<1> DEFINE q == b \div PageSize
           n == Entries * Entries
<1>1. b \in Nat /\ b < AddressSize /\ AddressSize = PageSize * n /\ n \in Nat
  BY SizeTypes DEF Addresses, AddressSize
<1>2. q \in Nat /\ b = PageSize * q
  <2>1. q \in Nat /\ b = PageSize * q + (b % PageSize)
    BY <1>1, Division
  <2>2. b % PageSize = 0
    BY DEF _getOffset
  <2> QED BY <2>1, <2>2
<1> HIDE DEF q, n
<1>3. q + 1 <= n
  <2>1. SUFFICES ASSUME n <= q PROVE FALSE
    BY <1>1, <1>2
  <2>2. PageSize * n <= PageSize * q
    BY <1>1, <1>2, <2>1
  <2> QED BY <1>1, <1>2, <2>2
<1>4. PageSize * (q + 1) <= PageSize * n
  BY <1>1, <1>2, <1>3
<1>5. PageSize * (q + 1) = PageSize * q + PageSize
  BY <1>2
<1> QED BY <1>1, <1>2, <1>4, <1>5 DEF Addresses

-----------------------------------------------------------------------------
(* The entries of an address, and the table they lead to.                  *)
LEMMA EntryTypes ==
  ASSUME TablesInv, NEW d \in Directories, NEW a \in Addresses
  PROVE  /\ PDE(d, a) \in PDEs
         /\ PDE(d, a) = directory[d][_getPageDirectoryIndex(a)]
         /\ Present(PDE(d, a)) => /\ PDE(d, a).base \in Tables
                                  /\ PDE(d, a).base \in allocated \cup Static
                                  /\ PTE(d, a) \in PTEs
<1>1. /\ _getPageDirectoryIndex(a) \in Indexes
      /\ _getPageTableIndex(a) \in Indexes
  BY IndexTypes
<1>2. PDE(d, a) \in PDEs
  BY <1>1 DEF TablesInv, TypeOK, PDE
<1>3. ASSUME Present(PDE(d, a))
      PROVE  /\ PDE(d, a).base \in allocated \cup Static
             /\ PDE(d, a).base \in Tables
  BY <1>1, <1>3 DEF TablesInv, TypeOK, OnePlace, PDE, Tables
<1>4. ASSUME Present(PDE(d, a))
      PROVE  PTE(d, a) \in PTEs
  BY <1>1, <1>3, <1>4 DEF TablesInv, TypeOK, PTE
<1> QED BY <1>2, <1>3, <1>4 DEF PDE

LEMMA InitInv == Init => TablesInv
<1> SUFFICES ASSUME Init PROVE TablesInv
  OBVIOUS
<1>1. PICK place \in [Static -> Directories \X Indexes] :
         /\ \A t, u \in Static : place[t] = place[u] => t = u
         /\ directory = [d \in Directories |-> [i \in Indexes |->
               IF \E t \in Static : place[t] = <<d, i>>
                 THEN [base |-> CHOOSE t \in Static : place[t] = <<d, i>>,
                       bits |-> PAGE_PRESENT_MASK]
                 ELSE ZeroPDE]]
  BY DEF Init
<1>2. ASSUME NEW d \in Directories, NEW i \in Indexes
      PROVE  \/ directory[d][i] = ZeroPDE
             \/ \E t \in Static : /\ place[t] = <<d, i>>
                                  /\ directory[d][i] = [base |-> t, bits |-> {0}]
  <2>1. CASE \E t \in Static : place[t] = <<d, i>>
    <3> DEFINE u == CHOOSE t \in Static : place[t] = <<d, i>>
    <3>1. u \in Static /\ place[u] = <<d, i>>
      BY <2>1
    <3>2. directory[d][i] = [base |-> u, bits |-> PAGE_PRESENT_MASK]
      BY <1>1, <2>1
    <3> QED BY <3>1, <3>2 DEF PAGE_PRESENT_MASK
  <2>2. CASE ~ \E t \in Static : place[t] = <<d, i>>
    BY <1>1, <2>2
  <2> QED BY <2>1, <2>2
<1>3. directory \in [Directories -> [Indexes -> PDEs]]
  <2>1. ASSUME NEW d \in Directories, NEW i \in Indexes
        PROVE  directory[d][i] \in PDEs
    <3>1. ZeroPDE \in PDEs
      BY DEF PDEs, ZeroPDE, PAGE_PRESENT_MASK
    <3>2. \A t \in Static : [base |-> t, bits |-> {0}] \in PDEs
      BY DEF PDEs, Tables, PAGE_PRESENT_MASK
    <3>3. CASE directory[d][i] = ZeroPDE
      BY <3>1, <3>3
    <3>4. CASE \E t \in Static : directory[d][i] = [base |-> t, bits |-> {0}]
      BY <3>2, <3>4
    <3> QED BY <1>2, <3>3, <3>4
  <2>2. directory = [d \in Directories |-> [i \in Indexes |-> directory[d][i]]]
    BY <1>1
  <2> QED BY <2>1, <2>2
<1>4. table \in [Tables -> [Indexes -> PTEs]]
  BY SizeTypes DEF Init, ZeroedPage, PTEs
<1>5. TypeOK
  <2>1. 0 \in {-1} \cup 0 .. AddressSize - 1
    BY SizeTypes
  <2> QED BY <1>3, <1>4, <2>1 DEF Init, TypeOK
<1>6. ~ Present(ZeroPDE)
  BY DEF Present, ZeroPDE, PAGE_PRESENT_MASK
<1>7. ASSUME NEW d \in Directories, NEW i \in Indexes, Present(directory[d][i])
      PROVE  /\ directory[d][i].base \in Static
             /\ place[directory[d][i].base] = <<d, i>>
  <2>1. directory[d][i] # ZeroPDE
    BY <1>6, <1>7
  <2>2. PICK t \in Static : /\ place[t] = <<d, i>>
                            /\ directory[d][i] = [base |-> t, bits |-> {0}]
    BY <1>2, <2>1
  <2> QED BY <2>2
<1>8. OnePlace
  BY <1>7 DEF OnePlace, Uses
<1> QED BY <1>5, <1>8 DEF TablesInv

-----------------------------------------------------------------------------
(* What mapPage writes is an entry for a page that was just mapped.        *)
LEMMA EntryForType ==
  ASSUME NEW old, NEW p \in Frames, _getOffset(p) = 0,
         NEW mode \in Modes, NEW level \in Levels
  PROVE  /\ EntryFor(old, p, mode, level) \in PTEs
         /\ Present(EntryFor(old, p, mode, level))
         /\ Reading(EntryFor(old, p, mode, level)) =
               [frame |-> p, writable |-> mode = "write", user |-> level = "user",
                accessed |-> FALSE]
<1> DEFINE e == EntryFor(old, p, mode, level)
<1>1. /\ e = [base |-> p, bits |-> e.bits]
      /\ e.bits = {0} \cup (IF mode = "write" THEN {1} ELSE {})
                      \cup (IF level = "user" THEN {2} ELSE {})
  BY DEF EntryFor, PAGE_PRESENT_MASK, PAGE_READWRITE_MASK, PAGE_USERMODE_MASK
<1>2. /\ e.base = p
      /\ e.bits \in SUBSET Bits
      /\ 0 \in e.bits
      /\ 1 \in e.bits <=> mode = "write"
      /\ 2 \in e.bits <=> level = "user"
      /\ 5 \notin e.bits
  BY <1>1 DEF Bits
<1>3. e \in PTEs
  BY <1>1, <1>2 DEF PTEs
<1>4. Present(e)
  BY <1>2 DEF Present, PAGE_PRESENT_MASK
<1>5. /\ (PAGE_READWRITE_MASK \subseteq e.bits) = (mode = "write")
      /\ (PAGE_USERMODE_MASK \subseteq e.bits) = (level = "user")
      /\ (PAGE_ACCESSED_MASK \subseteq e.bits) = FALSE
  BY <1>2 DEF PAGE_READWRITE_MASK, PAGE_USERMODE_MASK, PAGE_ACCESSED_MASK
<1>6. Reading(e) = [frame |-> p, writable |-> mode = "write",
                    user |-> level = "user", accessed |-> FALSE]
  BY <1>2, <1>5 DEF Reading
<1> QED BY <1>3, <1>4, <1>6

(* Writing one entry of a table in use changes the meaning of one page.    *)
LEMMA WriteEntry ==
  ASSUME TablesInv, NEW a \in Inputs, Present(PDE(cr3, a)), NEW e \in PTEs,
         cr3 \in Directories,
         UNCHANGED <<directory, allocated>>,
         table' = [table EXCEPT ![PDE(cr3, a).base][_getPageTableIndex(a)] = e]
  PROVE  /\ table' \in [Tables -> [Indexes -> PTEs]]
         /\ \A d \in Directories, page \in Pages :
               Meaning(d, page)' =
                  IF d = cr3 /\ page = a - _getOffset(a)
                    THEN IF Present(e) THEN Reading(e) ELSE [frame |-> -1]
                    ELSE Meaning(d, page)
<1> DEFINE t == PDE(cr3, a).base
           j == _getPageTableIndex(a)
           i == _getPageDirectoryIndex(a)
           b == a - _getOffset(a)
<1>1. /\ a \in Addresses
      /\ i \in Indexes /\ j \in Indexes
      /\ b \in Addresses /\ _getOffset(b) = 0
      /\ _getPageDirectoryIndex(b) = i /\ _getPageTableIndex(b) = j
  <2>1. a \in Addresses
    BY DEF Addresses
  <2> QED BY <2>1, IndexTypes, BaseIndexes
          DEF _getPageDirectoryIndex, _getPageTableIndex
<1>2. t \in Tables /\ Uses(t, cr3, i)
  BY <1>1, EntryTypes DEF Uses
<1>3. table' \in [Tables -> [Indexes -> PTEs]]
  BY <1>1, <1>2 DEF TablesInv, TypeOK
<1>4. /\ table'[t][j] = e
      /\ \A k \in Indexes : k # j => table'[t][k] = table[t][k]
      /\ \A u \in Tables : u # t => table'[u] = table[u]
  BY <1>1, <1>2 DEF TablesInv, TypeOK
<1>5. ASSUME NEW d \in Directories, NEW page \in Pages
      PROVE  Meaning(d, page)' =
                IF d = cr3 /\ page = b
                  THEN IF Present(e) THEN Reading(e) ELSE [frame |-> -1]
                  ELSE Meaning(d, page)
  <2>1. /\ page \in Addresses /\ _getOffset(page) = 0
        /\ _getPageDirectoryIndex(page) \in Indexes
        /\ _getPageTableIndex(page) \in Indexes
    <3>1. PICK c \in Inputs : page = c - _getOffset(c)
      BY DEF Pages
    <3>2. c \in Addresses
      BY DEF Addresses
    <3> QED BY <3>1, <3>2, BaseIndexes, IndexTypes
  <2>2. PDE(d, page)' = PDE(d, page)
    BY DEF PDE
  <2>3. CASE d = cr3 /\ page = b
    <3>1. PDE(d, page) = PDE(cr3, a) /\ PTE(d, page)' = e
      BY <1>1, <1>4, <2>2, <2>3 DEF PDE, PTE
    <3> QED BY <2>2, <2>3, <3>1 DEF Meaning, HasPage, Present, Reading
  <2>4. CASE ~(d = cr3 /\ page = b) /\ Present(PDE(d, page))
    <3> DEFINE u == PDE(d, page).base
    <3>1. u \in Tables /\ Uses(u, d, _getPageDirectoryIndex(page))
      BY <2>1, <2>4, EntryTypes DEF Uses
    <3>2. u # t \/ _getPageTableIndex(page) # j
      <4>1. SUFFICES ASSUME u = t, _getPageTableIndex(page) = j PROVE FALSE
        OBVIOUS
      <4>2. d = cr3 /\ _getPageDirectoryIndex(page) = i
        BY <1>1, <1>2, <2>1, <3>1, <4>1 DEF TablesInv, OnePlace
      <4> QED BY <1>1, <2>1, <2>4, <4>1, <4>2, PagesDiffer
    <3>3. table'[u][_getPageTableIndex(page)] = table[u][_getPageTableIndex(page)]
      BY <1>4, <2>1, <3>1, <3>2
    <3>4. PTE(d, page)' = PTE(d, page)
      BY <2>2, <3>3 DEF PTE
    <3> QED BY <2>2, <2>4, <3>4 DEF Meaning, HasPage, Present, Reading
  <2>5. CASE ~(d = cr3 /\ page = b) /\ ~ Present(PDE(d, page))
    BY <2>2, <2>5 DEF Meaning, HasPage, Present
  <2> QED BY <2>3, <2>4, <2>5
<1> QED BY <1>3, <1>5

(* A page is its own base.                                                 *)
LEMMA AlignedPage ==
  ASSUME NEW a \in Inputs, _getOffset(a) = 0
  PROVE  a \in Pages /\ a - _getOffset(a) = a
<1>1. a \in Int /\ a - _getOffset(a) = a
  OBVIOUS
<1> QED BY <1>1 DEF Pages

LEMMA MapInTableStep ==
  ASSUME TablesInv, NEW v \in Inputs, NEW p \in Frames,
         NEW mode \in Modes, NEW level \in Levels,
         _getOffset(v) = 0, _getOffset(p) = 0, MapInTable(v, p, mode, level),
         UNCHANGED <<cr3, crashed>>
  PROVE  TablesInv' /\ AddressSpaces!Map(v, p, mode, level)
<1> DEFINE e == EntryFor(PTE(cr3, v), p, mode, level)
<1>1. e \in PTEs /\ Present(e)
  BY EntryForType
<1>2. cr3 \in Directories
  BY DEF TablesInv, TypeOK
<1>3. /\ Present(PDE(cr3, v))
      /\ UNCHANGED <<directory, allocated>>
      /\ table' = [table EXCEPT ![PDE(cr3, v).base][_getPageTableIndex(v)] = e]
      /\ returned' = 0
  BY DEF MapInTable, PTE
<1>4. v \in Pages /\ v - _getOffset(v) = v
  BY AlignedPage
<1>5. Reading(e) = [frame |-> p, writable |-> mode = "write",
                    user |-> level = "user", accessed |-> FALSE]
  BY EntryForType
<1> HIDE DEF e
<1>6. /\ table' \in [Tables -> [Indexes -> PTEs]]
      /\ \A d \in Directories, page \in Pages :
            Meaning(d, page)' = IF d = cr3 /\ page = v THEN Reading(e)
                                                       ELSE Meaning(d, page)
  <2>1. /\ table' \in [Tables -> [Indexes -> PTEs]]
        /\ \A d \in Directories, page \in Pages :
              Meaning(d, page)' =
                 IF d = cr3 /\ page = v - _getOffset(v)
                   THEN IF Present(e) THEN Reading(e) ELSE [frame |-> -1]
                   ELSE Meaning(d, page)
    BY <1>1, <1>2, <1>3, WriteEntry
  <2> QED BY <2>1, <1>1, <1>4
<1>7. TablesInv'
  BY <1>3, <1>6, SizeTypes DEF TablesInv, TypeOK, OnePlace, Uses
<1>8. AddressSpaces!Map(v, p, mode, level)
  <2>1. [d \in Directories |-> [page \in Pages |-> Meaning(d, page)]]' =
          [[d \in Directories |-> [page \in Pages |-> Meaning(d, page)]]
             EXCEPT ![cr3][v] = Reading(e)]
    BY <1>2, <1>4, <1>6
  <2>2. v \in AddressSpaces!Pages
    BY <1>4 DEF Pages, _getOffset, AddressSpaces!Pages, AddressSpaces!Base,
                AddressSpaces!Offset
  <2> QED BY <1>3, <1>5, <2>1, <2>2 DEF AddressSpaces!Map
<1> QED BY <1>7, <1>8

LEMMA MapInNewTableStep ==
  ASSUME TablesInv, NEW v \in Inputs, NEW p \in Frames,
         NEW mode \in Modes, NEW level \in Levels,
         _getOffset(v) = 0, _getOffset(p) = 0, MapInNewTable(v, p, mode, level),
         UNCHANGED <<cr3, crashed>>
  PROVE  TablesInv' /\ AddressSpaces!Map(v, p, mode, level)
<1> DEFINE i == _getPageDirectoryIndex(v)
           j == _getPageTableIndex(v)
           e == EntryFor(ZeroedPage[j], p, mode, level)
<1>1. /\ v \in Addresses /\ i \in Indexes /\ j \in Indexes /\ cr3 \in Directories
  <2>1. v \in Addresses
    BY DEF Addresses
  <2> QED BY <2>1, IndexTypes DEF TablesInv, TypeOK
<1>2. e \in PTEs /\ Present(e)
  BY EntryForType
<1>3. Reading(e) = [frame |-> p, writable |-> mode = "write",
                     user |-> level = "user", accessed |-> FALSE]
  <2>1. \A old : Reading(EntryFor(old, p, mode, level)) =
                    [frame |-> p, writable |-> mode = "write",
                     user |-> level = "user", accessed |-> FALSE]
    BY EntryForType
  <2> QED BY <2>1
<1>4. PICK t \in Heap \ allocated :
         /\ allocated' = allocated \cup {t}
         /\ directory' = [directory EXCEPT ![cr3][i] =
                             [base |-> t, bits |-> PAGE_PRESENT_MASK]]
         /\ table' = [table EXCEPT ![t] = [ZeroedPage EXCEPT ![j] = e]]
  BY DEF MapInNewTable
<1>5. ~ Present(directory[cr3][i]) /\ returned' = 0
  BY DEF MapInNewTable, PDE
<1>6. v \in Pages /\ v - _getOffset(v) = v
  BY AlignedPage
<1> HIDE DEF e
<1>7. /\ t \in Tables /\ t \notin Static /\ t \notin allocated
      /\ [base |-> t, bits |-> PAGE_PRESENT_MASK] \in PDEs
      /\ Present([base |-> t, bits |-> PAGE_PRESENT_MASK])
  BY DEF Tables, PDEs, Present
<1>8. /\ directory' \in [Directories -> [Indexes -> PDEs]]
      /\ directory'[cr3][i] = [base |-> t, bits |-> PAGE_PRESENT_MASK]
      /\ \A d \in Directories, k \in Indexes :
            ~(d = cr3 /\ k = i) => directory'[d][k] = directory[d][k]
  BY <1>1, <1>4, <1>7 DEF TablesInv, TypeOK
<1>9. /\ ZeroedPage \in [Indexes -> PTEs]
      /\ \A k \in Indexes : ~ Present(ZeroedPage[k])
  BY SizeTypes DEF ZeroedPage, PTEs, Present, PAGE_PRESENT_MASK
<1>10. /\ table' \in [Tables -> [Indexes -> PTEs]]
       /\ table'[t][j] = e
       /\ \A k \in Indexes : k # j => ~ Present(table'[t][k])
       /\ \A u \in Tables : u # t => table'[u] = table[u]
  BY <1>1, <1>2, <1>4, <1>7, <1>9 DEF TablesInv, TypeOK
<1>11. TypeOK'
  <2>1. 0 \in {-1} \cup 0 .. AddressSize - 1
    BY SizeTypes
  <2> QED BY <1>4, <1>5, <1>8, <1>10, <2>1 DEF TablesInv, TypeOK
<1>12. \A d \in Directories, k \in Indexes :
          Present(directory[d][k]) => directory[d][k].base \in allocated \cup Static
  BY DEF TablesInv, OnePlace
<1>13. OnePlace'
  <2>1. ASSUME NEW d \in Directories, NEW k \in Indexes, Present(directory'[d][k])
        PROVE  directory'[d][k].base \in allocated' \cup Static
    BY <1>4, <1>8, <1>12, <2>1
  <2>2. ASSUME NEW d \in Directories, NEW f \in Directories,
               NEW k \in Indexes, NEW m \in Indexes, NEW u \in Tables \cup {NULL},
               Present(directory'[d][k]), directory'[d][k].base = u,
               Present(directory'[f][m]), directory'[f][m].base = u
        PROVE  d = f /\ k = m
    <3>1. CASE u = t
      <4>1. ASSUME NEW g \in Directories, NEW n \in Indexes,
                   Present(directory'[g][n]), directory'[g][n].base = t
            PROVE  g = cr3 /\ n = i
        BY <1>7, <1>8, <1>12, <4>1
      <4> QED BY <2>2, <3>1, <4>1
    <3>2. CASE u # t
      <4>1. ~(d = cr3 /\ k = i) /\ ~(f = cr3 /\ m = i)
        BY <1>8, <2>2, <3>2
      <4>2. directory'[d][k] = directory[d][k] /\ directory'[f][m] = directory[f][m]
        BY <1>8, <4>1
      <4>3. Uses(u, d, k) /\ Uses(u, f, m)
        BY <2>2, <4>2 DEF Uses
      <4> QED BY <4>3 DEF TablesInv, OnePlace
    <3> QED BY <3>1, <3>2
  <2>3. \A d \in Directories, k \in Indexes :
           Present(directory[d][k])' = Present(directory'[d][k])
    BY DEF Present
  <2> QED BY <2>1, <2>2, <2>3 DEF OnePlace, Uses, Present
<1>14. ASSUME NEW d \in Directories, NEW page \in Pages
       PROVE  Meaning(d, page)' = IF d = cr3 /\ page = v THEN Reading(e)
                                                         ELSE Meaning(d, page)
  <2>1. /\ page \in Addresses /\ _getOffset(page) = 0
        /\ _getPageDirectoryIndex(page) \in Indexes
        /\ _getPageTableIndex(page) \in Indexes
    <3>1. PICK c \in Inputs : page = c - _getOffset(c)
      BY DEF Pages
    <3>2. c \in Addresses
      BY DEF Addresses
    <3> QED BY <3>1, <3>2, BaseIndexes, IndexTypes
  <2>2. CASE d = cr3 /\ _getPageDirectoryIndex(page) = i
    <3>1. /\ PDE(d, page)' = [base |-> t, bits |-> PAGE_PRESENT_MASK]
          /\ PTE(d, page)' = table'[t][_getPageTableIndex(page)]
          /\ Meaning(d, page) = [frame |-> -1]
      BY <1>5, <1>8, <2>2 DEF PDE, PTE, Meaning, HasPage
    <3>2. CASE page = v
      BY <1>2, <1>7, <1>10, <2>2, <3>1, <3>2 DEF Meaning, HasPage, Present, Reading
    <3>3. CASE page # v
      <4>1. _getPageTableIndex(page) # j
        BY <1>1, <2>1, <2>2, <3>3, PagesDiffer
      <4>2. ~ Present(PTE(d, page)')
        BY <1>10, <2>1, <3>1, <4>1
      <4> QED BY <3>1, <3>3, <4>2 DEF Meaning, HasPage, Present
    <3> QED BY <3>2, <3>3
  <2>3. CASE ~(d = cr3 /\ _getPageDirectoryIndex(page) = i)
    <3>1. PDE(d, page)' = PDE(d, page)
      BY <1>8, <2>1, <2>3 DEF PDE
    <3>2. CASE Present(PDE(d, page))
      <4>1. PDE(d, page).base \in Tables /\ PDE(d, page).base # t
        BY <1>7, <2>1, <3>2, EntryTypes
      <4>2. PTE(d, page)' = PTE(d, page)
        <5>1. table'[PDE(d, page).base] = table[PDE(d, page).base]
          BY <1>10, <4>1
        <5> QED BY <3>1, <5>1 DEF PTE
      <4> QED BY <2>3, <3>1, <3>2, <4>2 DEF Meaning, HasPage, Present, Reading
    <3>3. CASE ~ Present(PDE(d, page))
      BY <2>3, <3>1, <3>3 DEF Meaning, HasPage, Present
    <3> QED BY <3>2, <3>3
  <2> QED BY <2>2, <2>3
<1>15. AddressSpaces!Map(v, p, mode, level)
  <2>1. [d \in Directories |-> [page \in Pages |-> Meaning(d, page)]]' =
          [[d \in Directories |-> [page \in Pages |-> Meaning(d, page)]]
             EXCEPT ![cr3][v] = Reading(e)]
    BY <1>1, <1>6, <1>14
  <2>2. v \in AddressSpaces!Pages
    BY <1>6 DEF Pages, _getOffset, AddressSpaces!Pages, AddressSpaces!Base,
                AddressSpaces!Offset
  <2> QED BY <1>5, <1>3, <2>1, <2>2 DEF AddressSpaces!Map
<1> QED BY <1>11, <1>13, <1>15 DEF TablesInv

(* The page of an address has its entries.                                 *)
LEMMA PageOfAddress ==
  ASSUME NEW a \in Inputs, NEW d \in Directories
  PROVE  /\ a - _getOffset(a) \in Pages
         /\ PDE(d, a - _getOffset(a)) = PDE(d, a)
         /\ PTE(d, a - _getOffset(a)) = PTE(d, a)
         /\ AddressSpaces!Base(a) = a - _getOffset(a)
         /\ AddressSpaces!Offset(a) = _getOffset(a)
<1> DEFINE b == a - _getOffset(a)
<1>1. a \in Addresses
  BY DEF Addresses
<1>2. b \div PageSize = a \div PageSize
  BY <1>1, BaseIndexes
<1>3. /\ _getPageDirectoryIndex(b) = _getPageDirectoryIndex(a)
      /\ _getPageTableIndex(b) = _getPageTableIndex(a)
  BY <1>2 DEF _getPageDirectoryIndex, _getPageTableIndex
<1>4. PDE(d, b) = PDE(d, a)
  BY <1>3 DEF PDE
<1>5. PTE(d, b) = PTE(d, a)
  BY <1>3, <1>4 DEF PTE
<1>6. b \in Pages
  BY DEF Pages
<1> QED BY <1>4, <1>5, <1>6
        DEF AddressSpaces!Base, AddressSpaces!Offset, _getOffset

(* The abstract check of the rights is the one of translatePageTable.      *)
LEMMA RightsAgree ==
  ASSUME TablesInv, NEW a \in Inputs, NEW mode \in Modes, NEW level \in Levels,
         NEW m, m = Meaning(cr3, a - _getOffset(a))
  PROVE  /\ AddressSpaces!Allowed(m, mode, level)
               <=> Translates(cr3, a, mode, level)
         /\ HasPage(cr3, a) => m = Reading(PTE(cr3, a)) /\ m # [frame |-> -1]
         /\ ~ HasPage(cr3, a) => m = [frame |-> -1]
<1>1. cr3 \in Directories /\ a \in Addresses
  BY DEF TablesInv, TypeOK, Addresses
<1>2. m = IF HasPage(cr3, a) THEN Reading(PTE(cr3, a)) ELSE [frame |-> -1]
  BY <1>1, PageOfAddress DEF Meaning, HasPage
<1>3. ASSUME HasPage(cr3, a)
      PROVE  m = Reading(PTE(cr3, a)) /\ m # [frame |-> -1]
  <2>1. PTE(cr3, a) \in PTEs
    BY <1>1, <1>3, EntryTypes DEF HasPage
  <2>2. PTE(cr3, a).base # -1
    BY <2>1, SizeTypes DEF PTEs
  <2>3. Reading(PTE(cr3, a)).frame = PTE(cr3, a).base /\ [frame |-> -1].frame = -1
    BY DEF Reading
  <2> QED BY <1>2, <1>3, <2>2, <2>3
<1>4. CASE HasPage(cr3, a)
  <2>1. /\ m.user = (PAGE_USERMODE_MASK \subseteq PTE(cr3, a).bits)
        /\ m.writable = (PAGE_READWRITE_MASK \subseteq PTE(cr3, a).bits)
    BY <1>3, <1>4 DEF Reading
  <2>2. m # AddressSpaces!NotMapped
    BY <1>3, <1>4 DEF AddressSpaces!NotMapped
  <2> QED BY <1>2, <1>3, <1>4, <2>1, <2>2
          DEF AddressSpaces!Allowed, Translates, Permitted
<1>5. CASE ~ HasPage(cr3, a)
  BY <1>2, <1>5 DEF AddressSpaces!Allowed, AddressSpaces!NotMapped, Translates
<1> QED BY <1>4, <1>5, <1>2, <1>3

LEMMA TranslateStep ==
  ASSUME TablesInv, NEW a \in Inputs, NEW mode \in Modes, NEW level \in Levels,
         translatePageTable(a, mode, level)
  PROVE  /\ TablesInv'
         /\ \/ AddressSpaces!Translate(a, mode, level)
            \/ AddressSpaces!Refuse(a, mode, level)
<1> DEFINE b == a - _getOffset(a)
           m == Meaning(cr3, b)
<1>1. cr3 \in Directories /\ a \in Addresses
  BY DEF TablesInv, TypeOK, Addresses
<1>2. b \in Pages /\ AddressSpaces!Base(a) = b /\ AddressSpaces!Offset(a) = _getOffset(a)
  BY <1>1, PageOfAddress
<1>3. [d \in Directories |-> [page \in Pages |-> Meaning(d, page)]][cr3][b] = m
  BY <1>1, <1>2
<1>4. /\ AddressSpaces!Allowed(m, mode, level) <=> Translates(cr3, a, mode, level)
      /\ HasPage(cr3, a) => m = Reading(PTE(cr3, a))
  BY RightsAgree
<1>5. UNCHANGED <<cr3, directory, allocated, crashed>>
  BY DEF translatePageTable
<1>6. CASE Translates(cr3, a, mode, level)
  <2> DEFINE e == [PTE(cr3, a) EXCEPT !.bits = @ \cup PAGE_ACCESSED_MASK]
  <2>1. HasPage(cr3, a) /\ Present(PDE(cr3, a)) /\ PTE(cr3, a) \in PTEs
    BY <1>1, <1>6, EntryTypes DEF Translates, HasPage
  <2>2. /\ table' = [table EXCEPT ![PDE(cr3, a).base][_getPageTableIndex(a)] = e]
        /\ returned' = PTE(cr3, a).base + _getOffset(a)
    BY <1>6 DEF translatePageTable, PTE
  <2>3. /\ e \in PTEs
        /\ e.base = PTE(cr3, a).base
        /\ e.bits = PTE(cr3, a).bits \cup {5}
    BY <2>1 DEF PTEs, Bits, PAGE_ACCESSED_MASK
  <2>4. Present(e) /\ Reading(e) = AddressSpaces!Touched(Reading(PTE(cr3, a)))
    <3> DEFINE old == PTE(cr3, a)
    <3>1. Present(e)
      BY <2>1, <2>3 DEF HasPage, Present, PAGE_PRESENT_MASK
    <3>2. /\ (PAGE_READWRITE_MASK \subseteq e.bits)
                = (PAGE_READWRITE_MASK \subseteq old.bits)
          /\ (PAGE_USERMODE_MASK \subseteq e.bits)
                = (PAGE_USERMODE_MASK \subseteq old.bits)
          /\ (PAGE_ACCESSED_MASK \subseteq e.bits) = TRUE
      BY <2>3 DEF PAGE_READWRITE_MASK, PAGE_USERMODE_MASK, PAGE_ACCESSED_MASK
    <3> HIDE DEF e, old
    <3>3. Reading(e) = [frame    |-> old.base,
                        writable |-> PAGE_READWRITE_MASK \subseteq old.bits,
                        user     |-> PAGE_USERMODE_MASK \subseteq old.bits,
                        accessed |-> TRUE]
      BY <2>3, <3>2 DEF Reading, old
    <3>4. Reading(e) = AddressSpaces!Touched(Reading(old))
      BY <3>3 DEF Reading, AddressSpaces!Touched
    <3> QED BY <3>1, <3>4 DEF old
  <2> HIDE DEF e
  <2>5. /\ table' \in [Tables -> [Indexes -> PTEs]]
        /\ \A d \in Directories, page \in Pages :
              Meaning(d, page)' =
                 IF d = cr3 /\ page = a - _getOffset(a)
                   THEN IF Present(e) THEN Reading(e) ELSE [frame |-> -1]
                   ELSE Meaning(d, page)
    BY <1>1, <1>5, <2>1, <2>2, <2>3, WriteEntry
  <2>6. returned' \in Addresses
    BY <1>1, <2>1, <2>2, IndexTypes, InsideFrame DEF PTEs, Addresses
  <2>7. TablesInv'
    BY <1>5, <2>5, <2>6 DEF TablesInv, TypeOK, OnePlace, Uses, Addresses
  <2>8. [d \in Directories |-> [page \in Pages |-> Meaning(d, page)]]' =
          [[d \in Directories |-> [page \in Pages |-> Meaning(d, page)]]
             EXCEPT ![cr3][b] = Reading(e)]
    <3>1. \A d \in Directories, page \in Pages :
             Meaning(d, page)' = IF d = cr3 /\ page = b THEN Reading(e)
                                                        ELSE Meaning(d, page)
      BY <2>4, <2>5
    <3> QED BY <1>1, <1>2, <3>1
  <2>9. Reading(e) = AddressSpaces!Touched(m)
    BY <1>4, <2>1, <2>4
  <2>10. [d \in Directories |-> [page \in Pages |-> Meaning(d, page)]]' =
           [[d \in Directories |-> [page \in Pages |-> Meaning(d, page)]]
              EXCEPT ![cr3][b] = AddressSpaces!Touched(m)]
    BY <2>8, <2>9
  <2>11. returned' = m.frame + _getOffset(a)
    BY <1>4, <2>1, <2>2 DEF Reading
  <2>12. AddressSpaces!Translate(a, mode, level)
    BY <1>2, <1>3, <1>4, <1>5, <1>6, <2>10, <2>11 DEF AddressSpaces!Translate
  <2> QED BY <2>7, <2>12
<1>7. CASE ~ Translates(cr3, a, mode, level)
  <2>1. returned' = INVALID_ADDRESS /\ UNCHANGED table
    BY <1>7 DEF translatePageTable
  <2>2. TablesInv'
    BY <1>5, <2>1, SizeTypes DEF TablesInv, TypeOK, OnePlace, Uses, INVALID_ADDRESS
  <2>3. UNCHANGED [d \in Directories |-> [page \in Pages |-> Meaning(d, page)]]
    BY <1>5, <2>1 DEF Meaning, HasPage, PDE, PTE
  <2>4. AddressSpaces!Refuse(a, mode, level)
    BY <1>2, <1>3, <1>4, <1>5, <1>7, <2>1, <2>3
       DEF AddressSpaces!Refuse, AddressSpaces!INVALID_ADDRESS, INVALID_ADDRESS
  <2> QED BY <2>2, <2>4
<1> QED BY <1>6, <1>7

-----------------------------------------------------------------------------
(* Failing, or being killed, changes no page.                              *)
LEMMA SameMemory ==
  ASSUME UNCHANGED memory
  PROVE  UNCHANGED [d \in Directories |-> [page \in Pages |-> Meaning(d, page)]]
BY DEF memory, Meaning, HasPage, PDE, PTE

LEMMA FailStep ==
  ASSUME TablesInv, UNCHANGED <<cr3, memory, crashed>>, returned' = -1
  PROVE  TablesInv' /\ AddressSpaces!Fail
<1>1. UNCHANGED [d \in Directories |-> [page \in Pages |-> Meaning(d, page)]]
  BY SameMemory
<1>2. TablesInv'
  BY DEF memory, TablesInv, TypeOK, OnePlace, Uses
<1> QED BY <1>1, <1>2 DEF AddressSpaces!Fail

(* unmapPage, when other pages of the table stay mapped.                   *)
LEMMA UnmapInTableStep ==
  ASSUME TablesInv, NEW v \in Inputs, _getOffset(v) = 0, HasPage(cr3, v),
         table' = [table EXCEPT ![PDE(cr3, v).base] =
                     [table[PDE(cr3, v).base] EXCEPT
                        ![_getPageTableIndex(v)].bits = @ \ PAGE_PRESENT_MASK]],
         returned' = 0, UNCHANGED <<cr3, directory, allocated, crashed>>
  PROVE  TablesInv' /\ AddressSpaces!Unmap(v)
<1> DEFINE t == PDE(cr3, v).base
           j == _getPageTableIndex(v)
           e == [PTE(cr3, v) EXCEPT !.bits = @ \ PAGE_PRESENT_MASK]
<1>1. cr3 \in Directories /\ v \in Addresses /\ j \in Indexes
  <2>1. v \in Addresses
    BY DEF Addresses
  <2> QED BY <2>1, IndexTypes DEF TablesInv, TypeOK
<1>2. Present(PDE(cr3, v)) /\ PTE(cr3, v) \in PTEs /\ t \in Tables
  BY <1>1, EntryTypes DEF HasPage
<1>3. e \in PTEs /\ ~ Present(e)
  BY <1>2 DEF PTEs, Present, PAGE_PRESENT_MASK
<1>4. table' = [table EXCEPT ![t][j] = e]
  BY <1>1, <1>2 DEF PTE
<1>5. v \in Pages /\ v - _getOffset(v) = v
  BY AlignedPage
<1>6. PDE(cr3, v - _getOffset(v)) = PDE(cr3, v)
  BY <1>5
<1> HIDE DEF e
<1>7. /\ table' \in [Tables -> [Indexes -> PTEs]]
      /\ \A d \in Directories, page \in Pages :
            Meaning(d, page)' =
               IF d = cr3 /\ page = v - _getOffset(v)
                 THEN IF Present(e) THEN Reading(e) ELSE [frame |-> -1]
                 ELSE Meaning(d, page)
  BY <1>1, <1>2, <1>3, <1>4, WriteEntry
<1>8. TablesInv'
  BY <1>7, SizeTypes DEF TablesInv, TypeOK, OnePlace, Uses
<1>9. [d \in Directories |-> [page \in Pages |-> Meaning(d, page)]]' =
        [[d \in Directories |-> [page \in Pages |-> Meaning(d, page)]]
           EXCEPT ![cr3][v] = [frame |-> -1]]
  <2>1. \A d \in Directories, page \in Pages :
           Meaning(d, page)' = IF d = cr3 /\ page = v THEN [frame |-> -1]
                                                      ELSE Meaning(d, page)
    BY <1>3, <1>5, <1>7
  <2> QED BY <1>1, <1>5, <2>1
<1>10. Meaning(cr3, v) # [frame |-> -1]
  <2>1. v \in Inputs /\ \E mode \in Modes, level \in Levels : TRUE
    BY DEF Modes, Levels
  <2>2. HasPage(cr3, v) => Meaning(cr3, v - _getOffset(v)) # [frame |-> -1]
    BY <2>1, RightsAgree
  <2> QED BY <1>5, <2>2
<1>11. v \in AddressSpaces!Pages
  BY <1>5 DEF Pages, _getOffset, AddressSpaces!Pages, AddressSpaces!Base,
              AddressSpaces!Offset
<1> QED BY <1>1, <1>5, <1>8, <1>9, <1>10, <1>11
        DEF AddressSpaces!Unmap, AddressSpaces!NotMapped

(* unmapPage of the last page of a table.                                  *)
LEMMA UnmapLastStep ==
  ASSUME TablesInv, NEW v \in Inputs, _getOffset(v) = 0, HasPage(cr3, v),
         AllUnmapped([table[PDE(cr3, v).base] EXCEPT
                        ![_getPageTableIndex(v)].bits = @ \ PAGE_PRESENT_MASK]),
         table' = [table EXCEPT ![PDE(cr3, v).base] = ZeroedPage],
         FreeTable(PDE(cr3, v).base, cr3, _getPageDirectoryIndex(v)),
         returned' = 0, UNCHANGED <<cr3, crashed>>
  PROVE  TablesInv' /\ AddressSpaces!Unmap(v)
<1> DEFINE t == PDE(cr3, v).base
           i == _getPageDirectoryIndex(v)
           j == _getPageTableIndex(v)
<1>1. cr3 \in Directories /\ v \in Addresses /\ i \in Indexes /\ j \in Indexes
  <2>1. v \in Addresses
    BY DEF Addresses
  <2> QED BY <2>1, IndexTypes DEF TablesInv, TypeOK
<1>2. /\ PDE(cr3, v) = directory[cr3][i] /\ directory[cr3][i] \in PDEs
      /\ Present(PDE(cr3, v)) /\ t \in Tables /\ Uses(t, cr3, i)
  BY <1>1, EntryTypes DEF HasPage, Uses
<1>3. v \in Pages /\ v - _getOffset(v) = v
  BY AlignedPage
<1>4. \A k \in Indexes : k # j => ~ Present(table[t][k])
  BY <1>1, <1>2 DEF AllUnmapped, TablesInv, TypeOK
<1>5. /\ directory' \in [Directories -> [Indexes -> PDEs]]
      /\ ~ Present(directory'[cr3][i])
      /\ \A d \in Directories, k \in Indexes :
            ~(d = cr3 /\ k = i) => directory'[d][k] = directory[d][k]
  <2> DEFINE e == [directory[cr3][i] EXCEPT !.bits = @ \ PAGE_PRESENT_MASK]
  <2>1. e \in PDEs /\ ~ Present(e)
    BY <1>2 DEF PDEs, Present, PAGE_PRESENT_MASK
  <2>2. directory' = [directory EXCEPT ![cr3][i] = e]
    BY DEF FreeTable
  <2> HIDE DEF e
  <2> QED BY <1>1, <2>1, <2>2 DEF TablesInv, TypeOK
<1>6. /\ table' \in [Tables -> [Indexes -> PTEs]]
      /\ \A u \in Tables : u # t => table'[u] = table[u]
  <2>1. ZeroedPage \in [Indexes -> PTEs]
    BY SizeTypes DEF ZeroedPage, PTEs
  <2> QED BY <1>2, <2>1 DEF TablesInv, TypeOK
<1>7. TypeOK'
  <2>1. 0 \in {-1} \cup 0 .. AddressSize - 1
    BY SizeTypes
  <2>2. allocated' \in SUBSET Heap
    BY DEF FreeTable, TablesInv, TypeOK
  <2> QED BY <1>5, <1>6, <2>1, <2>2 DEF TablesInv, TypeOK
<1>8. ASSUME NEW d \in Directories, NEW k \in Indexes, Present(directory'[d][k])
      PROVE  /\ ~(d = cr3 /\ k = i) /\ directory'[d][k] = directory[d][k]
             /\ directory[d][k].base # t
             /\ directory[d][k].base \in Tables \cup {NULL}
             /\ directory[d][k].base \in allocated \cup Static
  <2>1. ~(d = cr3 /\ k = i) /\ directory'[d][k] = directory[d][k]
    BY <1>5, <1>8
  <2>2. directory[d][k] \in PDEs
    BY DEF TablesInv, TypeOK
  <2>3. directory[d][k].base \in Tables \cup {NULL}
    BY <2>2 DEF PDEs
  <2>4. directory[d][k].base \in allocated \cup Static
    BY <1>8, <2>1 DEF TablesInv, OnePlace
  <2>5. directory[d][k].base # t
    BY <1>1, <1>2, <1>8, <2>1 DEF TablesInv, OnePlace, Uses
  <2> QED BY <2>1, <2>3, <2>4, <2>5
<1>9. OnePlace'
  <2>1. ASSUME NEW d \in Directories, NEW k \in Indexes, Present(directory'[d][k])
        PROVE  directory'[d][k].base \in allocated' \cup Static
    BY <1>8, <2>1 DEF FreeTable
  <2>2. ASSUME NEW d \in Directories, NEW f \in Directories,
               NEW k \in Indexes, NEW m \in Indexes, NEW u \in Tables \cup {NULL},
               Present(directory'[d][k]), directory'[d][k].base = u,
               Present(directory'[f][m]), directory'[f][m].base = u
        PROVE  d = f /\ k = m
    <3>1. Uses(u, d, k) /\ Uses(u, f, m)
      BY <1>8, <2>2 DEF Uses
    <3> QED BY <3>1 DEF TablesInv, OnePlace
  <2> QED BY <2>1, <2>2 DEF OnePlace, Uses, Present
<1>10. ASSUME NEW d \in Directories, NEW page \in Pages
       PROVE  Meaning(d, page)' = IF d = cr3 /\ page = v THEN [frame |-> -1]
                                                         ELSE Meaning(d, page)
  <2>1. /\ page \in Addresses /\ _getOffset(page) = 0
        /\ _getPageDirectoryIndex(page) \in Indexes
        /\ _getPageTableIndex(page) \in Indexes
    <3>1. PICK c \in Inputs : page = c - _getOffset(c)
      BY DEF Pages
    <3>2. c \in Addresses
      BY DEF Addresses
    <3> QED BY <3>1, <3>2, BaseIndexes, IndexTypes
  <2>2. CASE d = cr3 /\ _getPageDirectoryIndex(page) = i
    <3>1. ~ Present(PDE(d, page)')
      BY <1>5, <2>2 DEF PDE
    <3>2. Meaning(d, page)' = [frame |-> -1]
      BY <3>1 DEF Meaning, HasPage, Present
    <3>3. CASE page # v
      <4>1. _getPageTableIndex(page) # j
        BY <1>1, <2>1, <2>2, <3>3, PagesDiffer
      <4>2. ~ Present(PTE(d, page))
        BY <1>2, <1>4, <2>1, <2>2, <4>1 DEF PTE, PDE
      <4> QED BY <3>2, <3>3, <4>2 DEF Meaning, HasPage
    <3> QED BY <2>2, <3>2, <3>3
  <2>3. CASE ~(d = cr3 /\ _getPageDirectoryIndex(page) = i)
    <3>1. PDE(d, page)' = PDE(d, page)
      BY <1>5, <2>1, <2>3 DEF PDE
    <3>2. CASE Present(PDE(d, page))
      <4>1. PDE(d, page).base \in Tables /\ PDE(d, page).base # t
        <5>1. PDE(d, page).base \in Tables /\ PDE(d, page) = directory[d][_getPageDirectoryIndex(page)]
          BY <2>1, <3>2, EntryTypes
        <5>2. PDE(d, page).base # t
          BY <1>1, <1>2, <2>1, <2>3, <3>2, <5>1 DEF TablesInv, OnePlace, Uses
        <5> QED BY <5>1, <5>2
      <4>2. table'[PDE(d, page).base] = table[PDE(d, page).base]
        BY <1>6, <4>1
      <4>3. PTE(d, page)' = PTE(d, page)
        BY <3>1, <4>2 DEF PTE
      <4> QED BY <2>3, <3>1, <3>2, <4>3 DEF Meaning, HasPage, Present, Reading
    <3>3. CASE ~ Present(PDE(d, page))
      BY <2>3, <3>1, <3>3 DEF Meaning, HasPage, Present
    <3> QED BY <3>2, <3>3
  <2> QED BY <2>2, <2>3
<1>11. [d \in Directories |-> [page \in Pages |-> Meaning(d, page)]]' =
         [[d \in Directories |-> [page \in Pages |-> Meaning(d, page)]]
            EXCEPT ![cr3][v] = [frame |-> -1]]
  BY <1>1, <1>3, <1>10
<1>12. Meaning(cr3, v) # [frame |-> -1]
  <2>1. \E mode \in Modes, level \in Levels : TRUE
    BY DEF Modes, Levels
  <2>2. HasPage(cr3, v) => Meaning(cr3, v - _getOffset(v)) # [frame |-> -1]
    BY <2>1, RightsAgree
  <2> QED BY <1>3, <2>2
<1>13. v \in AddressSpaces!Pages
  BY <1>3 DEF Pages, _getOffset, AddressSpaces!Pages, AddressSpaces!Base,
              AddressSpaces!Offset
<1> QED BY <1>1, <1>3, <1>7, <1>9, <1>11, <1>12, <1>13
        DEF AddressSpaces!Unmap, AddressSpaces!NotMapped, TablesInv

LEMMA UnmapStep ==
  ASSUME TablesInv, NEW v \in Inputs, unmapPage(v)
  PROVE  /\ TablesInv'
         /\ \/ AddressSpaces!Fail
            \/ AddressSpaces!Unmap(v)
            \/ UNCHANGED AddressSpaces!vars
<1>1. CASE UnmapFails(v)
  <2>1. UNCHANGED <<cr3, memory, crashed>> /\ returned' = -1
    BY <1>1 DEF unmapPage, UnmapFails
  <2> QED BY <2>1, FailStep
<1>2. CASE UnmapPresent(v)
  <2> DEFINE t == PDE(cr3, v).base
             page == [table[t] EXCEPT ![_getPageTableIndex(v)].bits =
                                         @ \ PAGE_PRESENT_MASK]
  <2>1. _getOffset(v) = 0 /\ HasPage(cr3, v) /\ UNCHANGED cr3
    BY <1>2 DEF UnmapPresent, unmapPage
  <2>2. CASE /\ table' = [table EXCEPT ![t] = page]
             /\ returned' = 0
             /\ UNCHANGED <<directory, allocated, crashed>>
    BY <2>1, <2>2, UnmapInTableStep
  <2>3. CASE /\ AllUnmapped(page)
             /\ table' = [table EXCEPT ![t] = ZeroedPage]
             /\ FreeTable(t, cr3, _getPageDirectoryIndex(v))
             /\ returned' = 0
             /\ UNCHANGED crashed
    BY <2>1, <2>3, UnmapLastStep
  <2>4. CASE crashed' = TRUE /\ UNCHANGED <<memory, returned>>
    <3>1. TablesInv'
      BY <2>1, <2>4 DEF memory, TablesInv, TypeOK, OnePlace, Uses
    <3>2. UNCHANGED [d \in Directories |-> [q \in Pages |-> Meaning(d, q)]]
      BY <2>4, SameMemory
    <3> QED BY <2>1, <2>4, <3>1, <3>2 DEF AddressSpaces!vars
  <2> QED BY <1>2, <2>2, <2>3, <2>4 DEF UnmapPresent
<1> QED BY <1>1, <1>2 DEF unmapPage

LEMMA MapStep ==
  ASSUME TablesInv, NEW v \in Inputs, NEW p \in Frames, NEW mode \in Modes,
         NEW level \in Levels, mapPage(v, p, mode, level)
  PROVE  TablesInv' /\ (AddressSpaces!Map(v, p, mode, level) \/ AddressSpaces!Fail)
<1>1. UNCHANGED <<cr3, crashed>>
  BY DEF mapPage
<1>2. CASE _getOffset(v) = 0 /\ _getOffset(p) = 0 /\ MapInTable(v, p, mode, level)
  BY <1>1, <1>2, MapInTableStep
<1>3. CASE _getOffset(v) = 0 /\ _getOffset(p) = 0 /\ MapInNewTable(v, p, mode, level)
  BY <1>1, <1>3, MapInNewTableStep
<1>4. CASE MapFails(v, p)
  <2>1. UNCHANGED <<cr3, memory, crashed>> /\ returned' = -1
    BY <1>1, <1>4 DEF MapFails
  <2> QED BY <2>1, FailStep
<1> QED BY <1>2, <1>3, <1>4 DEF mapPage

LEMMA SwitchStep ==
  ASSUME TablesInv, NEW d \in Directories, setPageDirectory(d)
  PROVE  TablesInv' /\ AddressSpaces!Switch(d)
<1>1. cr3' = d /\ UNCHANGED <<memory, crashed, returned>>
  BY DEF setPageDirectory
<1>2. TablesInv'
  BY <1>1 DEF memory, TablesInv, TypeOK, OnePlace, Uses
<1>3. UNCHANGED [e \in Directories |-> [page \in Pages |-> Meaning(e, page)]]
  BY <1>1, SameMemory
<1> QED BY <1>1, <1>2, <1>3 DEF AddressSpaces!Switch

(* Every step keeps the tables apart, and is one of the address spaces or  *)
(* changes nothing there.                                                  *)
LEMMA NextStep ==
  ASSUME TablesInv, [Next]_vars
  PROVE  TablesInv' /\ [AddressSpaces!Next]_(AddressSpaces!vars)
<1>1. CASE UNCHANGED vars
  <2>1. UNCHANGED [d \in Directories |-> [page \in Pages |-> Meaning(d, page)]]
    BY <1>1, SameMemory DEF vars
  <2>2. TablesInv'
    BY <1>1 DEF vars, memory, TablesInv, TypeOK, OnePlace, Uses
  <2>3. UNCHANGED <<cr3, returned>>
    BY <1>1 DEF vars
  <2> QED BY <2>1, <2>2, <2>3 DEF AddressSpaces!vars
<1>2. ASSUME NEW d \in Directories, setPageDirectory(d)
      PROVE  TablesInv' /\ AddressSpaces!Next
  BY <1>2, SwitchStep DEF AddressSpaces!Next
<1>3. ASSUME NEW v \in Inputs, NEW p \in Frames, NEW r \in Rights,
             mapPage(v, p, r[1], r[2])
      PROVE  TablesInv' /\ AddressSpaces!Next
  <2>1. r[1] \in Modes /\ r[2] \in Levels
    OBVIOUS
  <2>2. TablesInv' /\ (AddressSpaces!Map(v, p, r[1], r[2]) \/ AddressSpaces!Fail)
    BY <1>3, <2>1, MapStep
  <2> QED BY <2>1, <2>2
          DEF AddressSpaces!Next, AddressSpaces!Modes, AddressSpaces!Levels,
              Modes, Levels
<1>4. ASSUME NEW v \in Inputs, NEW mode \in Modes, NEW level \in Levels,
             translatePageTable(v, mode, level)
      PROVE  TablesInv' /\ AddressSpaces!Next
  <2>1. /\ TablesInv'
        /\ \/ AddressSpaces!Translate(v, mode, level)
           \/ AddressSpaces!Refuse(v, mode, level)
    BY <1>4, TranslateStep
  <2> QED BY <2>1
          DEF AddressSpaces!Next, AddressSpaces!Modes, AddressSpaces!Levels,
              Modes, Levels
<1>5. ASSUME NEW v \in Inputs, unmapPage(v)
      PROVE  TablesInv' /\ [AddressSpaces!Next]_(AddressSpaces!vars)
  <2>1. /\ TablesInv'
        /\ \/ AddressSpaces!Fail
           \/ AddressSpaces!Unmap(v)
           \/ UNCHANGED AddressSpaces!vars
    BY <1>5, UnmapStep
  <2> QED BY <2>1 DEF AddressSpaces!Next
<1> QED BY <1>1, <1>2, <1>3, <1>4, <1>5 DEF Next

(* At the beginning no page is mapped: the static tables are empty.        *)
LEMMA InitMapping == Init => AddressSpaces!Init
<1> SUFFICES ASSUME Init PROVE AddressSpaces!Init
  OBVIOUS
<1>1. TablesInv
  BY InitInv
<1>2. ASSUME NEW d \in Directories, NEW page \in Pages
      PROVE  Meaning(d, page) = [frame |-> -1]
  <2>1. page \in Addresses
    <3>1. PICK c \in Inputs : page = c - _getOffset(c)
      BY DEF Pages
    <3>2. c \in Addresses
      BY DEF Addresses
    <3> QED BY <3>1, <3>2, BaseIndexes
  <2>2. _getPageTableIndex(page) \in Indexes
    BY <2>1, IndexTypes
  <2>3. ASSUME Present(PDE(d, page)) PROVE ~ Present(PTE(d, page))
    <3>1. PDE(d, page).base \in Tables
      BY <1>1, <2>1, <2>3, EntryTypes
    <3>2. PTE(d, page) = [base |-> 0, bits |-> {}]
      BY <2>2, <3>1 DEF Init, PTE, ZeroedPage
    <3> QED BY <3>2 DEF Present, PAGE_PRESENT_MASK
  <2> QED BY <2>3 DEF Meaning, HasPage
<1>3. AddressSpaces!Pages = Pages
  BY DEF AddressSpaces!Pages, Pages, AddressSpaces!Base, AddressSpaces!Offset,
         _getOffset
<1>4. cr3 \in Directories /\ returned = 0
  BY DEF Init
<1> QED BY <1>2, <1>3, <1>4 DEF AddressSpaces!Init, AddressSpaces!NotMapped

(* No page table is shared, and none is used after it was freed; entries   *)
(* and results stay in range: a translated address of a mapped page does   *)
(* not pass 32 bits.                                                       *)
THEOREM TablesApart == Spec => []TablesInv
<1>1. TablesInv /\ [Next]_vars => TablesInv'
  BY NextStep
<1> QED BY InitInv, <1>1, PTL DEF Spec

(* The page table implements an address space per directory: mapPage,      *)
(* unmapPage and translatePageTable touch the mapping of one page.         *)
THEOREM Implementation == Spec => ImplementsAddressSpace
<1>1. TablesInv /\ [Next]_vars => [AddressSpaces!Next]_(AddressSpaces!vars)
  BY NextStep
<1> QED BY TablesApart, InitMapping, <1>1, PTL
        DEF Spec, ImplementsAddressSpace, AddressSpaces!Spec

-----------------------------------------------------------------------------
(* NoLeak is inductive given TablesInv: each step concerns one table.      *)
LEMMA InitNoLeak == Init => NoLeak
BY DEF Init, NoLeak

(* What a table keeps that is not the one a step is about.                 *)
LEMMA OtherTable ==
  ASSUME TablesInv, NoLeak, NEW t \in allocated, table'[t] = table[t],
         \A d \in Directories, i \in Indexes : Uses(t, d, i) => Uses(t, d, i)'
  PROVE  /\ \E d \in Directories : \E i \in Indexes : Uses(t, d, i)'
         /\ \E j \in Indexes : Present(table[t][j])'
<1>1. PICK d \in Directories, i \in Indexes, j \in Indexes :
         Uses(t, d, i) /\ Present(table[t][j])
  BY DEF NoLeak
<1> QED BY <1>1 DEF Present

(* One page of a table is written and some page of it is mapped then.      *)
LEMMA PageWritten ==
  ASSUME TablesInv, NoLeak, NEW t \in Tables, NEW page \in [Indexes -> PTEs],
         table' = [table EXCEPT ![t] = page],
         \E j \in Indexes : Present(page[j]),
         UNCHANGED <<directory, allocated>>
  PROVE  NoLeak'
<1> SUFFICES ASSUME NEW u \in allocated
             PROVE  /\ \E d \in Directories : \E i \in Indexes : Uses(u, d, i)'
                    /\ \E j \in Indexes : Present(table[u][j])'
  BY DEF NoLeak
<1>1. \A d \in Directories, i \in Indexes : Uses(u, d, i) <=> Uses(u, d, i)'
  BY DEF Uses, Present
<1>2. u \in Tables /\ table \in [Tables -> [Indexes -> PTEs]]
  BY DEF TablesInv, TypeOK, Tables
<1>3. CASE u = t
  <2>1. table'[u] = page
    BY <1>2, <1>3
  <2>2. \E j \in Indexes : Present(table[u][j])'
    BY <2>1 DEF Present
  <2> QED BY <1>1, <2>2 DEF NoLeak
<1>4. CASE u # t
  <2>1. table'[u] = table[u]
    BY <1>2, <1>4
  <2> QED BY <1>1, <2>1, OtherTable
<1> QED BY <1>3, <1>4

LEMMA MapLeaks ==
  ASSUME TablesInv, NoLeak, NEW v \in Inputs, NEW p \in Frames, NEW mode \in Modes,
         NEW level \in Levels, mapPage(v, p, mode, level)
  PROVE  NoLeak'
<1> DEFINE i == _getPageDirectoryIndex(v)
           j == _getPageTableIndex(v)
<1>1. v \in Addresses /\ p \in Addresses /\ cr3 \in Directories
  BY DEF Addresses, TablesInv, TypeOK
<1>2. i \in Indexes /\ j \in Indexes
  BY <1>1, IndexTypes
<1>3. CASE MapFails(v, p)
  BY <1>3 DEF MapFails, memory, NoLeak, Uses, Present
<1>4. CASE _getOffset(p) = 0 /\ MapInTable(v, p, mode, level)
  <2> DEFINE t == PDE(cr3, v).base
             e == EntryFor(PTE(cr3, v), p, mode, level)
  <2>1. Present(PDE(cr3, v)) /\ UNCHANGED <<directory, allocated>>
    BY <1>4 DEF MapInTable
  <2>2. t \in Tables /\ table[t] \in [Indexes -> PTEs]
    BY <1>1, <2>1, EntryTypes DEF TablesInv, TypeOK
  <2>3. e \in PTEs /\ Present(e)
    BY <1>1, <1>4 DEF EntryFor, PTEs, Addresses, Bits, Present, PAGE_PRESENT_MASK,
                      PAGE_READWRITE_MASK, PAGE_USERMODE_MASK
  <2>4. table' = [table EXCEPT ![t][j] = e]
    BY <1>4 DEF MapInTable, PTE, EntryFor
  <2> HIDE DEF e, t, j
  <2>5. PICK page : page = [table[t] EXCEPT ![j] = e]
    OBVIOUS
  <2>6. page \in [Indexes -> PTEs] /\ page[j] = e
    BY <1>2, <2>2, <2>3, <2>5
  <2>7. table' = [table EXCEPT ![t] = page]
    BY <2>4, <2>5
  <2> QED BY <1>2, <2>1, <2>2, <2>3, <2>6, <2>7, PageWritten
<1>5. CASE _getOffset(p) = 0 /\ MapInNewTable(v, p, mode, level)
  <2>1. PICK t \in Heap \ allocated :
           /\ allocated' = allocated \cup {t}
           /\ directory' = [directory EXCEPT
                 ![cr3][i] = [base |-> t, bits |-> PAGE_PRESENT_MASK]]
           /\ table' = [table EXCEPT ![t] = [ZeroedPage EXCEPT ![j] =
                           EntryFor(ZeroedPage[j], p, mode, level)]]
           /\ ~ Present(PDE(cr3, v))
    BY <1>5 DEF MapInNewTable
  <2>2. table \in [Tables -> [Indexes -> PTEs]] /\ allocated \subseteq Heap /\ t \in Tables
        /\ directory \in [Directories -> [Indexes -> PDEs]]
    BY DEF TablesInv, TypeOK, Tables
  <2> HIDE DEF i, j
  <2>3. \E d \in Directories, k \in Indexes : Uses(t, d, k)'
    <3>1. PICK d \in Directories, k \in Indexes : d = cr3 /\ k = i
      BY <1>1, <1>2
    <3>2. directory'[d][k] = [base |-> t, bits |-> PAGE_PRESENT_MASK]
      BY <1>1, <1>2, <2>1, <2>2, <3>1
    <3>3. directory'[d][k].base = t /\ directory'[d][k].bits = PAGE_PRESENT_MASK
      BY <3>2
    <3> QED BY <3>3 DEF Uses, Present
  <2>4. \E k \in Indexes : Present(table[t][k])'
    <3>1. table'[t][j] = EntryFor(ZeroedPage[j], p, mode, level)
      BY <1>2, <2>1, <2>2 DEF ZeroedPage
    <3>2. PAGE_PRESENT_MASK \subseteq table'[t][j].bits
      BY <3>1 DEF EntryFor
    <3> QED BY <1>2, <3>2 DEF Present
  <2>5. ASSUME NEW u \in allocated
        PROVE  /\ \E d \in Directories : \E k \in Indexes : Uses(u, d, k)'
               /\ \E k \in Indexes : Present(table[u][k])'
    <3>1. table'[u] = table[u]
      BY <2>1, <2>2 DEF Tables
    <3>2. ~ Present(directory[cr3][i])
      BY <2>1 DEF PDE, i
    <3>3. ASSUME NEW d \in Directories, NEW k \in Indexes, Uses(u, d, k)
          PROVE  Uses(u, d, k)'
      <4>1. ~(d = cr3 /\ k = i)
        BY <3>2, <3>3 DEF Uses
      <4>2. directory'[d][k] = directory[d][k]
        BY <1>1, <1>2, <2>1, <2>2, <4>1
      <4> QED BY <3>3, <4>2 DEF Uses, Present
    <3> QED BY <3>1, <3>3, OtherTable
  <2> QED BY <1>1, <1>2, <2>1, <2>3, <2>4, <2>5 DEF NoLeak
<1> QED BY <1>3, <1>4, <1>5 DEF mapPage

LEMMA TranslateLeaks ==
  ASSUME TablesInv, NoLeak, NEW v \in Inputs, NEW mode \in Modes, NEW level \in Levels,
         translatePageTable(v, mode, level)
  PROVE  NoLeak'
<1> DEFINE t == PDE(cr3, v).base
           j == _getPageTableIndex(v)
           e == [PTE(cr3, v) EXCEPT !.bits = @ \cup PAGE_ACCESSED_MASK]
<1>1. v \in Addresses /\ cr3 \in Directories /\ j \in Indexes
  <2>1. v \in Addresses
    BY DEF Addresses
  <2> QED BY <2>1, IndexTypes DEF TablesInv, TypeOK
<1>2. UNCHANGED <<directory, allocated>>
  BY DEF translatePageTable
<1>3. CASE ~ Translates(cr3, v, mode, level)
  BY <1>2, <1>3 DEF translatePageTable, NoLeak, Uses, Present
<1>4. CASE Translates(cr3, v, mode, level)
  <2>1. HasPage(cr3, v)
    BY <1>4 DEF Translates
  <2>2. t \in Tables /\ table[t] \in [Indexes -> PTEs] /\ PTE(cr3, v) \in PTEs
    BY <1>1, <2>1, EntryTypes DEF HasPage, TablesInv, TypeOK
  <2>3. e \in PTEs /\ Present(e)
    BY <2>1, <2>2 DEF PTEs, Bits, HasPage, Present, PAGE_ACCESSED_MASK
  <2>4. table' = [table EXCEPT ![t][j] = e]
    BY <1>4 DEF translatePageTable, PTE
  <2> HIDE DEF e, t, j
  <2>5. PICK page : page = [table[t] EXCEPT ![j] = e]
    OBVIOUS
  <2>6. page \in [Indexes -> PTEs] /\ page[j] = e
    BY <1>1, <2>2, <2>3, <2>5
  <2>7. table' = [table EXCEPT ![t] = page]
    BY <2>4, <2>5
  <2> QED BY <1>1, <1>2, <2>2, <2>3, <2>6, <2>7, PageWritten
<1> QED BY <1>3, <1>4

LEMMA UnmapLeaks ==
  ASSUME TablesInv, NoLeak, NEW v \in Inputs, unmapPage(v)
  PROVE  NoLeak'
<1> DEFINE t == PDE(cr3, v).base
           i == _getPageDirectoryIndex(v)
           j == _getPageTableIndex(v)
           page == [table[t] EXCEPT ![j].bits = @ \ PAGE_PRESENT_MASK]
<1>1. v \in Addresses /\ cr3 \in Directories /\ i \in Indexes /\ j \in Indexes
  <2>1. v \in Addresses
    BY DEF Addresses
  <2> QED BY <2>1, IndexTypes DEF TablesInv, TypeOK
<1>2. CASE UnmapFails(v) \/ UNCHANGED memory
  BY <1>2 DEF UnmapFails, memory, NoLeak, Uses, Present
<1>3. ASSUME HasPage(cr3, v)
      PROVE  /\ t \in Tables /\ table[t] \in [Indexes -> PTEs]
             /\ Uses(t, cr3, i)
  BY <1>1, <1>3, EntryTypes DEF HasPage, TablesInv, TypeOK, Uses, PDE
<1>4. CASE /\ HasPage(cr3, v) /\ ~ AllUnmapped(page)
           /\ table' = [table EXCEPT ![t] = page]
           /\ UNCHANGED <<directory, allocated>>
  <2>1. page \in [Indexes -> PTEs]
    BY <1>1, <1>3, <1>4 DEF PTEs
  <2>2. \E k \in Indexes : Present(page[k])
    BY <1>4 DEF AllUnmapped
  <2> HIDE DEF page, t
  <2> QED BY <1>3, <1>4, <2>1, <2>2, PageWritten
<1>5. CASE /\ HasPage(cr3, v)
           /\ table' = [table EXCEPT ![t] = ZeroedPage]
           /\ FreeTable(t, cr3, i)
  <2> SUFFICES ASSUME NEW u \in allocated, u # t
               PROVE  /\ \E d \in Directories : \E k \in Indexes : Uses(u, d, k)'
                      /\ \E k \in Indexes : Present(table[u][k])'
    BY <1>5 DEF NoLeak, FreeTable
  <2> HIDE DEF t, i
  <2>1. /\ table \in [Tables -> [Indexes -> PTEs]] /\ u \in Tables
        /\ directory \in [Directories -> [Indexes -> PDEs]]
    BY DEF TablesInv, TypeOK, Tables
  <2>2. table'[u] = table[u]
    BY <1>5, <2>1
  <2>3. ASSUME NEW d \in Directories, NEW k \in Indexes, Uses(u, d, k)
        PROVE  Uses(u, d, k)'
    <3>1. ~(d = cr3 /\ k = i)
      BY <1>3, <1>5, <2>3 DEF Uses
    <3>2. directory'[d][k] = directory[d][k]
      BY <1>1, <1>5, <2>1, <3>1 DEF FreeTable
    <3> QED BY <2>3, <3>2 DEF Uses, Present
  <2> QED BY <2>2, <2>3, OtherTable
<1> QED BY <1>2, <1>4, <1>5 DEF unmapPage, UnmapPresent, memory

LEMMA NextNoLeak == TablesInv /\ NoLeak /\ [Next]_vars => NoLeak'
<1> SUFFICES ASSUME TablesInv, NoLeak, [Next]_vars PROVE NoLeak'
  OBVIOUS
<1>1. CASE UNCHANGED memory
  BY <1>1 DEF memory, NoLeak, Uses, Present
<1>2. ASSUME NEW v \in Inputs, NEW p \in Frames, NEW r \in Rights,
             mapPage(v, p, r[1], r[2])
      PROVE  NoLeak'
  <2>1. r[1] \in Modes /\ r[2] \in Levels
    OBVIOUS
  <2> QED BY <1>2, <2>1, MapLeaks
<1>3. ASSUME NEW v \in Inputs, NEW mode \in Modes, NEW level \in Levels,
             translatePageTable(v, mode, level)
      PROVE  NoLeak'
  BY <1>3, TranslateLeaks
<1>4. ASSUME NEW v \in Inputs, unmapPage(v) PROVE NoLeak'
  BY <1>4, UnmapLeaks
<1> QED BY <1>1, <1>2, <1>3, <1>4 DEF Next, setPageDirectory, vars

(* Every table that posix_memalign gave and nobody freed is in a directory *)
(* and maps a page: no path of mapPage or unmapPage loses one, and none is *)
(* kept once its last page was unmapped.                                   *)
THEOREM NoTableLeaks == Spec => []NoLeak
<1> QED BY InitNoLeak, NextNoLeak, TablesApart, PTL DEF Spec
=============================================================================

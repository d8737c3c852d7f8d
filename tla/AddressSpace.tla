----------------------------- MODULE AddressSpace -----------------------------
(***************************************************************************)
(* What the page table of assignment 7 promises: each address space maps   *)
(* pages to frames, with the rights the page was mapped with last, and     *)
(* translation changes nothing but the accessed mark of a page that may be *)
(* accessed.  There are no tables here.                                    *)
(***************************************************************************)
EXTENDS Integers

CONSTANTS Spaces,         \* the address spaces
          PageSize,       \* 4096 in the code
          AddressSize,    \* number of addresses; 2^32 in the code
          Inputs,         \* the addresses that callers pass
          Frames          \* the frames they map pages to

Modes  == {"read", "write"}
Levels == {"user", "kernel"}

(* INVALID_ADDRESS is the last address.                                    *)
INVALID_ADDRESS == AddressSize - 1

Offset(address) == address % PageSize
Base(address)   == address - Offset(address)

NotMapped == [frame |-> -1]
Mapped    == [frame : 0 .. AddressSize - 1, writable : BOOLEAN,
              user : BOOLEAN, accessed : BOOLEAN]

VARIABLES current,     \* the space that translation uses
          mapping,     \* for each space and the base of each page
          returned     \* result of the last call

vars == <<current, mapping, returned>>

Pages == {Base(a) : a \in Inputs}

Init == /\ current \in Spaces
        /\ mapping = [s \in Spaces |-> [p \in Pages |-> NotMapped]]
        /\ returned = 0

(* Memory for a new table may run out, and a page may not be mapped.       *)
Fail == returned' = -1 /\ UNCHANGED <<current, mapping>>

Map(page, frame, mode, level) ==
    /\ returned' = 0
    /\ page \in Pages
    /\ UNCHANGED current
    /\ mapping' = [mapping EXCEPT ![current][page] =
                      [frame    |-> frame,
                       writable |-> mode = "write",
                       user     |-> level = "user",
                       accessed |-> FALSE]]

(* The kernel may do anything to a mapped page.                            *)
Allowed(m, mode, level) ==
    /\ m # NotMapped
    /\ level = "user" => m.user /\ (mode = "write" => m.writable)

Touched(m) == [frame |-> m.frame, writable |-> m.writable, user |-> m.user,
               accessed |-> TRUE]

Translate(address, mode, level) ==
    LET m == mapping[current][Base(address)] IN
    /\ Allowed(m, mode, level)
    /\ returned' = m.frame + Offset(address)
    /\ UNCHANGED current
    /\ mapping' = [mapping EXCEPT ![current][Base(address)] = Touched(m)]

Refuse(address, mode, level) ==
    /\ returned' = INVALID_ADDRESS
    /\ ~ Allowed(mapping[current][Base(address)], mode, level)
    /\ UNCHANGED <<current, mapping>>

Unmap(page) ==
    /\ returned' = 0
    /\ page \in Pages
    /\ UNCHANGED current
    /\ mapping[current][page] # NotMapped
    /\ mapping' = [mapping EXCEPT ![current][page] = NotMapped]

Switch(s) == current' = s /\ UNCHANGED <<mapping, returned>>

Next == \/ Fail
        \/ \E a \in Inputs, f \in Frames, mode \in Modes, level \in Levels :
              Map(a, f, mode, level)
        \/ \E a \in Inputs, mode \in Modes, level \in Levels :
              Translate(a, mode, level) \/ Refuse(a, mode, level)
        \/ \E a \in Inputs : Unmap(a)
        \/ \E s \in Spaces : Switch(s)

Spec == Init /\ [][Next]_vars
=============================================================================

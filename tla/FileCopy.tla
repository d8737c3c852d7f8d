------------------------------ MODULE FileCopy ------------------------------
(***************************************************************************)
(* The file copy of assignment 10 (p2/copy.c) and its second version       *)
(* (p2/sol.c), which differ in how they treat a write that takes less than *)
(* it was given.  Copies of the same file to the same name may run at the  *)
(* same time and one after another.  A step is a system call; each of them *)
(* may fail.  A file is the sequence of its bytes, of which only whether   *)
(* they are zero matters: a block of zeros is not written but skipped.     *)
(***************************************************************************)
EXTENDS Integers, Sequences, SequencesExt, FiniteSets

CONSTANTS Copiers,      \* processes that run the program once each
          Versions,     \* "copy" and "sol"
          Contents,     \* what the source file may hold
          CommandLines  \* the options and the number of operands given

VARIABLES
    source,   \* the source file, or NoFile
    dest,     \* the destination, or NoFile
    destMode, \* whose permissions it has
    creator,  \* the copier whose open created the destination
    copier    \* where each copier is, and its local variables

copyVars == <<source, dest, destMode, creator, copier>>

NoFile    == <<-1>>
NoCopier  == "no copier"

(* fds are the open descriptors, written counts the bytes of the block     *)
(* that went out, short is history: a write was cut short and not resumed. *)
NoLocals == [pc |-> "idle", version |-> "copy", blocksize |-> 0, fds |-> {},
             buffer |-> FALSE, pos |-> 0, out |-> 0, block |-> << >>,
             written |-> 0, result |-> 0, short |-> FALSE]

CopyInit == /\ source = NoFile
            /\ dest = NoFile
            /\ destMode = "none"
            /\ creator = NoCopier
            /\ copier = [c \in Copiers |-> NoLocals]

ASSUME CopyAssumption ==
    /\ Versions \subseteq {"copy", "sol"}
    /\ Contents \subseteq Seq({0, 1})
    /\ NoCopier \notin Copiers
    /\ \A line \in CommandLines : line.options \in Seq(Int)

At(c, label)  == copier[c].pc = label
Set(c, l)     == copier' = [copier EXCEPT ![c] = l]
files         == <<source, dest, destMode, creator>>

(* Somebody makes the source file; until then it cannot be opened.         *)
MakeSource == /\ source = NoFile
              /\ source' \in Contents
              /\ UNCHANGED <<dest, destMode, creator, copier>>

(* The block size is the argument of the last -b; every one must be        *)
(* positive, other options are refused, and so is any other number of      *)
(* operands than two.                                                      *)
parseCopyArgs(line) ==
    IF /\ \A i \in DOMAIN line.options : line.options[i] > 0
       /\ line.operands = 2
      THEN IF line.options = << >> THEN 4096 ELSE Last(line.options)
      ELSE -1

Start(c, v, line) ==
    /\ At(c, "idle")
    /\ IF parseCopyArgs(line) = -1
         THEN Set(c, [copier[c] EXCEPT !.pc = "done", !.result = -1])
         ELSE Set(c, [copier[c] EXCEPT !.pc = "open source", !.version = v,
                                       !.blocksize = parseCopyArgs(line)])
    /\ UNCHANGED files

(* open and fstat of the source.                                           *)
OpenSource(c) ==
    /\ At(c, "open source")
    /\ \/ /\ source # NoFile
          /\ Set(c, [copier[c] EXCEPT !.pc = "open dest", !.fds = {"source"}])
       \/ Set(c, [copier[c] EXCEPT !.pc = "done", !.result = -1])
    /\ UNCHANGED files

(* Mutated: open without O_EXCL, with O_TRUNC.                             *)
OpenDestAnyway(c) ==
    /\ At(c, "open dest")
    /\ dest' = << >> /\ destMode' = "default" /\ creator' = c
    /\ Set(c, [copier[c] EXCEPT !.pc = "allocate", !.fds = @ \cup {"dest"}])
    /\ UNCHANGED source

(* open of the destination with O_CREAT and O_EXCL; on failure the source  *)
(* is closed.                                                              *)
OpenDest(c) ==
    /\ At(c, "open dest")
    /\ \/ /\ dest = NoFile
          /\ dest' = << >> /\ destMode' = "default" /\ creator' = c
          /\ Set(c, [copier[c] EXCEPT !.pc = "allocate", !.fds = @ \cup {"dest"}])
       \/ /\ Set(c, [copier[c] EXCEPT !.pc = "done", !.fds = {}, !.result = -1])
          /\ UNCHANGED <<dest, destMode, creator>>
    /\ UNCHANGED source

(* malloc of the buffer.  The new destination is left behind, empty.       *)
Allocate(c) ==
    /\ At(c, "allocate")
    /\ \/ Set(c, [copier[c] EXCEPT !.pc = "read", !.buffer = TRUE])
       \/ Set(c, [copier[c] EXCEPT !.pc = "done", !.fds = {}, !.result = -1])
    /\ UNCHANGED files

(* read gives up to a block, none at the end of the file, or an error.     *)
Read(c) ==
    LET l    == copier[c]
        most == IF Len(source) - l.pos < l.blocksize THEN Len(source) - l.pos
                                                     ELSE l.blocksize
    IN
    /\ At(c, "read")
    /\ \/ \E n \in (IF most = 0 THEN {0} ELSE 1 .. most) :
             Set(c, [l EXCEPT !.pc = IF n = 0 THEN "permissions" ELSE "write",
                              !.block = SubSeq(source, l.pos + 1, l.pos + n),
                              !.pos = @ + n, !.written = 0])
       \/ Set(c, [l EXCEPT !.pc = "close", !.result = -1])
    /\ UNCHANGED files

AllZero(block) == \A i \in DOMAIN block : block[i] = 0

(* A block of zeros is skipped: a seek moves the offset and leaves the     *)
(* length of the file as it is.                                            *)
Skip(c) ==
    LET l == copier[c] IN
    /\ At(c, "write")
    /\ AllZero(l.block)
    /\ \/ Set(c, [l EXCEPT !.pc = "read", !.out = @ + Len(l.block)])
       \/ Set(c, [l EXCEPT !.pc = "close", !.result = -1])
    /\ UNCHANGED files

(* What a write at an offset makes of a file: a gap reads as zeros.        *)
WriteAt(file, offset, bytes) ==
    LET end == offset + Len(bytes)
    IN  [i \in 1 .. (IF end > Len(file) THEN end ELSE Len(file)) |->
            IF i > offset /\ i <= end THEN bytes[i - offset]
            ELSE IF i <= Len(file) THEN file[i] ELSE 0]

(* Mutated: the rest is written from the beginning of the block.           *)
RestartingRest(l) == SubSeq(l.block, 1, Len(l.block) - l.written)

(* What is still to be written of the block: sol.c keeps count.            *)
Rest(l) == SubSeq(l.block, l.written + 1, Len(l.block))

(* write takes some of the bytes it is given.  copy.c goes on to the next  *)
(* block, sol.c to the rest of this one.                                   *)
Write(c) ==
    LET l == copier[c] IN
    /\ At(c, "write")
    /\ ~AllZero(l.block)
    /\ \/ \E n \in 1 .. Len(l.block) - l.written :
             LET all == l.written + n = Len(l.block) IN
             /\ dest' = WriteAt(dest, l.out, SubSeq(Rest(l), 1, n))
             /\ Set(c, [l EXCEPT !.out = @ + n, !.written = @ + n,
                                 !.pc = IF all \/ l.version = "copy" THEN "read"
                                                                     ELSE "write",
                                 !.short = @ \/ (~all /\ l.version = "copy")])
       \/ /\ Set(c, [l EXCEPT !.pc = "close", !.result = -1])
          /\ UNCHANGED dest
    /\ UNCHANGED <<source, destMode, creator>>

(* fchmod, only when all went well; that it may fail is accepted.          *)
Permissions(c) ==
    /\ At(c, "permissions")
    /\ destMode' \in {destMode, "source's"}
    /\ Set(c, [copier[c] EXCEPT !.pc = "close"])
    /\ UNCHANGED <<source, dest, creator>>

(* cleanup: free and close.                                                *)
Close(c) ==
    /\ At(c, "close")
    /\ Set(c, [copier[c] EXCEPT !.pc = "done", !.fds = {}, !.buffer = FALSE])
    /\ UNCHANGED files

(* doCopy: the calls that either version makes.                            *)
CopyStep(c) == \/ OpenSource(c) \/ OpenDest(c) \/ Allocate(c) \/ Read(c)
               \/ Skip(c) \/ Write(c) \/ Permissions(c) \/ Close(c)

CopyNext == \/ MakeSource
            \/ \E c \in Copiers : \/ \E v \in Versions, line \in CommandLines :
                                        Start(c, v, line)
                                  \/ CopyStep(c)

CopyFairness == \A c \in Copiers : WF_copyVars(CopyStep(c))

CopySpec == CopyInit /\ [][CopyNext]_copyVars /\ CopyFairness

-----------------------------------------------------------------------------
Labels == {"idle", "open source", "open dest", "allocate", "read", "write",
           "permissions", "close", "done"}

CopyTypeOK ==
    /\ source \in Contents \cup {NoFile}
    /\ dest # NoFile => dest \in Seq({0, 1})
    /\ destMode \in {"none", "default", "source's"}
    /\ creator \in Copiers \cup {NoCopier}
    /\ \A c \in Copiers : /\ copier[c].pc \in Labels
                          /\ copier[c].pos \in 0 .. Len(source)
                          /\ copier[c].result \in {0, -1}

Padded(file, n) == [i \in 1 .. n |-> IF i <= Len(file) THEN file[i] ELSE 0]

(* The loop of doCopy: at any time the destination, with the zeros that    *)
(* were skipped, is what was read so far but for the block in hand: short  *)
(* reads and, in sol.c, short writes lose or repeat nothing.  Nothing is   *)
(* said of a run of copy.c once a write of it took less than it was given. *)
CopiedSoFar ==
    \A c \in Copiers :
        LET l == copier[c] IN
        (At(c, "read") \/ At(c, "write")) /\ ~l.short =>
                        /\ l.out = l.pos - (IF At(c, "write")
                                              THEN Len(l.block) - l.written ELSE 0)
                        /\ Len(dest) <= l.out
                        /\ Padded(dest, l.out) = SubSeq(source, 1, l.out)

(* A copy that reports success made the destination itself.  In sol.c, and *)
(* in copy.c if every write took all it was given, it holds the source,    *)
(* but zeros at the end of the source may be missing.                      *)
SuccessCopied ==
    \A c \in Copiers :
        At(c, "done") /\ copier[c].result = 0 =>
            /\ creator = c
            /\ ~copier[c].short => /\ Len(dest) <= Len(source)
                                   /\ Padded(dest, Len(source)) = source

(* Whatever fails, every descriptor is closed and the buffer freed.        *)
NothingLeaks == \A c \in Copiers : At(c, "done") => /\ copier[c].fds = {}
                                                    /\ ~copier[c].buffer

(* At every step, and after every failure of a call, a copy has written    *)
(* what it has read and reports success only for all of it, in sol.c, and  *)
(* in copy.c unless a write was cut short, in both but for zeros at the    *)
(* end; and in any case it leaves nothing open.                            *)
CopyRight == /\ CopyTypeOK
             /\ CopiedSoFar
             /\ SuccessCopied
             /\ NothingLeaks

(* What both versions set out to do, "read and write in blocks until EOF": *)
(* a copy that reports success holds the source.  Not so: copy.c drops the *)
(* rest of a write that was cut short, and neither gives the destination   *)
(* its length when the last block is skipped.                              *)
CopiedWhole ==
    \A c \in Copiers : At(c, "done") /\ copier[c].result = 0 => dest = source

(* O_EXCL: while a copy runs and after it, failed or not, no other one     *)
(* touches its destination.  A copy that failed half-way thus makes all    *)
(* later ones fail.                                                        *)
OnlyCreatorWrites ==
    [][dest # NoFile /\ (dest' # dest \/ destMode' # destMode) =>
          /\ creator' = creator
          /\ copier[creator].pc \in {"write", "permissions"}]_copyVars

(* Every copy that was started has ended.                                  *)
CopyAtRest == \A c \in Copiers : At(c, "idle") \/ At(c, "done")
=============================================================================

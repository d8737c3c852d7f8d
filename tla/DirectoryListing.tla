-------------------------- MODULE DirectoryListing --------------------------
(***************************************************************************)
(* list of assignment 10: prints the entries of a directory and, if asked  *)
(* to, descends into its subdirectories.  A step is a call of opendir, or  *)
(* one entry; opendir, readdir, lstat and malloc may fail at any time, for *)
(* want of a permission, a path too long, or because other processes have  *)
(* removed the file.  p1/ls.c prints an entry as readdir gives it;         *)
(* p1/testing.c collects the names, closes the directory, and prints them  *)
(* sorted.                                                                 *)
(***************************************************************************)
EXTENDS Integers, Sequences, SequencesExt, FiniteSets

CONSTANTS Root,       \* the directory listed
          Children,   \* the files in each directory: links are no directories
          MaxOpen,    \* how many directories the process may have open
          Listers,    \* the editions of list: "ls.c", "testing.c"
          Rank        \* the place of each file's name in the order of strcmp

Directories == DOMAIN Children
Files       == {Root} \cup UNION {Children[d] : d \in Directories}

(* The directories are a tree: links are not followed.                     *)
ASSUME TreeAssumption ==
    /\ Root \in Directories /\ Directories \subseteq Files
    /\ \A d \in Directories : Root \notin Children[d] /\ d \notin Children[d]
    /\ \A d, e \in Directories : d # e => Children[d] \cap Children[e] = {}
ASSUME ListersAssumption == /\ Listers \subseteq {"ls.c", "testing.c"}
                            /\ Rank \in [Files -> Int]

VARIABLES
    listing,  \* where list is, its edition and parameter, and its result
    frames,   \* the activations of list: directory, entries still to come,
              \* and the names collected
    opened,   \* the directories that are open
    printed,  \* how often a file was printed
    missed    \* history: the entries that a failure of a call has cost

listVars == <<listing, frames, opened, printed, missed>>

ListInit == /\ listing = [pc |-> "idle", edition |-> "ls.c", recursive |-> FALSE,
                          target |-> Root, result |-> 0]
            /\ frames = << >>
            /\ opened = {}
            /\ printed = [f \in Files |-> 0]
            /\ missed = {}

StartList(edition, recursive) ==
    /\ listing.pc = "idle"
    /\ listing' = [listing EXCEPT !.pc = "open", !.edition = edition,
                                  !.recursive = recursive]
    /\ UNCHANGED <<frames, opened, printed, missed>>

(* list returns; only the outermost result is looked at.                   *)
ReturnFrom(rest, result) ==
    /\ frames' = rest
    /\ listing' = IF rest = << >>
                    THEN [listing EXCEPT !.pc = "done", !.result = result]
                    ELSE [listing EXCEPT !.pc = "read"]

(* opendir.  readdir will give the entry "." as well.                      *)
OpenDirectory ==
    LET d == listing.target IN
    /\ listing.pc = "open"
    /\ \/ /\ Cardinality(opened) < MaxOpen
          /\ frames' = Append(frames, [dir |-> d, left |-> Children[d] \cup {d},
                                       names |-> {}])
          /\ opened' = opened \cup {d}
          /\ listing' = [listing EXCEPT !.pc = IF listing.edition = "ls.c"
                                                 THEN "read" ELSE "collect"]
          /\ UNCHANGED missed
       \/ /\ ReturnFrom(frames, -1)
          /\ missed' = missed \cup Children[d]
          /\ UNCHANGED opened
    /\ UNCHANGED printed

top == Last(frames)
Without(f) == [frames EXCEPT ![Len(frames)].left = @ \ {f}]

SkipDot == /\ listing.pc \in {"read", "collect"} /\ top.dir \in top.left
           /\ frames' = Without(top.dir)
           /\ UNCHANGED <<listing, opened, printed, missed>>

(* The entries that an activation has not dealt with.                      *)
Undone(a) == (a.left \cup a.names) \ {a.dir}

(* No memory for a path, or for a name that testing.c collects: the        *)
(* directory is closed, and list returns.                                  *)
NoMemory == /\ \/ listing.pc = "read" /\ listing.edition = "ls.c"
               \/ listing.pc = "collect"
            /\ top.left \ {top.dir} # {}
            /\ ReturnFrom(Front(frames), -1)
            /\ opened' = opened \ {top.dir}
            /\ missed' = missed \cup Undone(top)
            /\ UNCHANGED printed

(* lstat fails, for whatever reason, and the entry is passed over.         *)
LstatFails == /\ listing.pc = "read" /\ listing.edition = "ls.c"
              /\ \E f \in top.left \ {top.dir} : /\ frames' = Without(f)
                                                /\ missed' = missed \cup {f}
              /\ UNCHANGED <<listing, opened, printed>>

(* Mutated: list returns after the first subdirectory.                     *)
PrintAndLeave ==
    /\ listing.pc = "read" /\ listing.edition = "ls.c"
    /\ \E f \in top.left \ {top.dir} :
          /\ printed' = [printed EXCEPT ![f] = @ + 1]
          /\ frames' = IF listing.recursive /\ f \in Directories
                         THEN [frames EXCEPT ![Len(frames)].left = {}] ELSE Without(f)
          /\ listing' = IF listing.recursive /\ f \in Directories
                          THEN [listing EXCEPT !.pc = "open", !.target = f]
                          ELSE listing
    /\ UNCHANGED <<opened, missed>>

(* A line is printed; a directory (not a link to one) is listed if asked.  *)
PrintEntry ==
    /\ listing.pc = "read" /\ listing.edition = "ls.c"
    /\ \E f \in top.left \ {top.dir} :
          /\ printed' = [printed EXCEPT ![f] = @ + 1]
          /\ frames' = Without(f)
          /\ listing' = IF listing.recursive /\ f \in Directories
                          THEN [listing EXCEPT !.pc = "open", !.target = f]
                          ELSE listing
    /\ UNCHANGED <<opened, missed>>

(* readdir gives no more: the end of the directory, or an error.  What it  *)
(* has not given is lost, and list returns 0.                              *)
CloseDirectory == /\ listing.pc = "read" /\ listing.edition = "ls.c"
                  /\ ReturnFrom(Front(frames), 0)
                  /\ opened' = opened \ {top.dir}
                  /\ missed' = missed \cup Undone(top)
                  /\ UNCHANGED printed

(* testing.c: the loop of readdir, and what follows it.                    *)
CollectName ==
    /\ listing.pc = "collect"
    /\ \E f \in top.left \ {top.dir} :
          frames' = [frames EXCEPT ![Len(frames)].left  = @ \ {f},
                                   ![Len(frames)].names = @ \cup {f}]
    /\ UNCHANGED <<listing, opened, printed, missed>>

(* Here too an error of readdir is taken for the end.                      *)
CloseAndSort ==
    /\ listing.pc = "collect"
    /\ opened' = opened \ {top.dir}
    /\ listing' = [listing EXCEPT !.pc = "read"]
    /\ frames' = [frames EXCEPT ![Len(frames)].left = {}]
    /\ missed' = missed \cup (top.left \ {top.dir})
    /\ UNCHANGED printed

(* compare_names, the order of qsort.                                      *)
compare_names(f, g) == Rank[f] <= Rank[g]

(* The name that comes first among those of the array not yet dealt with.  *)
NextName(f) == /\ listing.pc = "read" /\ listing.edition = "testing.c"
               /\ f \in top.names
               /\ \A g \in top.names : compare_names(f, g)

AfterName(f) == frames' = [frames EXCEPT ![Len(frames)].names = @ \ {f}]

LstatFailsName(f) == /\ NextName(f)
                     /\ AfterName(f)
                     /\ missed' = missed \cup {f}
                     /\ UNCHANGED <<listing, opened, printed>>

PrintName(f) == /\ NextName(f)
                /\ printed' = [printed EXCEPT ![f] = @ + 1]
                /\ AfterName(f)
                /\ listing' = IF listing.recursive /\ f \in Directories
                                THEN [listing EXCEPT !.pc = "open", !.target = f]
                                ELSE listing
                /\ UNCHANGED <<opened, missed>>

EndOfNames == /\ listing.pc = "read" /\ listing.edition = "testing.c"
              /\ top.names = {}
              /\ ReturnFrom(Front(frames), 0)
              /\ UNCHANGED <<opened, printed, missed>>

(* list: whichever of its loops it is in, it goes on to the next entry.    *)
ListStep == \/ OpenDirectory \/ SkipDot \/ NoMemory \/ LstatFails \/ PrintEntry
            \/ CloseDirectory \/ CollectName \/ CloseAndSort \/ EndOfNames
            \/ \E f \in Files : LstatFailsName(f) \/ PrintName(f)

ListNext == \/ \E e \in Listers, r \in BOOLEAN : StartList(e, r)
            \/ ListStep

ListFairness == WF_listVars(ListStep)

ListSpec == ListInit /\ [][ListNext]_listVars /\ ListFairness

-----------------------------------------------------------------------------
(* The directories that list has come to: the one it was given and, if     *)
(* asked for, those that it has printed.                                   *)
Reached == {d \in Directories : d = Root \/ (listing.recursive /\ printed[d] > 0)}

(* When list has returned, every entry of every directory it came to was   *)
(* printed once, unless a call that failed has cost that very entry, and   *)
(* no entry of another directory was.  The result tells little of it: -1   *)
(* is for what the directory itself lacks, and 0 does not mean that        *)
(* nothing is missing, there or below (lstat, readdir, a subdirectory).    *)
ListedOnce ==
    /\ \A f \in Files : printed[f] <= 1
    /\ listing.pc = "done" =>
          /\ \A d \in Reached : \A f \in Children[d] : printed[f] = 1 <=> f \notin missed
          /\ \A f \in Files : printed[f] = 1 => \E d \in Reached : f \in Children[d]
          /\ listing.result = -1 /\ Children[Root] # {} => Children[Root] \cap missed # {}

(* Whatever fails, and however deep, list closes what it opened.           *)
DirectoriesClosed == listing.pc = "done" => opened = {}

(* testing.c prints a directory in the order of its names, though some     *)
(* are passed over and subdirectories are listed in between, and it holds  *)
(* one directory open, where ls.c holds as many as it is deep.             *)
SortedAndFlat ==
    listing.edition = "testing.c" =>
        /\ Cardinality(opened) <= 1
        /\ \A d \in Directories : \A f, g \in Children[d] :
              Rank[f] < Rank[g] /\ printed[g] > 0 => printed[f] = 1 \/ f \in missed

(* A listing lacks nothing but what a failed call has cost it, is in order *)
(* if it is sorted, and leaves no directory open.                          *)
ListingRight == /\ ListedOnce
                /\ DirectoriesClosed
                /\ SortedAndFlat

(* The listing has ended, if it was started.                               *)
ListAtRest == listing.pc \in {"idle", "done"}
=============================================================================

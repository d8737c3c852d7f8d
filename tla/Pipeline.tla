------------------------------ MODULE Pipeline ------------------------------
(***************************************************************************)
(* ls | less, as the lab's 3.c makes it: a parent opens a pipe, forks a    *)
(* child for each program, closes its own ends and waits for both.  The    *)
(* output of ls is counted in chunks, of which the pipe holds a bounded    *)
(* number.  Every handle of the two ends counts, as a reader gets the end  *)
(* of the data only when nobody holds the write end any more.              *)
(***************************************************************************)
EXTENDS Integers

CONSTANTS Output,   \* the chunks ls writes
          Capacity  \* the chunks the pipe holds

VARIABLES
    parent,         \* where the parent is
    ls, less,       \* where the children are
    handles,        \* the handles each of the three holds
    written, read,  \* chunks that went into the pipe and came out
    sawEnd          \* history: less was told that the data ended

pipelineVars == <<parent, ls, less, handles, written, read, sawEnd>>
children     == <<ls, less>>
data         == <<written, read, sawEnd>>

PipelineInit == /\ parent = "not started"
                /\ ls = "none" /\ less = "none"
                /\ handles = [p \in {"parent", "ls", "less"} |-> {}]
                /\ written = 0 /\ read = 0 /\ sawEnd = FALSE

(* pipefd[0] and stdin of less are read ends, the others write ends.       *)
Readers == \E p \in DOMAIN handles : handles[p] \cap {"pipefd[0]", "stdin"} # {}
Writers == \E p \in DOMAIN handles : handles[p] \cap {"pipefd[1]", "stdout"} # {}

(* exit closes what the parent holds.                                      *)
ParentExit == parent' = "done" /\ handles' = [handles EXCEPT !["parent"] = {}]

StartParent == /\ parent = "not started"
               /\ parent' = "pipe"
               /\ UNCHANGED <<children, handles, data>>

MakePipe == /\ parent = "pipe"
            /\ \/ /\ parent' = "fork ls"
                  /\ handles' = [handles EXCEPT !["parent"] = {"pipefd[0]", "pipefd[1]"}]
               \/ ParentExit
            /\ UNCHANGED <<children, data>>

(* A child starts with the handles of the parent.  If a fork fails the     *)
(* parent exits, and does not wait for the child it has.                   *)
ForkLs == /\ parent = "fork ls"
          /\ \/ /\ parent' = "fork less" /\ ls' = "redirect"
                /\ handles' = [handles EXCEPT !["ls"] = handles["parent"]]
             \/ ParentExit /\ UNCHANGED ls
          /\ UNCHANGED <<less, data>>

ForkLess == /\ parent = "fork less"
            /\ \/ /\ parent' = "close" /\ less' = "redirect"
                  /\ handles' = [handles EXCEPT !["less"] = handles["parent"]]
               \/ ParentExit /\ UNCHANGED less
            /\ UNCHANGED <<ls, data>>

(* Mutated: the write end is closed before it is duplicated.               *)
LsCloses == /\ ls = "redirect"
            /\ handles' = [handles EXCEPT !["ls"] = {}]
            /\ ls' = "exec"
            /\ UNCHANGED <<parent, less, data>>

(* The child closes the end it does not use, and makes the other its       *)
(* standard output or input with dup2 and close.  dup2 of an end that is   *)
(* open, onto a standard descriptor, is taken not to fail.                 *)
LsRedirect == /\ ls = "redirect"
              /\ handles' = [handles EXCEPT !["ls"] = {"stdout"}]
              /\ ls' = "exec"
              /\ UNCHANGED <<parent, less, data>>

LessRedirect == /\ less = "redirect"
                /\ handles' = [handles EXCEPT !["less"] = {"stdin"}]
                /\ less' = "exec"
                /\ UNCHANGED <<parent, ls, data>>

EndLs   == ls' = "ended" /\ handles' = [handles EXCEPT !["ls"] = {}]
EndLess == less' = "ended" /\ handles' = [handles EXCEPT !["less"] = {}]

(* execlp, or exit(1) when it fails.                                       *)
LsExec   == /\ ls = "exec"
            /\ (ls' = "running" /\ UNCHANGED handles) \/ EndLs
            /\ UNCHANGED <<parent, less, data>>
LessExec == /\ less = "exec"
            /\ (less' = "running" /\ UNCHANGED handles) \/ EndLess
            /\ UNCHANGED <<parent, ls, data>>

(* ls writes its output, waits while the pipe is full, and is killed when  *)
(* nobody reads it.                                                        *)
LsWrites == /\ ls = "running" /\ written < Output
            /\ IF Readers THEN /\ written - read < Capacity
                               /\ written' = written + 1
                               /\ UNCHANGED <<ls, handles>>
                          ELSE EndLs /\ UNCHANGED written
            /\ UNCHANGED <<parent, less, read, sawEnd>>

LsEnds == /\ ls = "running" /\ written = Output
          /\ EndLs
          /\ UNCHANGED <<parent, less, data>>

(* less reads to the end of the data, or is left before.                   *)
LessReads == /\ less = "running"
             /\ IF read < written THEN /\ read' = read + 1
                                       /\ UNCHANGED <<less, handles, sawEnd>>
                                  ELSE /\ ~Writers
                                       /\ sawEnd' = TRUE
                                       /\ EndLess
                                       /\ UNCHANGED read
             /\ UNCHANGED <<parent, ls, written>>

LessQuits == /\ less = "running"
             /\ EndLess
             /\ UNCHANGED <<parent, ls, data>>

(* Mutated: the parent waits before it closes.                             *)
ParentKeeps == /\ parent = "close"
               /\ parent' = "wait ls"
               /\ UNCHANGED <<children, handles, data>>

(* The parent closes both ends.                                            *)
ParentCloses == /\ parent = "close"
                /\ handles' = [handles EXCEPT !["parent"] = {}]
                /\ parent' = "wait ls"
                /\ UNCHANGED <<children, data>>

(* The two calls of waitpid: for children of its own, and with no handler  *)
(* that could interrupt them, they are taken not to fail.                  *)
WaitLs   == /\ parent = "wait ls" /\ ls = "ended"
            /\ parent' = "wait less"
            /\ UNCHANGED <<children, handles, data>>
WaitLess == /\ parent = "wait less" /\ less = "ended"
            /\ parent' = "waited"
            /\ UNCHANGED <<children, handles, data>>

ParentStep == \/ MakePipe \/ ForkLs \/ ForkLess \/ ParentCloses
              \/ WaitLs \/ WaitLess
LsStep     == LsRedirect \/ LsExec \/ LsWrites \/ LsEnds
LessStep   == LessRedirect \/ LessExec \/ LessReads

PipelineNext == StartParent \/ ParentStep \/ LsStep \/ LessStep \/ LessQuits

(* The three processes are scheduled fairly; the user of less may be slow  *)
(* but reads on to the end, if he does not leave it.                       *)
PipelineFairness == WF_pipelineVars(ParentStep) /\ WF_pipelineVars(LsStep)
                    /\ WF_pipelineVars(LessStep)

PipelineSpec == PipelineInit /\ [][PipelineNext]_pipelineVars /\ PipelineFairness

-----------------------------------------------------------------------------
(* less is told that the data ended only after all that ls wrote was read, *)
(* and when ls, if it was started, can write no more.                      *)
EndMeansAll == sawEnd => read = written /\ ls = "ended" /\ parent # "close"

(* When the parent has waited, no child is left and no handle either.      *)
AllGone == parent = "waited" =>
              ls = "ended" /\ less = "ended" /\ ~Readers /\ ~Writers

(* less sees the end of all that ls wrote, and the parent ends last.       *)
PipelineRight == /\ EndMeansAll
                 /\ AllGone

(* All three have come to an end: nobody waits for a process that waits    *)
(* for the end of data which the first one holds open.                     *)
PipelineAtRest ==
    \/ parent = "not started"
    \/ /\ parent \in {"done", "waited"}
       /\ ls \in {"none", "ended"} /\ less \in {"none", "ended"}
=============================================================================

------------------------ MODULE SystemPrograms_proofs ------------------------
(***************************************************************************)
(* The programs made of system calls: the pipeline, whatever ls writes and *)
(* however much the pipe holds; execute, for any threads and programs; the *)
(* file copy, for any copiers, files and command lines; and the directory  *)
(* listing, for any tree.                                                  *)
(***************************************************************************)
EXTENDS SmallPrograms, SequenceTheorems, FiniteSetTheorems, TLAPS

-----------------------------------------------------------------------------
(* Which process holds which end of the pipe.                              *)
ParentLabels == {"not started", "pipe", "fork ls", "fork less", "close",
                 "wait ls", "wait less", "waited", "done"}
ChildLabels  == {"none", "redirect", "exec", "running", "ended"}
PipeEnds     == {"pipefd[0]", "pipefd[1]"}

PipeTypes ==
    /\ parent \in ParentLabels /\ ls \in ChildLabels /\ less \in ChildLabels
    /\ handles \in [{"parent", "ls", "less"} -> SUBSET (PipeEnds \cup {"stdin", "stdout"})]

Counted == written \in Nat /\ read \in Nat /\ read <= written

HandlesFollow ==
    /\ handles["parent"] = IF parent \in {"fork ls", "fork less", "close"}
                             THEN PipeEnds ELSE {}
    /\ handles["ls"] = IF ls = "redirect" THEN PipeEnds
                       ELSE IF ls \in {"exec", "running"} THEN {"stdout"} ELSE {}
    /\ handles["less"] = IF less = "redirect" THEN PipeEnds
                         ELSE IF less \in {"exec", "running"} THEN {"stdin"} ELSE {}

(* How far the parent has come when its children have.                     *)
InOrder ==
    /\ parent \in {"not started", "pipe", "fork ls"} => ls = "none" /\ less = "none"
    /\ parent = "fork less" => ls # "none" /\ less = "none"
    /\ less # "none" => ls # "none" /\ parent \in {"close", "wait ls", "wait less", "waited"}
    /\ parent \in {"close", "wait ls"} => ls # "none" /\ less # "none"
    /\ parent \in {"wait less", "waited"} => ls = "ended"
    /\ parent = "waited" => less = "ended"

Placed == PipeTypes /\ HandlesFollow /\ InOrder

EndSeen == sawEnd => less = "ended" /\ read = written /\ ls = "ended" /\ parent # "close"

PipelineInv == Placed /\ Counted /\ EndSeen

LEMMA InitPipeline == PipelineInit => PipelineInv
<1> SUFFICES ASSUME PipelineInit PROVE PipelineInv
  OBVIOUS
<1>1. Placed
  BY DEF PipelineInit, Placed, PipeTypes, HandlesFollow, InOrder, ParentLabels, ChildLabels
<1>2. Counted
  <2>1. written = 0 /\ read = 0
    BY DEF PipelineInit
  <2> QED BY <2>1 DEF Counted
<1>3. EndSeen
  BY DEF PipelineInit, EndSeen
<1> QED BY <1>1, <1>2, <1>3 DEF PipelineInv

(* When nobody holds the write end any more.                               *)
LEMMA NoWriters ==
  ASSUME Placed, ~Writers, less = "running"
  PROVE  ls = "ended" /\ parent # "close"
<1>1. \A p \in {"parent", "ls", "less"} : handles[p] \cap {"pipefd[1]", "stdout"} = {}
  BY DEF Placed, PipeTypes, Writers
<1>2. handles["parent"] # PipeEnds /\ handles["ls"] # PipeEnds /\ handles["ls"] # {"stdout"}
  BY <1>1 DEF PipeEnds
<1> QED BY <1>2 DEF Placed, PipeTypes, ChildLabels, HandlesFollow, InOrder

(* The processes and their handles.                                        *)
LEMMA NextPlaced == Placed /\ [PipelineNext]_pipelineVars => Placed'
<1> SUFFICES ASSUME Placed, [PipelineNext]_pipelineVars PROVE Placed'
  OBVIOUS
<1> USE DEF Placed, PipeTypes, ParentLabels, ChildLabels, HandlesFollow, InOrder,
            PipeEnds, children
<1>1. CASE StartParent
  BY <1>1 DEF StartParent
<1>2. CASE MakePipe
  BY <1>2 DEF MakePipe, ParentExit
<1>3. CASE ForkLs
  BY <1>3 DEF ForkLs, ParentExit
<1>4. CASE ForkLess
  <2>1. CASE /\ parent' = "close" /\ less' = "redirect"
             /\ handles' = [handles EXCEPT !["less"] = handles["parent"]]
    BY <1>4, <2>1 DEF ForkLess
  <2>2. CASE ParentExit /\ UNCHANGED less
    BY <1>4, <2>2 DEF ForkLess, ParentExit
  <2> QED BY <1>4, <2>1, <2>2 DEF ForkLess
<1>5. CASE ParentCloses
  BY <1>5 DEF ParentCloses
<1>6. CASE WaitLs
  BY <1>6 DEF WaitLs
<1>7. CASE WaitLess
  BY <1>7 DEF WaitLess
<1>8. CASE LsRedirect
  BY <1>8 DEF LsRedirect
<1>9. CASE LsExec
  BY <1>9 DEF LsExec, EndLs
<1>10. CASE LsWrites
  <2>1. \/ UNCHANGED <<parent, ls, less, handles>>
        \/ UNCHANGED <<parent, less>> /\ ls = "running" /\ EndLs
    BY <1>10 DEF LsWrites
  <2> QED BY <2>1 DEF EndLs
<1>11. CASE LsEnds
  BY <1>11 DEF LsEnds, EndLs
<1>12. CASE LessRedirect
  BY <1>12 DEF LessRedirect
<1>13. CASE LessExec
  BY <1>13 DEF LessExec, EndLess
<1>14. CASE LessReads
  <2>1. \/ UNCHANGED <<parent, ls, less, handles>>
        \/ UNCHANGED <<parent, ls>> /\ less = "running" /\ EndLess
    BY <1>14 DEF LessReads
  <2> QED BY <2>1 DEF EndLess
<1>15. CASE LessQuits
  BY <1>15 DEF LessQuits, EndLess
<1>16. CASE UNCHANGED pipelineVars
  BY <1>16 DEF pipelineVars
<1> QED BY <1>1, <1>2, <1>3, <1>4, <1>5, <1>6, <1>7, <1>8, <1>9, <1>10, <1>11, <1>12,
           <1>13, <1>14, <1>15, <1>16
        DEF PipelineNext, ParentStep, LsStep, LessStep

LEMMA NextPipeline == PipelineInv /\ [PipelineNext]_pipelineVars => PipelineInv'
<1> SUFFICES ASSUME PipelineInv, [PipelineNext]_pipelineVars PROVE PipelineInv'
  OBVIOUS
<1>1. Placed' /\ Placed /\ Counted /\ EndSeen
  BY NextPlaced DEF PipelineInv
<1>2. CASE LsWrites
  <2>1. UNCHANGED sawEnd
    BY <1>2 DEF LsWrites
  <2>2. ~sawEnd
    BY <1>1, <1>2 DEF LsWrites, EndSeen
  <2>3. Counted'
    <3>1. read' = read /\ (written' = written \/ written' = written + 1)
      BY <1>2 DEF LsWrites
    <3> QED BY <3>1, <1>1 DEF Counted
  <2> QED BY <1>1, <2>1, <2>2, <2>3 DEF PipelineInv, EndSeen
<1>3. CASE LessReads
  <2>1. less = "running" /\ written' = written
    BY <1>3 DEF LessReads
  <2>2. CASE read < written
    <3>1. UNCHANGED sawEnd /\ read' = read + 1
      BY <1>3, <2>2 DEF LessReads
    <3>2. ~sawEnd
      BY <1>1, <2>1 DEF EndSeen
    <3>3. Counted'
      BY <1>1, <2>1, <2>2, <3>1 DEF Counted
    <3> QED BY <1>1, <3>1, <3>2, <3>3 DEF PipelineInv, EndSeen
  <2>3. CASE ~(read < written)
    <3>1. /\ ~Writers /\ less' = "ended" /\ read' = read
          /\ UNCHANGED <<parent, ls>>
      BY <1>3, <2>3 DEF LessReads, EndLess
    <3>2. ls = "ended" /\ parent # "close"
      BY <1>1, <2>1, <3>1, NoWriters
    <3>3. read = written /\ Counted'
      BY <1>1, <2>1, <2>3, <3>1 DEF Counted
    <3>4. EndSeen'
      BY <2>1, <3>1, <3>2, <3>3 DEF EndSeen
    <3> QED BY <1>1, <3>3, <3>4 DEF PipelineInv
  <2> QED BY <2>2, <2>3
<1>4. CASE \/ StartParent \/ MakePipe \/ ForkLs \/ ForkLess \/ ParentCloses \/ WaitLs
           \/ WaitLess \/ LsRedirect \/ LsExec \/ LsEnds \/ LessRedirect \/ LessExec
           \/ LessQuits \/ UNCHANGED pipelineVars
  <2>1. UNCHANGED <<written, read, sawEnd>>
    BY <1>4 DEF StartParent, MakePipe, ForkLs, ForkLess, ParentCloses, WaitLs, WaitLess,
                LsRedirect, LsExec, LsEnds, LessRedirect, LessExec, LessQuits, pipelineVars,
                data
  <2>2. less = "ended" /\ ls = "ended" /\ parent # "close" =>
           less' = "ended" /\ ls' = "ended" /\ parent' # "close"
    BY <1>1, <1>4
    DEF StartParent, MakePipe, ParentExit, ForkLs, ForkLess, ParentCloses, WaitLs, WaitLess,
        LsRedirect, LsExec, LsEnds, EndLs, LessRedirect, LessExec, LessQuits, EndLess,
        pipelineVars, children, Placed, InOrder
  <2>3. EndSeen'
    BY <1>1, <2>1, <2>2 DEF EndSeen
  <2> QED BY <1>1, <2>1, <2>3 DEF Counted, PipelineInv
<1> QED BY <1>2, <1>3, <1>4 DEF PipelineNext, ParentStep, LsStep, LessStep

(* less is told of the end of the data only when it has read all that ls   *)
(* wrote and ls has ended, and the parent that has waited leaves neither a *)
(* child nor an open end of the pipe behind.                               *)
THEOREM PipelineAlwaysRight == PipelineSpec => []PipelineRight
<1>1. PipelineInv => PipelineRight
  <2> SUFFICES ASSUME PipelineInv PROVE PipelineRight
    OBVIOUS
  <2>1. EndMeansAll
    BY DEF PipelineInv, EndSeen, EndMeansAll
  <2>2. ASSUME parent = "waited"
        PROVE  ls = "ended" /\ less = "ended" /\ ~Readers /\ ~Writers
    <3>1. ls = "ended" /\ less = "ended"
      BY <2>2 DEF PipelineInv, Placed, InOrder
    <3>2. \A p \in DOMAIN handles : handles[p] = {}
      BY <2>2, <3>1 DEF PipelineInv, Placed, PipeTypes, HandlesFollow
    <3> QED BY <3>1, <3>2 DEF Readers, Writers
  <2> QED BY <2>1, <2>2 DEF PipelineRight, AllGone
<1> QED BY <1>1, InitPipeline, NextPipeline, PTL DEF PipelineSpec

-----------------------------------------------------------------------------
(* One call of execute: r is the record of the call, k its child, w what   *)
(* is in its pipe, and ends are the ends of the pipe the program holds.    *)
AllEnds == Callers \X {"read", "write"}
CallPcs      == {"idle", "pipe", "fork", "close", "wait", "read", "close read", "done"}
CallPrograms == Programs \cup {NoProgram}
Statuses     == 0 .. 255
Results      == -1 .. 255
CallRecords  == [pc : CallPcs, function : {"pipe.c", "execute.c"}, program : CallPrograms,
                 status : Statuses, result : Results, errno : Nat,
                 created : BOOLEAN, failed : BOOLEAN]
ChildPcs     == {"none", "close", "arguments", "exec", "running", "write", "exit", "ended"}
Endings      == {Killed} \cup Statuses
ChildRecords == [pc : ChildPcs, ends : SUBSET AllEnds, status : Endings]

Piped(r) == r.function = "pipe.c"

CallTypes(r, k, w) == r \in CallRecords /\ k \in ChildRecords
                      /\ w \in {0} \cup {p.error : p \in Programs}

(* Which ends are open where, and that a call without a child is early or  *)
(* has failed.                                                             *)
CallShape(r, k, ends) ==
    /\ r.pc \in {"idle", "pipe"} => ends = {} /\ k.pc = "none" /\ ~r.failed /\ ~r.created
    /\ r.pc = "pipe" => Piped(r) /\ r.program \in Programs
    /\ r.pc = "fork" => /\ ends = IF Piped(r) THEN {"read", "write"} ELSE {}
                        /\ k.pc = "none" /\ ~r.failed /\ ~r.created
                        /\ r.program \in Programs
    /\ r.pc = "close" => Piped(r) /\ ends = {"read", "write"}
    /\ r.pc = "wait"  => ends = IF Piped(r) THEN {"read"} ELSE {}
    /\ r.pc \in {"read", "close read"} => Piped(r) /\ ends = {"read"}
    /\ r.pc \in {"close", "wait", "read", "close read"} =>
          k.pc # "none" /\ r.created /\ r.program \in Programs
    /\ r.pc \in {"close", "wait", "read"} => ~r.failed
    /\ r.pc = "done" => ends = {} \/ (r.failed /\ ~r.created)
    /\ k.pc = "none" => r.pc \in {"idle", "pipe", "fork", "done"} /\ ~r.created
    /\ k.pc # "none" => r.program \in Programs

(* What the child has done, and what is in the pipe then.                  *)
ChildShape(r, k, w) ==
    LET p == r.program IN
    /\ k.pc \in {"close", "write"} => Piped(r)
    /\ k.pc = "arguments" => ~Piped(r)
    /\ k.pc \notin {"exit", "ended"} => w = 0
    /\ k.pc = "running" => p.error = 0
    /\ k.pc \in {"write", "exit"} => p.error # 0
    /\ k.pc = "exit" /\ Piped(r) => w = p.error
    /\ k.pc = "ended" =>
          \/ /\ k.status = Killed
             /\ Piped(r) /\ r.pc \in {"close", "wait"} => p.error = 0 /\ p.exit = Killed
          \/ p.error = 0 /\ k.status = p.exit /\ w = 0 /\ k.status # Killed
          \/ p.error # 0 /\ k.status # Killed /\ IF Piped(r) THEN w = p.error
                                                             ELSE k.status = ERROR_CODE

(* What a call that has not failed knows and returns.                      *)
CallTruth(r, k, w) ==
    LET p == r.program IN
    /\ r.pc = "read" => k.pc = "ended" /\ k.status # Killed /\ r.status = k.status
    /\ r.pc \in {"close read", "done"} /\ ~r.failed =>
          IF Piped(r)
            THEN IF p.error # 0 THEN r.result = -1 /\ r.errno = p.error
                 ELSE IF p.exit = Killed THEN r.result = -1 /\ r.errno = ECANCELED
                 ELSE r.result = p.exit
            ELSE /\ k.pc = "ended"
                 /\ r.result = IF p.error # 0 \/ k.status = Killed THEN ERROR_CODE
                                                                   ELSE p.exit

OwnEnds(c) == {e \in {"read", "write"} : <<c, e>> \in table}

CallRight(r, k, w, ends) == /\ CallTypes(r, k, w)
                            /\ CallShape(r, k, ends)
                            /\ ChildShape(r, k, w)
                            /\ CallTruth(r, k, w)

ExecInv ==
    /\ table \subseteq AllEnds
    /\ DOMAIN call = Callers /\ DOMAIN child = Callers /\ DOMAIN pipe = Callers
    /\ \A c \in Callers : CallRight(call[c], child[c], pipe[c], OwnEnds(c))

LEMMA LabelsAre ==
  /\ "exec" \in ChildPcs /\ "running" \in ChildPcs /\ "write" \in ChildPcs
  /\ "exit" \in ChildPcs /\ "ended" \in ChildPcs /\ "none" \in ChildPcs
  /\ "close" \in ChildPcs /\ "arguments" \in ChildPcs
  /\ "idle" \in CallPcs /\ "close" \in CallPcs /\ "wait" \in CallPcs
  /\ "close read" \in CallPcs /\ "done" \in CallPcs
  /\ Killed \in Endings /\ 0 \in Endings /\ Statuses \subseteq Endings
<1>1. /\ "exec" \in ChildPcs /\ "running" \in ChildPcs /\ "write" \in ChildPcs
      /\ "exit" \in ChildPcs /\ "ended" \in ChildPcs /\ "none" \in ChildPcs
      /\ "close" \in ChildPcs /\ "arguments" \in ChildPcs
  BY Zenon DEF ChildPcs
<1>2. /\ "idle" \in CallPcs /\ "close" \in CallPcs /\ "wait" \in CallPcs
      /\ "close read" \in CallPcs /\ "done" \in CallPcs
  BY Zenon DEF CallPcs
<1>3. 0 \in Statuses
  BY DEF Statuses
<1>4. Killed \in Endings /\ 0 \in Endings /\ Statuses \subseteq Endings
  BY <1>3, Zenon DEF Endings
<1> QED BY <1>1, <1>2, <1>4

LEMMA InitExec == ExecInit => ExecInv
<1> SUFFICES ASSUME ExecInit PROVE ExecInv
  OBVIOUS
<1>1. ASSUME NEW c \in Callers
      PROVE  CallRight(call[c], child[c], pipe[c], OwnEnds(c))
  <2>1. /\ call[c] = NoCall /\ child[c] = [pc |-> "none", ends |-> {}, status |-> 0]
        /\ pipe[c] = 0 /\ OwnEnds(c) = {}
    BY DEF ExecInit, OwnEnds
  <2>2. CallTypes(call[c], child[c], pipe[c])
    <3>1. child[c] \in ChildRecords
      <4>1. [pc |-> "none", ends |-> {}, status |-> 0] \in ChildRecords
        BY LabelsAre DEF ChildRecords
      <4> QED BY <2>1, <4>1
    <3>2. NoProgram \in CallPrograms /\ 0 \in Statuses /\ 0 \in Results
      BY DEF CallPrograms, Statuses, Results
    <3>3. call[c] \in CallRecords
      <4>1. NoCall \in CallRecords
        BY <3>2, LabelsAre DEF CallRecords, NoCall
      <4> QED BY <2>1, <4>1
    <3> QED BY <2>1, <3>1, <3>3 DEF CallTypes
  <2>3. CallShape(call[c], child[c], OwnEnds(c))
    BY <2>1 DEF CallShape, NoCall
  <2>4. ChildShape(call[c], child[c], pipe[c]) /\ CallTruth(call[c], child[c], pipe[c])
    BY <2>1 DEF ChildShape, CallTruth, NoCall
  <2> QED BY <2>2, <2>3, <2>4 DEF CallRight
<1> QED BY <1>1 DEF ExecInit, ExecInv

(* g is f but for the value at c, which is v.                              *)
OnlyAt(c, f, g, v) == /\ DOMAIN g = DOMAIN f /\ g[c] = v
                      /\ \A d \in DOMAIN f : d # c => g[d] = f[d]

(* A step changes the call, the child and the pipe of one caller, and the  *)
(* program's ends of this pipe.                                            *)
LEMMA OneCall ==
  ASSUME ExecInv, NEW c \in Callers, NEW r, NEW k, NEW w, NEW e,
         OnlyAt(c, call, call', r), OnlyAt(c, child, child', k), OnlyAt(c, pipe, pipe', w),
         table' \subseteq AllEnds, OwnEnds(c)' = e,
         \A x \in AllEnds : x[1] # c => (x \in table' <=> x \in table),
         CallRight(r, k, w, e)
  PROVE  ExecInv'
<1>1. ASSUME NEW d \in Callers
      PROVE  CallRight(call'[d], child'[d], pipe'[d], OwnEnds(d)')
  <2>1. CASE d = c
    <3>1. call'[d] = r /\ child'[d] = k /\ pipe'[d] = w
      BY <2>1 DEF OnlyAt
    <3> QED BY <2>1, <3>1
  <2>2. CASE d # c
    <3>1. call'[d] = call[d] /\ child'[d] = child[d] /\ pipe'[d] = pipe[d]
      BY <2>2 DEF ExecInv, OnlyAt
    <3>2. \A x \in {"read", "write"} : <<d, x>> \in table' <=> <<d, x>> \in table
      BY <2>2 DEF AllEnds
    <3>3. OwnEnds(d)' = OwnEnds(d)
      BY <3>2 DEF OwnEnds
    <3>4. CallRight(call[d], child[d], pipe[d], OwnEnds(d))
      BY DEF ExecInv
    <3> QED BY <3>1, <3>3, <3>4
  <2> QED BY <2>1, <2>2
<1>2. ASSUME NEW d \in Callers
      PROVE  CallRight(call[d], child[d], pipe[d], OwnEnds(d))'
  BY <1>1 DEF CallRight, CallTypes, CallShape, ChildShape, CallTruth, CallRecords,
              ChildRecords, AllEnds, Piped, OwnEnds
<1>3. DOMAIN call' = Callers /\ DOMAIN child' = Callers /\ DOMAIN pipe' = Callers
  BY DEF ExecInv, OnlyAt
<1> QED BY <1>2, <1>3 DEF ExecInv, AllEnds

(* A step of the caller, and one of its child.                             *)
LEMMA CallerMoves ==
  ASSUME ExecInv, NEW c \in Callers, NEW r, NEW e,
         OnlyAt(c, call, call', r), UNCHANGED <<child, pipe>>,
         table' \subseteq AllEnds, OwnEnds(c)' = e,
         \A x \in AllEnds : x[1] # c => (x \in table' <=> x \in table),
         CallRight(r, child[c], pipe[c], e)
  PROVE  ExecInv'
<1>1. OnlyAt(c, child, child', child[c]) /\ OnlyAt(c, pipe, pipe', pipe[c])
  BY DEF OnlyAt
<1> QED BY <1>1, OneCall

LEMMA ChildMoves ==
  ASSUME ExecInv, NEW c \in Callers, NEW k, NEW w,
         OnlyAt(c, child, child', k), OnlyAt(c, pipe, pipe', w), UNCHANGED <<table, call>>,
         CallRight(call[c], k, w, OwnEnds(c))
  PROVE  ExecInv'
<1>1. OnlyAt(c, call, call', call[c])
  BY DEF OnlyAt
<1>2. OwnEnds(c)' = OwnEnds(c) /\ table' \subseteq AllEnds
  BY DEF OwnEnds, ExecInv
<1> QED BY <1>1, <1>2, OneCall

(* The steps of a child.                                                   *)
LEMMA ChildSteps ==
  ASSUME ExecInv, NEW c \in Callers, ChildStep(c)
  PROVE  ExecInv'
<1>1. PICK r, k, w, e : r = call[c] /\ k = child[c] /\ w = pipe[c] /\ e = OwnEnds(c)
  OBVIOUS
<1>2. CallRight(r, k, w, e)
  BY <1>1 DEF ExecInv
<1>3. ASSUME NEW k2, SetChild(c, k2), UNCHANGED <<table, call, pipe>>,
             CallRight(r, k2, w, e)
      PROVE  ExecInv'
  <2>1. OnlyAt(c, child, child', k2) /\ OnlyAt(c, pipe, pipe', w)
    BY <1>1, <1>3 DEF OnlyAt, SetChild, ExecInv
  <2> QED BY <1>1, <1>3, <2>1, ChildMoves
<1>4. CASE ChildClose(c)
  <2>1. PICK k2 : k2 = [k EXCEPT !.pc = "exec", !.ends = @ \ {<<c, "read">>}]
    OBVIOUS
  <2>2. k.pc = "close" /\ SetChild(c, k2) /\ UNCHANGED <<table, call, pipe>>
    BY <1>1, <1>4, <2>1 DEF ChildClose, ChildAt
  <2>3. CallRight(r, k2, w, e)
    <3>1. CallTypes(r, k, w)
      BY <1>2 DEF CallRight
    <3>5. CallTypes(r, k2, w)
      <4>1. k2 \in ChildRecords
        BY <2>1, <3>1, LabelsAre DEF CallTypes, ChildRecords
      <4> QED BY <3>1, <4>1 DEF CallTypes
    <3>6. CallShape(r, k2, e)
      BY <1>2, <2>1, <2>2, <3>1 DEF CallRight, CallTypes, ChildRecords, CallShape
    <3>7. ChildShape(r, k2, w)
      BY <1>2, <2>1, <2>2, <3>1 DEF CallRight, CallTypes, ChildRecords, ChildShape
    <3>8. CallTruth(r, k2, w)
      BY <1>2, <2>1, <2>2, <3>1 DEF CallRight, CallTypes, ChildRecords, CallTruth
    <3> QED BY <3>5, <3>6, <3>7, <3>8 DEF CallRight
  <2> QED BY <1>3, <2>2, <2>3
<1>5. CASE ChildArguments(c)
  <2>1. PICK k2 : /\ \/ k2 = [k EXCEPT !.pc = "exec"]
                     \/ k2 = [k EXCEPT !.pc = "ended", !.ends = {}, !.status = Killed]
                  /\ SetChild(c, k2)
    BY <1>1, <1>5 DEF ChildArguments
  <2>2. k.pc = "arguments" /\ UNCHANGED <<table, call, pipe>>
    BY <1>1, <1>5 DEF ChildArguments, ChildAt
  <2>3. CallRight(r, k2, w, e)
    <3>5. CallTypes(r, k2, w)
      <4>1. CallTypes(r, k, w)
        BY <1>2 DEF CallRight
      <4>2. k2 \in ChildRecords
        <5>1. CASE k2 = [k EXCEPT !.pc = "exec"]
          BY <4>1, <5>1, LabelsAre DEF CallTypes, ChildRecords
        <5>2. CASE k2 = [k EXCEPT !.pc = "ended", !.ends = {}, !.status = Killed]
          BY <4>1, <5>2, LabelsAre DEF CallTypes, ChildRecords
        <5> QED BY <2>1, <5>1, <5>2
      <4> QED BY <4>1, <4>2 DEF CallTypes
    <3>6. CallShape(r, k2, e)
      BY <1>2, <2>1, <2>2 DEF CallRight, CallTypes, CallRecords, ChildRecords, CallShape
    <3>7. ChildShape(r, k2, w)
      BY <1>2, <2>1, <2>2 DEF CallRight, CallTypes, CallRecords, ChildRecords, CallShape, ChildShape
    <3>8. CallTruth(r, k2, w)
      BY <1>2, <2>1, <2>2 DEF CallRight, CallTypes, CallRecords, ChildRecords, CallShape, ChildShape, CallTruth
    <3> QED BY <3>5, <3>6, <3>7, <3>8 DEF CallRight
  <2> QED BY <1>3, <2>1, <2>2, <2>3
<1>6. CASE Exec(c)
  <2>1. PICK pc, ends : IF r.program.error = 0
                          THEN pc = "running" /\ ends = {}
                          ELSE pc = (IF Piped(r) THEN "write" ELSE "exit") /\ ends = k.ends
    OBVIOUS
  <2>2. PICK k2 : k2 = [k EXCEPT !.pc = pc, !.ends = ends]
    OBVIOUS
  <2>3. k.pc = "exec" /\ SetChild(c, k2) /\ UNCHANGED <<table, call, pipe>>
    <3>1. k.pc = "exec" /\ UNCHANGED <<table, call, pipe>>
      BY <1>1, <1>6 DEF Exec, ChildAt
    <3>2. CASE r.program.error = 0
      BY <1>1, <1>6, <2>1, <2>2, <3>1, <3>2 DEF Exec
    <3>3. CASE r.program.error # 0
      <4>1. k2 = [k EXCEPT !.pc = IF ByPipe(c) THEN "write" ELSE "exit"]
        BY <1>1, <1>2, <2>1, <2>2, <3>3 DEF ByPipe, Piped, CallRight, CallTypes, ChildRecords
      <4> QED BY <1>1, <1>6, <3>1, <3>3, <4>1 DEF Exec
    <3> QED BY <3>2, <3>3
  <2>4. CallRight(r, k2, w, e)
    <3>5. CallTypes(r, k2, w)
      <4>1. CallTypes(r, k, w)
        BY <1>2 DEF CallRight
      <4>2. k2 \in ChildRecords
        <5>1. pc \in ChildPcs
          BY <2>1, LabelsAre
        <5>2. ends = {} \/ ends = k.ends
          BY <2>1
        <5> QED BY <2>2, <4>1, <5>1, <5>2 DEF CallTypes, ChildRecords
      <4> QED BY <4>1, <4>2 DEF CallTypes
    <3>6. CallShape(r, k2, e)
      BY <1>2, <2>1, <2>2, <2>3 DEF CallRight, CallTypes, CallRecords, ChildRecords, CallShape
    <3>7. ChildShape(r, k2, w)
      BY <1>2, <2>1, <2>2, <2>3 DEF CallRight, CallTypes, CallRecords, ChildRecords, CallShape, ChildShape
    <3>8. CallTruth(r, k2, w)
      BY <1>2, <2>1, <2>2, <2>3 DEF CallRight, CallTypes, CallRecords, ChildRecords, CallShape, ChildShape, CallTruth
    <3> QED BY <3>5, <3>6, <3>7, <3>8 DEF CallRight
  <2> QED BY <1>3, <2>3, <2>4
<1>7. CASE ProgramEnds(c)
  <2>1. PICK k2 : k2 = [k EXCEPT !.pc = "ended", !.status = r.program.exit]
    OBVIOUS
  <2>2. /\ k.pc = "running" /\ r.program.exit # Forever
        /\ SetChild(c, k2) /\ UNCHANGED <<table, call, pipe>>
    BY <1>1, <1>7, <2>1 DEF ProgramEnds, ChildAt
  <2>3. CallRight(r, k2, w, e)
    <3>1. r.program \in Programs
      BY <1>2, <2>2 DEF CallRight, CallShape
    <3>2. r.program.exit \in {Killed} \cup 0 .. 255
      BY <3>1, <2>2, ExecAssumption
    <3>5. CallTypes(r, k2, w)
      <4>1. CallTypes(r, k, w)
        BY <1>2 DEF CallRight
      <4>2. k2 \in ChildRecords
        <5>1. r.program.exit \in Endings
          BY <3>2 DEF Endings, Statuses
        <5> QED BY <2>1, <4>1, <5>1, LabelsAre DEF CallTypes, ChildRecords
      <4> QED BY <4>1, <4>2 DEF CallTypes
    <3>6. CallShape(r, k2, e)
      BY <1>2, <2>1, <2>2, <3>2 DEF CallRight, CallTypes, CallRecords, ChildRecords, CallShape
    <3>7. ChildShape(r, k2, w)
      BY <1>2, <2>1, <2>2, <3>2 DEF CallRight, CallTypes, CallRecords, ChildRecords, CallShape, ChildShape
    <3>8. CallTruth(r, k2, w)
      BY <1>2, <2>1, <2>2, <3>2 DEF CallRight, CallTypes, CallRecords, ChildRecords, CallShape, ChildShape, CallTruth
    <3> QED BY <3>5, <3>6, <3>7, <3>8 DEF CallRight
  <2> QED BY <1>3, <2>2, <2>3
<1>8. CASE WriteError(c)
  <2>1. k.pc = "write" /\ UNCHANGED <<table, call>>
    BY <1>1, <1>8 DEF WriteError, ChildAt
  <2>2. CASE Held(c, "read")
    <3>1. PICK k2 : k2 = [k EXCEPT !.pc = "exit"]
      OBVIOUS
    <3>2. SetChild(c, k2) /\ pipe' = [pipe EXCEPT ![c] = r.program.error]
      BY <1>1, <1>8, <2>2, <3>1 DEF WriteError
    <3>3. CallRight(r, k2, r.program.error, e)
      <4>1. CallTypes(r, k, w)
        BY <1>2 DEF CallRight
      <4>2. r.program \in Programs
        BY <1>2, <2>1 DEF CallRight, CallShape
      <4>5. CallTypes(r, k2, r.program.error)
        <5>1. k2 \in ChildRecords
          BY <3>1, <4>1, LabelsAre DEF CallTypes, ChildRecords
        <5> QED BY <4>1, <4>2, <5>1 DEF CallTypes
      <4>6. CallShape(r, k2, e)
        BY <1>2, <2>1, <3>1, <4>1 DEF CallRight, CallTypes, ChildRecords, CallShape
      <4>7. ChildShape(r, k2, r.program.error)
        BY <1>2, <2>1, <3>1, <4>1 DEF CallRight, CallTypes, ChildRecords, ChildShape
      <4>8. CallTruth(r, k2, r.program.error)
        BY <1>2, <2>1, <3>1, <4>1 DEF CallRight, CallTypes, ChildRecords, CallTruth
      <4> QED BY <4>5, <4>6, <4>7, <4>8 DEF CallRight
    <3>4. OnlyAt(c, child, child', k2) /\ OnlyAt(c, pipe, pipe', r.program.error)
      BY <3>2 DEF OnlyAt, SetChild, ExecInv
    <3> QED BY <1>1, <2>1, <3>3, <3>4, ChildMoves
  <2>3. CASE ~Held(c, "read")
    <3>1. PICK k2 : k2 = [k EXCEPT !.pc = "ended", !.ends = {}, !.status = Killed]
      OBVIOUS
    <3>2. SetChild(c, k2) /\ UNCHANGED pipe
      BY <1>1, <1>8, <2>3, <3>1 DEF WriteError
    <3>3. "read" \notin e
      BY <1>1, <2>3 DEF Held, OwnEnds
    <3>4. CallRight(r, k2, w, e)
      <4>5. CallTypes(r, k2, w)
        <5>1. CallTypes(r, k, w)
          BY <1>2 DEF CallRight
        <5>2. k2 \in ChildRecords
          BY <3>1, <5>1, LabelsAre DEF CallTypes, ChildRecords
        <5> QED BY <5>1, <5>2 DEF CallTypes
      <4>6. CallShape(r, k2, e)
        BY <1>2, <2>1, <3>1, <3>3 DEF CallRight, CallTypes, CallRecords, ChildRecords, CallShape
      <4>7. ChildShape(r, k2, w)
        BY <1>2, <2>1, <3>1, <3>3 DEF CallRight, CallTypes, CallRecords, ChildRecords, CallShape, ChildShape
      <4>8. CallTruth(r, k2, w)
        BY <1>2, <2>1, <3>1, <3>3 DEF CallRight, CallTypes, CallRecords, ChildRecords, CallShape, ChildShape, CallTruth
      <4> QED BY <4>5, <4>6, <4>7, <4>8 DEF CallRight
    <3> QED BY <1>3, <2>1, <3>2, <3>4
  <2> QED BY <2>2, <2>3
<1>9. CASE ChildExit(c)
  <2>1. PICK status : status = IF Piped(r) THEN 0 ELSE ERROR_CODE
    OBVIOUS
  <2>2. PICK k2 : k2 = [k EXCEPT !.pc = "ended", !.ends = {}, !.status = status]
    OBVIOUS
  <2>3. k.pc = "exit" /\ SetChild(c, k2) /\ UNCHANGED <<table, call, pipe>>
    BY <1>1, <1>9, <2>1, <2>2 DEF ChildExit, ChildAt, ByPipe, Piped
  <2>4. status \in 0 .. 255 /\ status # Killed
    BY <2>1 DEF ERROR_CODE, Killed
  <2>5. CallRight(r, k2, w, e)
    <3>5. CallTypes(r, k2, w)
      <4>1. CallTypes(r, k, w)
        BY <1>2 DEF CallRight
      <4>2. k2 \in ChildRecords
        <5>1. status \in Endings
          BY <2>4 DEF Endings, Statuses
        <5> QED BY <2>2, <4>1, <5>1, LabelsAre DEF CallTypes, ChildRecords
      <4> QED BY <4>1, <4>2 DEF CallTypes
    <3>6. CallShape(r, k2, e)
      BY <1>2, <2>1, <2>2, <2>3, <2>4 DEF CallRight, CallTypes, CallRecords, ChildRecords, CallShape
    <3>7. ChildShape(r, k2, w)
      BY <1>2, <2>1, <2>2, <2>3, <2>4 DEF CallRight, CallTypes, CallRecords, ChildRecords, CallShape, ChildShape
    <3>8. CallTruth(r, k2, w)
      BY <1>2, <2>1, <2>2, <2>3, <2>4 DEF CallRight, CallTypes, CallRecords, ChildRecords, CallShape, ChildShape, CallTruth
    <3> QED BY <3>5, <3>6, <3>7, <3>8 DEF CallRight
  <2> QED BY <1>3, <2>3, <2>5
<1> QED BY <1>4, <1>5, <1>6, <1>7, <1>8, <1>9 DEF ChildStep

(* What Fail makes of the record r; value is the result.                   *)
Failed(r, errno, value) == [r EXCEPT !.pc = "done", !.errno = errno, !.failed = TRUE,
                                     !.result = value]
FailValue(r) == IF Piped(r) THEN -1 ELSE ERROR_CODE

LEMMA FailIs ==
  ASSUME NEW c \in Callers, NEW errno, NEW value, value = FailValue(call[c])
  PROVE  Fail(c, errno) = Failed(call[c], errno, value)
BY DEF Fail, Failed, FailValue, ByPipe, Piped

(* The record a call has when it fails, or is told of an error.            *)
AfterError(r, r2, errno, value, pc, failed) ==
    /\ r2 \in CallRecords /\ r2.pc = pc /\ r2.failed = failed
    /\ r2.errno = errno /\ r2.result = value
    /\ r2.function = r.function /\ r2.program = r.program /\ r2.created = r.created

LEMMA ErrorRecord ==
  ASSUME NEW r \in CallRecords, NEW errno \in Nat, NEW value \in -1 .. 255,
         NEW pc \in {"close read", "done"}, NEW failed \in BOOLEAN, NEW r2,
         \/ failed = TRUE /\ r2 = [Failed(r, errno, value) EXCEPT !.pc = pc]
         \/ failed = FALSE /\ r2 = [Failed(r, errno, value) EXCEPT !.pc = pc, !.failed = FALSE]
  PROVE  AfterError(r, r2, errno, value, pc, failed)
<1>1. PICK r1 : r1 = Failed(r, errno, value)
  OBVIOUS
<1>2. value \in Results /\ pc \in CallPcs
  BY LabelsAre DEF Results
<1>3. AfterError(r, r1, errno, value, "done", TRUE)
  BY <1>1, <1>2, LabelsAre DEF Failed, CallRecords, AfterError
<1>4. PICK r3 : r3 = [r1 EXCEPT !.pc = pc]
  OBVIOUS
<1>5. AfterError(r, r3, errno, value, pc, TRUE)
  BY <1>2, <1>3, <1>4 DEF CallRecords, AfterError
<1>6. CASE failed = TRUE
  BY <1>1, <1>4, <1>5, <1>6
<1>7. CASE failed = FALSE
  <2>1. r2 = [r3 EXCEPT !.failed = FALSE]
    BY <1>1, <1>4, <1>7
  <2>2. AfterError(r, r2, errno, value, pc, FALSE)
    BY <1>5, <2>1 DEF CallRecords, AfterError
  <2> QED BY <1>7, <2>2
<1> QED BY <1>6, <1>7

(* The calls of execute and the system calls before the wait.              *)
LEMMA EarlySteps ==
  ASSUME ExecInv, NEW c \in Callers,
         \/ \E f \in Functions, p \in Programs \cup {NoProgram} : CallExecute(c, f, p)
         \/ OpenPipe(c) \/ Fork(c) \/ CloseWrite(c)
  PROVE  ExecInv'
<1>1. PICK r, k, w, e : r = call[c] /\ k = child[c] /\ w = pipe[c] /\ e = OwnEnds(c)
  OBVIOUS
<1>2. CallRight(r, k, w, e)
  BY <1>1 DEF ExecInv
<1>3. ASSUME NEW r2, call' = [call EXCEPT ![c] = r2], UNCHANGED <<table, child, pipe>>,
             CallRight(r2, k, w, e)
      PROVE  ExecInv'
  <2>1. OnlyAt(c, call, call', r2) /\ OwnEnds(c)' = e /\ table' \subseteq AllEnds
    BY <1>1, <1>3 DEF OnlyAt, ExecInv, OwnEnds
  <2> QED BY <1>1, <1>3, <2>1, CallerMoves
<1>4. PICK value : value = FailValue(r)
  OBVIOUS
<1>5. value \in -1 .. 255
  BY <1>4 DEF FailValue, ERROR_CODE
<1>6. ASSUME NEW f \in Functions, NEW p \in Programs \cup {NoProgram}, CallExecute(c, f, p)
      PROVE  ExecInv'
  <2>1. r.pc = "idle" /\ UNCHANGED <<table, child, pipe>> /\ f \in {"pipe.c", "execute.c"}
    BY <1>1, <1>6, ExecAssumption DEF CallExecute, CallAt
  <2>2. CASE p = NoProgram
    <3>1. PICK result : result = IF f = "pipe.c" THEN -1 ELSE ERROR_CODE
      OBVIOUS
    <3>2. result \in -1 .. 255
      BY <3>1 DEF ERROR_CODE
    <3>3. PICK r2 : r2 = [r EXCEPT !.pc = "done", !.failed = TRUE, !.function = f,
                                   !.result = result]
      OBVIOUS
    <3>4. call' = [call EXCEPT ![c] = r2]
      BY <1>1, <1>6, <2>2, <3>1, <3>3 DEF CallExecute
    <3>5. CallRight(r2, k, w, e)
      <4>5. CallTypes(r2, k, w)
        <5>1. CallTypes(r, k, w)
          BY <1>2 DEF CallRight
        <5>2. r2 \in CallRecords
          BY <1>2, <2>1, <3>2, <3>3, <5>1 DEF CallTypes, CallRecords, CallPcs, Results
        <5> QED BY <5>1, <5>2 DEF CallTypes
      <4>6. CallShape(r2, k, e)
        BY <1>2, <2>1, <3>2, <3>3 DEF CallRight, CallTypes, CallRecords, ChildRecords, CallShape, Piped
      <4>7. ChildShape(r2, k, w)
        BY <1>2, <2>1, <3>2, <3>3 DEF CallRight, CallTypes, CallRecords, ChildRecords, CallShape, ChildShape, Piped
      <4>8. CallTruth(r2, k, w)
        BY <1>2, <2>1, <3>2, <3>3 DEF CallRight, CallTypes, CallRecords, ChildRecords, CallShape, ChildShape, CallTruth, Piped
      <4> QED BY <4>5, <4>6, <4>7, <4>8 DEF CallRight
    <3> QED BY <1>3, <2>1, <3>4, <3>5
  <2>3. CASE p # NoProgram
    <3>1. PICK pc : pc = IF f = "pipe.c" THEN "pipe" ELSE "fork"
      OBVIOUS
    <3>2. p \in Programs /\ pc \in {"pipe", "fork"}
      BY <2>3, <3>1
    <3>3. PICK r2 : r2 = [r EXCEPT !.pc = pc, !.function = f, !.program = p]
      OBVIOUS
    <3>4. call' = [call EXCEPT ![c] = r2]
      BY <1>1, <1>6, <2>3, <3>1, <3>3 DEF CallExecute
    <3>5. CallRight(r2, k, w, e)
      <4>5. CallTypes(r2, k, w)
        <5>1. CallTypes(r, k, w)
          BY <1>2 DEF CallRight
        <5>3. pc \in CallPcs /\ p \in CallPrograms
          BY <3>2 DEF CallPcs, CallPrograms
        <5>2. r2 \in CallRecords
          BY <2>1, <3>3, <5>1, <5>3 DEF CallTypes, CallRecords
        <5> QED BY <5>1, <5>2 DEF CallTypes
      <4>6. CallShape(r2, k, e)
        BY <1>2, <2>1, <3>1, <3>2, <3>3 DEF CallRight, CallTypes, CallRecords, ChildRecords, CallShape, Piped
      <4>7. ChildShape(r2, k, w)
        BY <1>2, <2>1, <3>1, <3>2, <3>3 DEF CallRight, CallTypes, CallRecords, ChildRecords, CallShape, ChildShape, Piped
      <4>8. CallTruth(r2, k, w)
        BY <1>2, <2>1, <3>1, <3>2, <3>3 DEF CallRight, CallTypes, CallRecords, ChildRecords, CallShape, ChildShape, CallTruth, Piped
      <4> QED BY <4>5, <4>6, <4>7, <4>8 DEF CallRight
    <3> QED BY <1>3, <2>1, <3>4, <3>5
  <2> QED BY <2>2, <2>3
<1>7. ASSUME NEW r2, r.pc \in {"pipe", "fork"}, call' = [call EXCEPT ![c] = Fail(c, 0)],
             UNCHANGED <<table, child, pipe>>
      PROVE  ExecInv'
  <2>1. PICK r3 : r3 = Failed(r, 0, value)
    OBVIOUS
  <2>2. call' = [call EXCEPT ![c] = r3]
    BY <1>1, <1>4, <1>7, <2>1, FailIs
  <2>3. CallRight(r3, k, w, e)
    <3>5. CallTypes(r3, k, w)
      <4>1. CallTypes(r, k, w)
        BY <1>2 DEF CallRight
      <4>2. r3 \in CallRecords
        BY <1>2, <1>5, <1>7, <2>1, <4>1 DEF CallTypes, CallRecords, CallPcs, Results, Failed
      <4> QED BY <4>1, <4>2 DEF CallTypes
    <3>6. CallShape(r3, k, e)
      BY <1>2, <1>5, <1>7, <2>1 DEF CallRight, CallTypes, CallRecords, ChildRecords, CallShape, Piped, Failed
    <3>7. ChildShape(r3, k, w)
      BY <1>2, <1>5, <1>7, <2>1 DEF CallRight, CallTypes, CallRecords, ChildRecords, CallShape, ChildShape, Piped, Failed
    <3>8. CallTruth(r3, k, w)
      BY <1>2, <1>5, <1>7, <2>1 DEF CallRight, CallTypes, CallRecords, ChildRecords, CallShape, ChildShape, CallTruth, Piped, Failed
    <3> QED BY <3>5, <3>6, <3>7, <3>8 DEF CallRight
  <2> QED BY <1>3, <1>7, <2>2, <2>3
<1>8. CASE OpenPipe(c)
  <2>1. r.pc = "pipe" /\ UNCHANGED <<child, pipe>>
    BY <1>1, <1>8 DEF OpenPipe, CallAt
  <2>2. CASE call' = [call EXCEPT ![c] = Fail(c, 0)] /\ UNCHANGED table
    BY <1>7, <2>1, <2>2
  <2>3. CASE table' = table \cup Ends(c) /\ call' = [call EXCEPT ![c].pc = "fork"]
    <3>1. PICK r2 : r2 = [r EXCEPT !.pc = "fork"]
      OBVIOUS
    <3>2. OnlyAt(c, call, call', r2)
      BY <1>1, <2>3, <3>1 DEF OnlyAt, ExecInv
    <3>3. PICK e2 : e2 = {"read", "write"}
      OBVIOUS
    <3>4. /\ table' \subseteq AllEnds /\ OwnEnds(c)' = e2
          /\ \A x \in AllEnds : x[1] # c => (x \in table' <=> x \in table)
      BY <2>3, <3>3 DEF Ends, AllEnds, OwnEnds, ExecInv
    <3>5. CallRight(r2, k, w, e2)
      <4>5. CallTypes(r2, k, w)
        <5>1. CallTypes(r, k, w)
          BY <1>2 DEF CallRight
        <5>2. r2 \in CallRecords
          BY <1>2, <2>1, <3>1, <3>3, <5>1 DEF CallTypes, CallRecords, CallPcs, Results
        <5> QED BY <5>1, <5>2 DEF CallTypes
      <4>6. CallShape(r2, k, e2)
        BY <1>2, <2>1, <3>1, <3>3 DEF CallRight, CallTypes, CallRecords, ChildRecords, CallShape, Piped
      <4>7. ChildShape(r2, k, w)
        BY <1>2, <2>1, <3>1, <3>3 DEF CallRight, CallTypes, CallRecords, ChildRecords, CallShape, ChildShape, Piped
      <4>8. CallTruth(r2, k, w)
        BY <1>2, <2>1, <3>1, <3>3 DEF CallRight, CallTypes, CallRecords, ChildRecords, CallShape, ChildShape, CallTruth, Piped
      <4> QED BY <4>5, <4>6, <4>7, <4>8 DEF CallRight
    <3> QED BY <1>1, <2>1, <3>2, <3>4, <3>5, CallerMoves
  <2> QED BY <1>8, <2>2, <2>3 DEF OpenPipe
<1>9. CASE Fork(c)
  <2>1. r.pc = "fork" /\ UNCHANGED <<table, pipe>>
    BY <1>1, <1>9 DEF Fork, CallAt
  <2>2. CASE call' = [call EXCEPT ![c] = Fail(c, 0)] /\ UNCHANGED child
    BY <1>7, <2>1, <2>2
  <2>3. CASE /\ SetChild(c, [pc |-> IF ByPipe(c) THEN "close" ELSE "arguments",
                             ends |-> table, status |-> 0])
             /\ call' = [call EXCEPT ![c].pc = IF ByPipe(c) THEN "close" ELSE "wait",
                                     ![c].created = TRUE]
    <3>1. PICK kpc, rpc : IF Piped(r) THEN kpc = "close" /\ rpc = "close"
                                      ELSE kpc = "arguments" /\ rpc = "wait"
      OBVIOUS
    <3>2. PICK ends : ends = table
      OBVIOUS
    <3>3. ends \subseteq AllEnds
      BY <3>2 DEF ExecInv
    <3>4. PICK r2, k2 : /\ r2 = [r EXCEPT !.pc = rpc, !.created = TRUE]
                        /\ k2 = [pc |-> kpc, ends |-> ends, status |-> 0]
      OBVIOUS
    <3>5. OnlyAt(c, call, call', r2) /\ OnlyAt(c, child, child', k2) /\ OnlyAt(c, pipe, pipe', w)
      BY <1>1, <2>1, <2>3, <3>1, <3>2, <3>4 DEF OnlyAt, ExecInv, SetChild, ByPipe, Piped
    <3>6. /\ table' \subseteq AllEnds /\ OwnEnds(c)' = e
          /\ \A x \in AllEnds : x[1] # c => (x \in table' <=> x \in table)
      BY <1>1, <2>1 DEF OwnEnds, ExecInv
    <3>7. CallRight(r2, k2, w, e)
      <4>5. CallTypes(r2, k2, w)
        <5>1. rpc \in {"close", "wait"} /\ kpc \in {"close", "arguments"}
          BY <3>1
        <5>4. rpc \in CallPcs /\ kpc \in ChildPcs /\ 0 \in Endings
          BY <5>1, LabelsAre
        <5>2. r2 \in CallRecords
          BY <1>2, <3>4, <5>4 DEF CallRight, CallTypes, CallRecords
        <5>3. k2 \in ChildRecords
          BY <3>3, <3>4, <5>4 DEF ChildRecords
        <5> QED BY <1>2, <5>2, <5>3 DEF CallRight, CallTypes
      <4>6. CallShape(r2, k2, e)
        BY <1>2, <2>1, <3>1, <3>3, <3>4 DEF CallRight, CallTypes, CallRecords, ChildRecords, CallShape, Piped
      <4>7. ChildShape(r2, k2, w)
        BY <1>2, <2>1, <3>1, <3>3, <3>4 DEF CallRight, CallTypes, CallRecords, ChildRecords, CallShape, ChildShape, Piped
      <4>8. CallTruth(r2, k2, w)
        BY <1>2, <2>1, <3>1, <3>3, <3>4 DEF CallRight, CallTypes, CallRecords, ChildRecords, CallShape, ChildShape, CallTruth, Piped
      <4> QED BY <4>5, <4>6, <4>7, <4>8 DEF CallRight
    <3> QED BY <3>5, <3>6, <3>7, OneCall
  <2> QED BY <1>9, <2>2, <2>3 DEF Fork
<1>10. CASE CloseWrite(c)
  <2>1. r.pc = "close" /\ UNCHANGED <<child, pipe>>
    BY <1>1, <1>10 DEF CloseWrite, CallAt
  <2>2. PICK r2 : r2 = [r EXCEPT !.pc = "wait"]
    OBVIOUS
  <2>3. OnlyAt(c, call, call', r2)
    BY <1>1, <1>10, <2>2 DEF CloseWrite, OnlyAt, ExecInv
  <2>4. PICK e2 : e2 = {"read"}
    OBVIOUS
  <2>5. e = {"read", "write"}
    BY <1>2, <2>1 DEF CallRight, CallShape
  <2>6. /\ table' \subseteq AllEnds /\ OwnEnds(c)' = e2
        /\ \A x \in AllEnds : x[1] # c => (x \in table' <=> x \in table)
    BY <1>1, <1>10, <2>4, <2>5 DEF CloseWrite, AllEnds, OwnEnds, ExecInv
  <2>7. CallRight(r2, k, w, e2)
    <3>5. CallTypes(r2, k, w)
      <4>1. CallTypes(r, k, w)
        BY <1>2 DEF CallRight
      <4>2. r2 \in CallRecords
        BY <1>2, <2>1, <2>2, <2>4, <4>1 DEF CallTypes, CallRecords, CallPcs, Results
      <4> QED BY <4>1, <4>2 DEF CallTypes
    <3>6. CallShape(r2, k, e2)
      BY <1>2, <2>1, <2>2, <2>4 DEF CallRight, CallTypes, CallRecords, ChildRecords, CallShape, Piped
    <3>7. ChildShape(r2, k, w)
      BY <1>2, <2>1, <2>2, <2>4 DEF CallRight, CallTypes, CallRecords, ChildRecords, CallShape, ChildShape, Piped
    <3>8. CallTruth(r2, k, w)
      BY <1>2, <2>1, <2>2, <2>4 DEF CallRight, CallTypes, CallRecords, ChildRecords, CallShape, ChildShape, CallTruth, Piped
    <3> QED BY <3>5, <3>6, <3>7, <3>8 DEF CallRight
  <2> QED BY <1>1, <2>1, <2>3, <2>6, <2>7, CallerMoves
<1> QED BY <1>6, <1>8, <1>9, <1>10

(* The steps from the wait on.                                             *)
LEMMA LateSteps ==
  ASSUME ExecInv, NEW c \in Callers,
         \/ Wait(c) \/ WaitFails(c) \/ WaitAndReturn(c)
         \/ ReadError(c) \/ ReadFails(c) \/ CloseRead(c)
  PROVE  ExecInv'
<1>1. PICK r, k, w, e : r = call[c] /\ k = child[c] /\ w = pipe[c] /\ e = OwnEnds(c)
  OBVIOUS
<1>2. CallRight(r, k, w, e)
  BY <1>1 DEF ExecInv
<1>3. ASSUME NEW r2, call' = [call EXCEPT ![c] = r2], UNCHANGED <<table, child, pipe>>,
             CallRight(r2, k, w, e)
      PROVE  ExecInv'
  <2>1. OnlyAt(c, call, call', r2) /\ OwnEnds(c)' = e /\ table' \subseteq AllEnds
    BY <1>1, <1>3 DEF OnlyAt, ExecInv, OwnEnds
  <2> QED BY <1>1, <1>3, <2>1, CallerMoves
<1>4. PICK value : value = FailValue(r)
  OBVIOUS
<1>5. value \in -1 .. 255 /\ (Piped(r) => value = -1)
  BY <1>4 DEF FailValue, ERROR_CODE
<1>12. r \in CallRecords /\ k \in ChildRecords
  BY <1>2 DEF CallRight, CallTypes
<1>6. CASE Wait(c)
  <2>1. /\ r.pc = "wait" /\ Piped(r) /\ k.pc = "ended"
        /\ UNCHANGED <<table, child, pipe>>
    BY <1>1, <1>6 DEF Wait, CallAt, ChildAt, ByPipe, Piped
  <2>2. CASE k.status = Killed
    <3>1. PICK r2 : r2 = [Failed(r, ECANCELED, value) EXCEPT !.pc = "close read",
                                                           !.failed = FALSE]
      OBVIOUS
    <3>2. call' = [call EXCEPT ![c] = r2]
      BY <1>1, <1>4, <1>6, <2>2, <3>1, FailIs DEF Wait
    <3>4. AfterError(r, r2, ECANCELED, value, "close read", FALSE)
      BY <1>12, <1>5, <3>1, ErrorRecord DEF ECANCELED
    <3>3. CallRight(r2, k, w, e)
      <4>5. CallTypes(r2, k, w)
        BY <1>2, <1>5, <2>1, <2>2, <3>4 DEF CallRight, CallTypes, AfterError
      <4>6. CallShape(r2, k, e)
        BY <1>2, <1>5, <2>1, <2>2, <3>4 DEF CallRight, CallTypes, CallRecords, ChildRecords, CallShape, Piped, AfterError
      <4>7. ChildShape(r2, k, w)
        BY <1>2, <1>5, <2>1, <2>2, <3>4 DEF CallRight, CallTypes, CallRecords, ChildRecords, CallShape, ChildShape, Piped, AfterError
      <4>8. CallTruth(r2, k, w)
        BY <1>2, <1>5, <2>1, <2>2, <3>4 DEF CallRight, CallTypes, CallRecords, ChildRecords, CallShape, ChildShape, CallTruth, Piped, AfterError
      <4> QED BY <4>5, <4>6, <4>7, <4>8 DEF CallRight
    <3> QED BY <1>3, <2>1, <3>2, <3>3
  <2>3. CASE k.status # Killed
    <3>1. PICK r2 : r2 = [r EXCEPT !.pc = "read", !.status = k.status]
      OBVIOUS
    <3>2. call' = [call EXCEPT ![c] = r2]
      BY <1>1, <1>6, <2>3, <3>1 DEF Wait
    <3>3. CallRight(r2, k, w, e)
      <4>5. CallTypes(r2, k, w)
        <5>1. CallTypes(r, k, w)
          BY <1>2 DEF CallRight
        <5>3. k.status \in Statuses /\ "read" \in CallPcs
          BY <2>3, <5>1 DEF CallTypes, ChildRecords, Endings, CallPcs
        <5>2. r2 \in CallRecords
          BY <3>1, <5>1, <5>3 DEF CallTypes, CallRecords
        <5> QED BY <5>1, <5>2 DEF CallTypes
      <4>6. CallShape(r2, k, e)
        BY <1>2, <2>1, <2>3, <3>1 DEF CallRight, CallTypes, CallRecords, ChildRecords, CallShape, Piped
      <4>7. ChildShape(r2, k, w)
        BY <1>2, <2>1, <2>3, <3>1 DEF CallRight, CallTypes, CallRecords, ChildRecords, CallShape, ChildShape, Piped
      <4>8. CallTruth(r2, k, w)
        BY <1>2, <2>1, <2>3, <3>1 DEF CallRight, CallTypes, CallRecords, ChildRecords, CallShape, ChildShape, CallTruth, Piped
      <4> QED BY <4>5, <4>6, <4>7, <4>8 DEF CallRight
    <3> QED BY <1>3, <2>1, <3>2, <3>3
  <2> QED BY <2>2, <2>3
<1>7. CASE WaitFails(c)
  <2>1. r.pc = "wait" /\ UNCHANGED <<table, child, pipe>>
    BY <1>1, <1>7 DEF WaitFails, CallAt
  <2>2. PICK pc : pc = IF Piped(r) THEN "close read" ELSE "done"
    OBVIOUS
  <2>3. PICK r2 : r2 = [Failed(r, 0, value) EXCEPT !.pc = pc]
    OBVIOUS
  <2>4. call' = [call EXCEPT ![c] = r2]
    BY <1>1, <1>4, <1>7, <2>2, <2>3, FailIs DEF WaitFails, ByPipe, Piped
  <2>5. pc \in {"close read", "done"}
    BY <2>2
  <2>7. AfterError(r, r2, 0, value, pc, TRUE)
    BY <1>12, <1>5, <2>3, <2>5, ErrorRecord
  <2>8. (Piped(r) /\ pc = "close read") \/ (~Piped(r) /\ pc = "done")
    BY <2>2
  <2>6. CallRight(r2, k, w, e)
    <3>5. CallTypes(r2, k, w)
      BY <1>2, <2>1, <2>7, <2>8 DEF CallRight, CallTypes, AfterError
    <3>6. CallShape(r2, k, e)
      BY <1>2, <2>1, <2>7, <2>8 DEF CallRight, CallShape, Piped, AfterError
    <3>7. ChildShape(r2, k, w)
      BY <1>2, <2>1, <2>7, <2>8 DEF CallRight, CallShape, ChildShape, Piped, AfterError
    <3>8. CallTruth(r2, k, w)
      BY <1>2, <2>1, <2>7, <2>8 DEF CallRight, CallShape, ChildShape, CallTruth, Piped, AfterError
    <3> QED BY <3>5, <3>6, <3>7, <3>8 DEF CallRight
  <2> QED BY <1>3, <2>1, <2>4, <2>6
<1>8. CASE WaitAndReturn(c)
  <2>1. /\ r.pc = "wait" /\ ~Piped(r) /\ k.pc = "ended"
        /\ UNCHANGED <<table, child, pipe>>
    BY <1>1, <1>8 DEF WaitAndReturn, CallAt, ChildAt, ByPipe, Piped
  <2>2. PICK result : result = IF k.status = Killed THEN ERROR_CODE ELSE k.status
    OBVIOUS
  <2>3. PICK r2 : r2 = [r EXCEPT !.pc = "done", !.result = result]
    OBVIOUS
  <2>4. call' = [call EXCEPT ![c] = r2]
    BY <1>1, <1>8, <2>2, <2>3 DEF WaitAndReturn
  <2>5. result \in -1 .. 255
    BY <1>2, <2>2 DEF CallRight, CallTypes, ChildRecords, Endings, Statuses, ERROR_CODE, Killed
  <2>9. result \in Results /\ "done" \in CallPcs
    BY <2>5 DEF Results, CallPcs
  <2>7. r2 \in CallRecords
    BY <1>12, <2>3, <2>9 DEF CallRecords
  <2>6. CallRight(r2, k, w, e)
    <3>5. CallTypes(r2, k, w)
      BY <1>2, <2>7 DEF CallRight, CallTypes
    <3>6. CallShape(r2, k, e)
      BY <1>2, <2>1, <2>2, <2>3, <2>5 DEF CallRight, CallTypes, CallRecords, ChildRecords, CallShape, Piped
    <3>7. ChildShape(r2, k, w)
      BY <1>2, <2>1, <2>2, <2>3, <2>5 DEF CallRight, CallTypes, CallRecords, ChildRecords, CallShape, ChildShape, Piped
    <3>8. CallTruth(r2, k, w)
      BY <1>2, <2>1, <2>2, <2>3, <2>5 DEF CallRight, CallTypes, CallRecords, ChildRecords, CallShape, ChildShape, CallTruth, Piped
    <3> QED BY <3>5, <3>6, <3>7, <3>8 DEF CallRight
  <2> QED BY <1>3, <2>1, <2>4, <2>6
<1>9. CASE ReadError(c)
  <2>1. r.pc = "read" /\ UNCHANGED <<table, child, pipe>>
    BY <1>1, <1>9 DEF ReadError, CallAt
  <2>2. CASE w # 0
    <3>1. PICK r2 : r2 = [Failed(r, w, value) EXCEPT !.pc = "close read", !.failed = FALSE]
      OBVIOUS
    <3>2. call' = [call EXCEPT ![c] = r2]
      <4>1. call' = [call EXCEPT ![c] = [Fail(c, w) EXCEPT !.pc = "close read",
                                                           !.failed = FALSE]]
        BY <1>1, <1>9, <2>2 DEF ReadError
      <4> QED BY <1>1, <1>4, <3>1, <4>1, FailIs
    <3>3. w \in Nat
      BY <1>2, ExecAssumption DEF CallRight, CallTypes
    <3>5. AfterError(r, r2, w, value, "close read", FALSE)
      BY <1>12, <1>5, <3>1, <3>3, ErrorRecord
    <3>4. CallRight(r2, k, w, e)
      <4>5. CallTypes(r2, k, w)
        BY <1>2, <1>5, <2>1, <2>2, <3>5 DEF CallRight, CallTypes, AfterError
      <4>6. CallShape(r2, k, e)
        BY <1>2, <1>5, <2>1, <2>2, <3>5 DEF CallRight, CallTypes, CallRecords, ChildRecords, CallShape, Piped, AfterError
      <4>7. ChildShape(r2, k, w)
        BY <1>2, <1>5, <2>1, <2>2, <3>5 DEF CallRight, CallTypes, CallRecords, ChildRecords, CallShape, ChildShape, Piped, AfterError
      <4>8. CallTruth(r2, k, w)
        BY <1>2, <1>5, <2>1, <2>2, <3>5 DEF CallRight, CallTypes, CallRecords, ChildRecords, CallShape, ChildShape, CallTruth, Piped, AfterError
      <4> QED BY <4>5, <4>6, <4>7, <4>8 DEF CallRight
    <3> QED BY <1>3, <2>1, <3>2, <3>4
  <2>3. CASE w = 0
    <3>1. PICK r2 : r2 = [r EXCEPT !.pc = "close read", !.result = r.status]
      OBVIOUS
    <3>2. call' = [call EXCEPT ![c] = r2]
      BY <1>1, <1>9, <2>3, <3>1 DEF ReadError, ExecInv
    <3>4. r2 \in CallRecords
      <4>1. r.status \in -1 .. 255
        <5>1. r.status \in 0 .. 255
          BY <1>12 DEF CallRecords, Statuses
        <5> QED BY <5>1
      <4>2. r.status \in Results /\ "close read" \in CallPcs
        BY <4>1 DEF Results, CallPcs
      <4> QED BY <1>12, <3>1, <4>2 DEF CallRecords
    <3>3. CallRight(r2, k, w, e)
      <4>5. CallTypes(r2, k, w)
        BY <1>2, <3>4 DEF CallRight, CallTypes
      <4>6. CallShape(r2, k, e)
        BY <1>2, <2>1, <2>3, <3>1 DEF CallRight, CallTypes, CallRecords, ChildRecords, CallShape, Piped
      <4>7. ChildShape(r2, k, w)
        BY <1>2, <2>1, <2>3, <3>1 DEF CallRight, CallTypes, CallRecords, ChildRecords, CallShape, ChildShape, Piped
      <4>8. CallTruth(r2, k, w)
        BY <1>2, <2>1, <2>3, <3>1 DEF CallRight, CallTypes, CallRecords, ChildRecords, CallShape, ChildShape, CallTruth, Piped
      <4> QED BY <4>5, <4>6, <4>7, <4>8 DEF CallRight
    <3> QED BY <1>3, <2>1, <3>2, <3>3
  <2> QED BY <2>2, <2>3
<1>10. CASE ReadFails(c)
  <2>1. r.pc = "read" /\ UNCHANGED <<table, child, pipe>>
    BY <1>1, <1>10 DEF ReadFails, CallAt
  <2>2. PICK r2 : r2 = [Failed(r, ECANCELED, value) EXCEPT !.pc = "close read"]
    OBVIOUS
  <2>3. call' = [call EXCEPT ![c] = r2]
    BY <1>1, <1>4, <1>10, <2>2, FailIs DEF ReadFails
  <2>5. AfterError(r, r2, ECANCELED, value, "close read", TRUE)
    BY <1>12, <1>5, <2>2, ErrorRecord DEF ECANCELED
  <2>4. CallRight(r2, k, w, e)
    <3>5. CallTypes(r2, k, w)
      BY <1>2, <2>1, <2>5 DEF CallRight, CallTypes, AfterError
    <3>6. CallShape(r2, k, e)
      BY <1>2, <2>1, <2>5 DEF CallRight, CallShape, Piped, AfterError
    <3>7. ChildShape(r2, k, w)
      BY <1>2, <2>1, <2>5 DEF CallRight, CallShape, ChildShape, Piped, AfterError
    <3>8. CallTruth(r2, k, w)
      BY <1>2, <2>1, <2>5 DEF CallRight, CallShape, ChildShape, CallTruth, Piped, AfterError
    <3> QED BY <3>5, <3>6, <3>7, <3>8 DEF CallRight
  <2> QED BY <1>3, <2>1, <2>3, <2>4
<1>11. CASE CloseRead(c)
  <2>1. r.pc = "close read" /\ UNCHANGED <<child, pipe>>
    BY <1>1, <1>11 DEF CloseRead, CallAt
  <2>2. PICK r2 : r2 = [r EXCEPT !.pc = "done"]
    OBVIOUS
  <2>3. OnlyAt(c, call, call', r2)
    BY <1>1, <1>11, <2>2 DEF CloseRead, OnlyAt, ExecInv
  <2>4. PICK e2 : e2 = {}
    OBVIOUS
  <2>5. e = {"read"}
    BY <1>2, <2>1 DEF CallRight, CallShape
  <2>6. /\ table' \subseteq AllEnds /\ OwnEnds(c)' = e2
        /\ \A x \in AllEnds : x[1] # c => (x \in table' <=> x \in table)
    <3>1. table' = table \ {<<c, "read">>} /\ table \subseteq AllEnds
      BY <1>11 DEF CloseRead, ExecInv
    <3>2. <<c, "write">> \notin table
      BY <1>1, <2>5 DEF OwnEnds
    <3>3. OwnEnds(c)' = {}
      BY <3>1, <3>2 DEF OwnEnds
    <3> QED BY <2>4, <3>1, <3>3 DEF AllEnds
  <2>7. CallRight(r2, k, w, e2)
    <3>5. CallTypes(r2, k, w)
      <4>1. CallTypes(r, k, w)
        BY <1>2 DEF CallRight
      <4>2. r2 \in CallRecords
        BY <1>2, <2>1, <2>2, <2>4, <4>1 DEF CallTypes, CallRecords, CallPcs, Results
      <4> QED BY <4>1, <4>2 DEF CallTypes
    <3>6. CallShape(r2, k, e2)
      BY <1>2, <2>1, <2>2, <2>4 DEF CallRight, CallTypes, CallRecords, ChildRecords, CallShape, Piped
    <3>7. ChildShape(r2, k, w)
      BY <1>2, <2>1, <2>2, <2>4 DEF CallRight, CallTypes, CallRecords, ChildRecords, CallShape, ChildShape, Piped
    <3>8. CallTruth(r2, k, w)
      BY <1>2, <2>1, <2>2, <2>4 DEF CallRight, CallTypes, CallRecords, ChildRecords, CallShape, ChildShape, CallTruth, Piped
    <3> QED BY <3>5, <3>6, <3>7, <3>8 DEF CallRight
  <2> QED BY <1>1, <2>1, <2>3, <2>6, <2>7, CallerMoves
<1> QED BY <1>6, <1>7, <1>8, <1>9, <1>10, <1>11

LEMMA NextExec == ExecInv /\ [ExecNext]_execVars => ExecInv'
<1> SUFFICES ASSUME ExecInv, [ExecNext]_execVars PROVE ExecInv'
  OBVIOUS
<1>1. CASE UNCHANGED execVars
  <2>1. \A c \in Callers : OwnEnds(c)' = OwnEnds(c)
    BY <1>1 DEF OwnEnds, execVars
  <2>2. ASSUME NEW c \in Callers PROVE ExecInv'
    <3>1. /\ OnlyAt(c, call, call', call[c]) /\ OnlyAt(c, child, child', child[c])
          /\ OnlyAt(c, pipe, pipe', pipe[c])
          /\ CallRight(call[c], child[c], pipe[c], OwnEnds(c))
      BY <1>1 DEF OnlyAt, execVars, ExecInv
    <3> QED BY <1>1, <2>1, <3>1, OneCall DEF execVars, ExecInv
  <2>3. CASE Callers = {}
    BY <1>1, <2>3 DEF execVars, ExecInv, AllEnds
  <2> QED BY <2>2, <2>3
<1>2. ASSUME NEW c \in Callers, CallerStep(c) \/ WaitFails(c) \/ ReadFails(c)
      PROVE  ExecInv'
  BY <1>2, EarlySteps, LateSteps DEF CallerStep
<1>3. ASSUME NEW c \in Callers, NEW f \in Functions, NEW p \in Programs \cup {NoProgram},
             CallExecute(c, f, p)
      PROVE  ExecInv'
  BY <1>3, EarlySteps
<1> QED BY <1>1, <1>2, <1>3, ChildSteps DEF ExecNext

(* A call of execute whose own system calls went well returns what became  *)
(* of its program, whatever the calls of other threads do meanwhile, and   *)
(* leaves an end of its pipe open only when its fork failed.               *)
THEOREM ExecAlwaysRight == ExecSpec => []ExecRight
<1>1. ExecInv => ExecRight
  <2> SUFFICES ASSUME ExecInv PROVE ExecRight
    OBVIOUS
  <2>1. \A c \in Callers : CallRight(call[c], child[c], pipe[c], OwnEnds(c))
    BY DEF ExecInv
  <2>2. UNION {Ends(c) : c \in Callers} = AllEnds
    BY DEF Ends, AllEnds
  <2>3. ExecTypeOK
    <3>1. \A c \in Callers : CallTypes(call[c], child[c], pipe[c])
      BY <2>1 DEF CallRight
    <3>2. ASSUME NEW c \in Callers
          PROVE  /\ call[c].pc \in {"idle", "pipe", "fork", "close", "wait", "read",
                                    "close read", "done"}
                 /\ call[c].result \in -1 .. 255
      BY <3>1 DEF CallTypes, CallRecords, CallPcs, Results
    <3>3. ASSUME NEW c \in Callers
          PROVE  /\ child[c].pc \in {"none", "close", "arguments", "exec", "running",
                                      "write", "exit", "ended"}
                 /\ child[c].ends \subseteq AllEnds
      BY <3>1 DEF CallTypes, ChildRecords, ChildPcs
    <3>4. \A c \in Callers : pipe[c] \in {0} \cup {p.error : p \in Programs}
      BY <3>1 DEF CallTypes
    <3> QED BY <2>2, <3>2, <3>3, <3>4 DEF ExecTypeOK, ExecInv
  <2>4. ReturnsTruth
    BY <2>1 DEF ReturnsTruth, CallRight, CallTruth, CallAt, ByPipe, Piped
  <2>5. EndsClosed
    <3> SUFFICES ASSUME NEW c \in Callers, CallAt(c, "done"), Ends(c) \cap table # {}
                 PROVE  call[c].failed /\ ~call[c].created
      BY DEF EndsClosed
    <3>1. OwnEnds(c) # {}
      BY DEF Ends, OwnEnds
    <3> QED BY <2>1, <3>1 DEF CallRight, CallShape, CallAt
  <2> QED BY <2>3, <2>4, <2>5 DEF ExecRight
<1> QED BY <1>1, InitExec, NextExec, PTL DEF ExecSpec

-----------------------------------------------------------------------------
(* One copy of a file: l are its locals, src and dst the two files.        *)
Editions    == {"copy", "sol"}
Descriptors == {"source", "dest"}
Outcomes    == {0, -1}
Bytes       == Seq({0, 1})
CopyLocals  == [pc : Labels, version : Editions, blocksize : Int,
                fds : SUBSET Descriptors, buffer : BOOLEAN, pos : Nat, out : Nat,
                block : Bytes, written : Nat, result : Outcomes, short : BOOLEAN]

LEMMA CopyLabelsAre ==
  /\ "idle" \in Labels /\ "open source" \in Labels /\ "open dest" \in Labels
  /\ "allocate" \in Labels /\ "read" \in Labels /\ "write" \in Labels
  /\ "permissions" \in Labels /\ "close" \in Labels /\ "done" \in Labels
  /\ 0 \in Outcomes /\ -1 \in Outcomes /\ "source" \in Descriptors
  /\ "dest" \in Descriptors /\ "copy" \in Editions /\ "sol" \in Editions
  /\ << >> \in Bytes
<1>1. /\ "idle" \in Labels /\ "open source" \in Labels /\ "open dest" \in Labels
      /\ "allocate" \in Labels /\ "read" \in Labels /\ "write" \in Labels
      /\ "permissions" \in Labels /\ "close" \in Labels /\ "done" \in Labels
  BY Zenon DEF Labels
<1>2. /\ 0 \in Outcomes /\ -1 \in Outcomes /\ "source" \in Descriptors
      /\ "dest" \in Descriptors /\ "copy" \in Editions /\ "sol" \in Editions
  BY Zenon DEF Outcomes, Descriptors, Editions
<1>3. << >> \in Bytes
  BY EmptySeq DEF Bytes
<1> QED BY <1>1, <1>2, <1>3

(* It has made the destination, and none of its calls has failed since.    *)
Made(l) == \/ l.pc \in {"allocate", "read", "write", "permissions"}
           \/ l.pc \in {"close", "done"} /\ l.result = 0

(* Before it reads, it has no position; no call fails before it has ended. *)
CopyProgress(l) ==
    /\ l.pc \in {"idle", "open source", "open dest", "allocate"} =>
          l.pos = 0 /\ l.out = 0 /\ ~l.short /\ ~l.buffer
    /\ l.pc \in {"idle", "open source", "done"} => l.fds = {} /\ ~l.buffer
    /\ l.pc \notin {"close", "done"} => l.result = 0
    /\ l.pc \in {"open source", "open dest", "allocate", "read", "write"} => l.blocksize > 0

(* The block in hand is the part of the source before its position.        *)
BlockInHand(l, src) ==
    l.pc = "write" =>
        /\ l.written < Len(l.block) /\ Len(l.block) <= l.pos
        /\ \A i \in 1 .. Len(l.block) : l.block[i] = src[l.pos - Len(l.block) + i]
        /\ l.version = "copy" \/ AllZero(l.block) => l.written = 0

ReadSoFar(l, src) ==
    /\ src = NoFile => l.pos = 0
    /\ l.pos <= Len(src)
    /\ Made(l) \/ l.pc \in {"open dest", "close"} => src # NoFile
    /\ Made(l) /\ l.pc \in {"permissions", "close", "done"} => l.pos = Len(src)

(* The destination, continued with zeros, is the source up to n.           *)
SameUpTo(src, dst, n) ==
    /\ Len(dst) <= n
    /\ \A i \in 1 .. n : src[i] = IF i <= Len(dst) THEN dst[i] ELSE 0

Pending(l) == IF l.pc = "write" THEN Len(l.block) - l.written ELSE 0

WrittenSoFar(l, src, dst) ==
    Made(l) => /\ dst # NoFile
               /\ l.pc = "allocate" => dst = << >>
               /\ ~l.short => l.out = l.pos - Pending(l) /\ SameUpTo(src, dst, l.out)

CopyOne(l, src) == /\ l \in CopyLocals
                   /\ CopyProgress(l)
                   /\ BlockInHand(l, src)
                   /\ ReadSoFar(l, src)

Modes == {"none", "default", "source's"}

CopyInv ==
    /\ source \in Contents \cup {NoFile}
    /\ dest \in Seq({0, 1}) \cup {NoFile}
    /\ dest = NoFile <=> creator = NoCopier
    /\ destMode \in Modes
    /\ creator \in Copiers \cup {NoCopier}
    /\ DOMAIN copier = Copiers
    /\ \A c \in Copiers : /\ CopyOne(copier[c], source)
                          /\ Made(copier[c]) => creator = c
                          /\ WrittenSoFar(copier[c], source, dest)

LEMMA InitCopy == CopyInit => CopyInv
<1> SUFFICES ASSUME CopyInit PROVE CopyInv
  OBVIOUS
<1>1. ASSUME NEW c \in Callers PROVE TRUE
  OBVIOUS
<1>2. ASSUME NEW c \in Copiers
      PROVE  /\ CopyOne(copier[c], source) /\ ~Made(copier[c])
             /\ WrittenSoFar(copier[c], source, dest)
  <2>1. copier[c] = NoLocals /\ source = NoFile /\ dest = NoFile
    BY DEF CopyInit
  <2>2. PICK l : l = NoLocals
    OBVIOUS
  <2>3. l \in CopyLocals
    <3>1. NoLocals \in CopyLocals
      <4>1. PICK p, v, f, b, n : /\ p = "idle" /\ v = "copy" /\ f = {} /\ b = << >>
                                 /\ n = 0
        OBVIOUS
      <4>2. NoLocals = [pc |-> p, version |-> v, blocksize |-> n, fds |-> f,
                        buffer |-> FALSE, pos |-> n, out |-> n, block |-> b,
                        written |-> n, result |-> n, short |-> FALSE]
        BY <4>1, Zenon DEF NoLocals
      <4>3. /\ p \in Labels /\ v \in Editions /\ f \subseteq Descriptors /\ b \in Bytes
            /\ n \in Outcomes /\ n \in Nat /\ n \in Int
        <5>1. p \in Labels /\ v \in Editions
          BY <4>1, CopyLabelsAre
        <5>2. f \subseteq Descriptors
          BY <4>1
        <5>3. b \in Bytes /\ n \in Outcomes
          BY <4>1, CopyLabelsAre
        <5>4. n \in Nat /\ n \in Int
          BY <4>1
        <5> QED BY <5>1, <5>2, <5>3, <5>4
      <4> QED BY <4>2, <4>3 DEF CopyLocals
    <3> QED BY <2>2, <3>1
  <2>4. CopyProgress(l) /\ BlockInHand(l, NoFile) /\ ReadSoFar(l, NoFile) /\ ~Made(l)
    BY <2>2 DEF NoLocals, CopyProgress, BlockInHand, ReadSoFar, Made, NoFile
  <2> QED BY <2>1, <2>2, <2>3, <2>4 DEF CopyOne, WrittenSoFar
<1> QED BY <1>2, CopyAssumption DEF CopyInit, CopyInv, Modes

(* A step of one copier leaves the source alone; the destination changes   *)
(* only by its creator, or when it is made.                                *)
LEMMA CopierMoves ==
  ASSUME CopyInv, NEW c \in Copiers, NEW l, NEW src, NEW dst, NEW maker,
         copier' = [copier EXCEPT ![c] = l], source' = source, source = src,
         dest' = dst, dst \in Seq({0, 1}) \cup {NoFile},
         creator' = maker, maker \in Copiers \cup {NoCopier},
         dst = NoFile <=> maker = NoCopier,
         destMode' \in Modes,
         CopyOne(l, src), Made(l) => maker = c, WrittenSoFar(l, src, dst),
         \/ dest' = dest /\ creator' = creator
         \/ maker = c /\ creator \in {c, NoCopier}
  PROVE  CopyInv'
<1>1. DOMAIN copier' = Copiers /\ copier'[c] = l
  BY DEF CopyInv
<1>2. ASSUME NEW d \in Copiers
      PROVE  /\ CopyOne(copier'[d], source') /\ WrittenSoFar(copier'[d], source', dest')
             /\ Made(copier'[d]) => creator' = d
  <2>1. CASE d = c
    BY <1>1, <2>1
  <2>2. CASE d # c
    <3>1. copier'[d] = copier[d]
      BY <2>2 DEF CopyInv
    <3>2. /\ CopyOne(copier[d], source) /\ WrittenSoFar(copier[d], source, dest)
          /\ Made(copier[d]) => creator = d
      BY DEF CopyInv
    <3>3. PICK m : /\ m = copier'[d] /\ CopyOne(m, source) /\ WrittenSoFar(m, source, dest)
                   /\ Made(m) => creator = d
      BY <3>1, <3>2
    <3>4. CASE dest' = dest /\ creator' = creator
      BY <3>3, <3>4
    <3>5. CASE maker = c /\ creator \in {c, NoCopier}
      <4>1. ~Made(m)
        BY <2>2, <3>3, <3>5, CopyAssumption
      <4> QED BY <3>3, <4>1 DEF WrittenSoFar
    <3> QED BY <3>4, <3>5
  <2> QED BY <2>1, <2>2
<1>3. ASSUME NEW d \in Copiers
      PROVE  (/\ CopyOne(copier[d], source) /\ WrittenSoFar(copier[d], source, dest)
              /\ Made(copier[d]) => creator = d)'
  BY <1>2 DEF CopyOne, CopyLocals, CopyProgress, BlockInHand, ReadSoFar, WrittenSoFar,
              Made, SameUpTo, Pending, AllZero, NoFile, Labels
<1>4. source' \in Contents \cup {NoFile}
  BY DEF CopyInv
<1> QED BY <1>1, <1>3, <1>4 DEF CopyInv, NoFile, NoCopier, Modes

LEMMA QuietCopier ==
  ASSUME CopyInv, NEW c \in Copiers, NEW l, NEW src, NEW dst, Set(c, l), UNCHANGED files,
         src = source, dst = dest,
         CopyOne(l, src), Made(l) => creator = c, WrittenSoFar(l, src, dst)
  PROVE  CopyInv'
<1>1. PICK maker : maker = creator
  OBVIOUS
<1>2. /\ copier' = [copier EXCEPT ![c] = l] /\ source' = source /\ dest' = dst
      /\ creator' = maker
  BY <1>1 DEF Set, files
<1>3. /\ dst \in Seq({0, 1}) \cup {NoFile} /\ maker \in Copiers \cup {NoCopier}
      /\ dst = NoFile <=> maker = NoCopier
      /\ destMode' \in Modes
  BY <1>1 DEF CopyInv, files
<1>4. (Made(l) => maker = c) /\ dest' = dest /\ creator' = creator
  BY <1>1 DEF files
<1> QED BY <1>2, <1>3, <1>4, CopierMoves

(* NoFile is no file, whose bytes are 0 or 1.                              *)
LEMMA NoFileIsNone == ASSUME NEW f \in Seq({0, 1}) PROVE f # NoFile
<1>1. ASSUME f = NoFile PROVE FALSE
  <2>1. Len(f) = 1 /\ f[1] = -1
    BY <1>1 DEF NoFile
  <2>2. f[1] \in {0, 1}
    <3>1. PICK S : S = {0, 1}
      OBVIOUS
    <3>2. f \in Seq(S) /\ 1 \in 1 .. Len(f)
      BY <2>1, <3>1
    <3>3. f[1] \in S
      BY <3>2, ElementOfSeq
    <3> QED BY <3>1, <3>3
  <2> QED BY <2>1, <2>2
<1> QED BY <1>1

LEMMA SourceHolds ==
  CopyInv => /\ NoFile \notin Contents
             /\ source # NoFile => source \in Seq({0, 1})
             /\ dest # NoFile => dest \in Seq({0, 1})
<1>1. NoFile \notin Seq({0, 1})
  BY NoFileIsNone
<1> QED BY <1>1, CopyAssumption DEF CopyInv

(* The steps before the loop.                                              *)
LEMMA SourceMade == ASSUME CopyInv, MakeSource PROVE CopyInv'
<1>1. source = NoFile /\ source' \in Contents /\ UNCHANGED <<dest, destMode, creator, copier>>
  BY DEF MakeSource
<1>2. PICK src : src = source'
  OBVIOUS
<1>3. src \in Seq({0, 1}) /\ Len(src) \in Nat
  BY <1>1, <1>2, CopyAssumption
<1>4. ASSUME NEW c \in Copiers
      PROVE  /\ CopyOne(copier'[c], src) /\ WrittenSoFar(copier'[c], src, dest')
             /\ Made(copier'[c]) => creator' = c
  <2>1. /\ CopyOne(copier[c], source) /\ WrittenSoFar(copier[c], source, dest)
        /\ Made(copier[c]) => creator = c
    BY DEF CopyInv
  <2>2. PICK l : l = copier'[c] /\ CopyOne(l, NoFile)
    BY <1>1, <2>1
  <2>3. ~Made(l) /\ l.pc # "write"
    BY <2>2 DEF CopyOne, ReadSoFar, Made
  <2>4. CopyOne(l, src)
    <3>1. l.pos = 0 /\ l.pc # "open dest" /\ l.pc # "close"
      BY <2>2 DEF CopyOne, ReadSoFar
    <3>2. ReadSoFar(l, src)
      <4>1. l.pos <= Len(src)
        <5>1. PICK n : n = Len(src)
          OBVIOUS
        <5>2. n \in Nat
          BY <1>3, <5>1
        <5>3. 0 <= n
          BY <5>2
        <5>4. l.pos = 0
          BY <3>1
        <5> QED BY <5>1, <5>3, <5>4
      <4> QED BY <2>3, <3>1, <4>1 DEF ReadSoFar
    <3> QED BY <2>2, <2>3, <3>2 DEF CopyOne, BlockInHand
  <2> QED BY <2>2, <2>3, <2>4 DEF WrittenSoFar
<1>5. ASSUME NEW c \in Copiers
      PROVE  (/\ CopyOne(copier[c], source) /\ WrittenSoFar(copier[c], source, dest)
              /\ Made(copier[c]) => creator = c)'
  BY <1>2, <1>4 DEF CopyOne, CopyLocals, CopyProgress, BlockInHand, ReadSoFar, WrittenSoFar,
                    Made, SameUpTo, Pending, AllZero, NoFile, Labels
<1> QED BY <1>1, <1>5 DEF CopyInv, NoFile, NoCopier, Modes

LEMMA StepsBefore ==
  ASSUME CopyInv, NEW c \in Copiers,
         \/ \E v \in Versions, line \in CommandLines : Start(c, v, line)
         \/ OpenSource(c) \/ OpenDest(c) \/ Allocate(c)
  PROVE  CopyInv'
<1>1. PICK l, src, dst : /\ l = copier[c] /\ src = source /\ dst = dest
                         /\ CopyOne(l, src) /\ WrittenSoFar(l, src, dst)
                         /\ Made(l) => creator = c
  BY DEF CopyInv
<1>2. ASSUME NEW l2, Set(c, l2), UNCHANGED files, CopyOne(l2, src), ~Made(l2)
      PROVE  CopyInv'
  BY <1>1, <1>2, QuietCopier DEF WrittenSoFar
<1>3. ASSUME NEW l2, l2 = [l EXCEPT !.pc = "done", !.fds = {}, !.result = -1],
             Set(c, l2), UNCHANGED files,
             l.pc \in {"idle", "open source", "open dest", "allocate"}
      PROVE  CopyInv'
  <2>1. /\ l2 \in CopyLocals /\ l2.pc = "done" /\ l2.result = -1 /\ l2.fds = {}
        /\ l2.pos = l.pos /\ l2.buffer = l.buffer
    BY <1>1, <1>3, CopyLabelsAre DEF CopyOne, CopyLocals
  <2>2. ~Made(l2)
    BY <2>1 DEF Made
  <2>3. CopyOne(l2, src)
    BY <1>1, <1>3, <2>1, <2>2 DEF CopyOne, CopyProgress, BlockInHand, ReadSoFar
  <2> QED BY <1>2, <1>3, <2>2, <2>3
<1>4. ASSUME NEW v \in Versions, NEW line \in CommandLines, Start(c, v, line)
      PROVE  CopyInv'
  <2>1. PICK size : size = parseCopyArgs(line)
    OBVIOUS
  <2>2. l.pc = "idle" /\ UNCHANGED files
    BY <1>1, <1>4 DEF Start, At
  <2>3. CASE size = -1
    <3>1. PICK l2 : l2 = [l EXCEPT !.pc = "done", !.result = -1]
      OBVIOUS
    <3>2. Set(c, l2)
      BY <1>1, <1>4, <2>1, <2>3, <3>1 DEF Start
    <3>3. CopyOne(l2, src)
      <4>11. l2 \in CopyLocals
        BY <1>1, <2>2, <3>1, CopyLabelsAre DEF CopyOne, CopyLocals
      <4>12. CopyProgress(l2) /\ BlockInHand(l2, src) /\ ReadSoFar(l2, src)
        BY <1>1, <2>2, <3>1 DEF CopyOne, CopyProgress, BlockInHand, ReadSoFar, Made
      <4> QED BY <4>11, <4>12 DEF CopyOne
    <3>4. l2.pc = "done" /\ l2.result = -1
      BY <1>1, <3>1 DEF CopyOne, CopyLocals
    <3> QED BY <1>2, <2>2, <3>2, <3>3, <3>4 DEF Made
  <2>4. CASE size # -1
    <3>1. PICK l2 : l2 = [l EXCEPT !.pc = "open source", !.version = v, !.blocksize = size]
      OBVIOUS
    <3>2. Set(c, l2)
      BY <1>1, <1>4, <2>1, <2>4, <3>1 DEF Start
    <3>3. size \in Int /\ size > 0
      <4>1. line.options \in Seq(Int) /\ \A i \in DOMAIN line.options : line.options[i] > 0
        BY <2>1, <2>4, CopyAssumption DEF parseCopyArgs
      <4>2. CASE line.options = << >>
        BY <2>1, <2>4, <4>2 DEF parseCopyArgs
      <4>3. CASE line.options # << >>
        <5>1. Last(line.options) = line.options[Len(line.options)]
          BY DEF Last
        <5>2. Len(line.options) \in DOMAIN line.options
          BY <4>1, <4>3
        <5>3. size = Last(line.options)
          BY <2>1, <2>4, <4>3 DEF parseCopyArgs
        <5> QED BY <4>1, <5>1, <5>2, <5>3
      <4> QED BY <4>2, <4>3
    <3>4. v \in {"copy", "sol"}
      BY CopyAssumption
    <3>5. CopyOne(l2, src)
      <4>11. l2 \in CopyLocals
        BY <1>1, <2>2, <3>1, <3>3, <3>4, CopyLabelsAre DEF CopyOne, CopyLocals
      <4>12. CopyProgress(l2) /\ BlockInHand(l2, src) /\ ReadSoFar(l2, src)
        BY <1>1, <2>2, <3>1, <3>3, <3>4 DEF CopyOne, CopyProgress, BlockInHand, ReadSoFar, Made
      <4> QED BY <4>11, <4>12 DEF CopyOne
    <3> QED BY <1>2, <2>2, <3>1, <3>2, <3>5 DEF Made, CopyOne, CopyLocals
  <2> QED BY <2>3, <2>4
<1>5. CASE OpenSource(c)
  <2>1. l.pc = "open source" /\ UNCHANGED files
    BY <1>1, <1>5 DEF OpenSource, At
  <2>2. CASE Set(c, [copier[c] EXCEPT !.pc = "done", !.result = -1])
    <3>1. PICK l2 : l2 = [l EXCEPT !.pc = "done", !.fds = {}, !.result = -1]
      OBVIOUS
    <3>2. l.fds = {} /\ l \in CopyLocals
      BY <1>1, <2>1 DEF CopyOne, CopyProgress
    <3>3. l2 = [l EXCEPT !.pc = "done", !.result = -1]
      BY <3>1, <3>2 DEF CopyLocals
    <3> QED BY <1>1, <1>3, <2>1, <2>2, <3>1, <3>3
  <2>3. CASE source # NoFile /\ Set(c, [copier[c] EXCEPT !.pc = "open dest", !.fds = {"source"}])
    <3>1. PICK l2 : l2 = [l EXCEPT !.pc = "open dest", !.fds = {"source"}]
      OBVIOUS
    <3>2. CopyOne(l2, src)
      <4>11. l2 \in CopyLocals
        BY <1>1, <2>1, <2>3, <3>1, CopyLabelsAre DEF CopyOne, CopyLocals
      <4>12. CopyProgress(l2) /\ BlockInHand(l2, src) /\ ReadSoFar(l2, src)
        BY <1>1, <2>1, <2>3, <3>1 DEF CopyOne, CopyLocals, CopyProgress, BlockInHand, ReadSoFar, Made
      <4> QED BY <4>11, <4>12 DEF CopyOne
    <3>3. l2.pc = "open dest"
      BY <1>1, <3>1 DEF CopyOne, CopyLocals
    <3> QED BY <1>1, <1>2, <2>1, <2>3, <3>1, <3>2, <3>3 DEF Made
  <2> QED BY <1>5, <2>2, <2>3 DEF OpenSource
<1>6. CASE OpenDest(c)
  <2>1. l.pc = "open dest" /\ UNCHANGED source
    BY <1>1, <1>6 DEF OpenDest, At
  <2>2. CASE /\ Set(c, [copier[c] EXCEPT !.pc = "done", !.fds = {}, !.result = -1])
             /\ UNCHANGED <<dest, destMode, creator>>
    <3>1. PICK l2 : l2 = [l EXCEPT !.pc = "done", !.fds = {}, !.result = -1]
      OBVIOUS
    <3> QED BY <1>1, <1>3, <2>1, <2>2, <3>1 DEF files
  <2>3. CASE /\ dest = NoFile /\ dest' = << >> /\ destMode' = "default" /\ creator' = c
             /\ Set(c, [copier[c] EXCEPT !.pc = "allocate", !.fds = @ \cup {"dest"}])
    <3>1. PICK l2 : l2 = [l EXCEPT !.pc = "allocate", !.fds = @ \cup {"dest"}]
      OBVIOUS
    <3>2. CopyOne(l2, src)
      <4>11. l2 \in CopyLocals
        BY <1>1, <2>1, <3>1, CopyLabelsAre DEF CopyOne, CopyLocals
      <4>12. CopyProgress(l2) /\ BlockInHand(l2, src) /\ ReadSoFar(l2, src)
        BY <1>1, <2>1, <3>1 DEF CopyOne, CopyLocals, CopyProgress, BlockInHand, ReadSoFar, Made
      <4> QED BY <4>11, <4>12 DEF CopyOne
    <3>3. l2.pc = "allocate" /\ l2.pos = 0 /\ l2.out = 0
      BY <1>1, <2>1, <3>1 DEF CopyOne, CopyLocals, CopyProgress
    <3>4. << >> # NoFile /\ << >> \in Seq({0, 1}) /\ Len(<< >>) = 0
      BY EmptySeq DEF NoFile
    <3>5. WrittenSoFar(l2, src, << >>)
      BY <3>3, <3>4 DEF WrittenSoFar, Pending, SameUpTo
    <3>6. creator \in {c, NoCopier}
      BY <2>3 DEF CopyInv
    <3>7. copier' = [copier EXCEPT ![c] = l2]
      BY <1>1, <2>3, <3>1 DEF Set
    <3>8. PICK none : none = << >>
      OBVIOUS
    <3>9. destMode' \in Modes
      BY <2>3 DEF Modes
    <3> QED BY <1>1, <2>1, <2>3, <3>9, <3>2, <3>4, <3>5, <3>6, <3>7, <3>8, CopyAssumption, CopierMoves
  <2> QED BY <1>6, <2>2, <2>3 DEF OpenDest
<1>7. CASE Allocate(c)
  <2>1. l.pc = "allocate" /\ UNCHANGED files
    BY <1>1, <1>7 DEF Allocate, At
  <2>2. CASE Set(c, [copier[c] EXCEPT !.pc = "done", !.fds = {}, !.result = -1])
    <3>1. PICK l2 : l2 = [l EXCEPT !.pc = "done", !.fds = {}, !.result = -1]
      OBVIOUS
    <3> QED BY <1>1, <1>3, <2>1, <2>2, <3>1
  <2>3. CASE Set(c, [copier[c] EXCEPT !.pc = "read", !.buffer = TRUE])
    <3>1. PICK l2 : l2 = [l EXCEPT !.pc = "read", !.buffer = TRUE]
      OBVIOUS
    <3>2. CopyOne(l2, src)
      <4>11. l2 \in CopyLocals
        BY <1>1, <2>1, <3>1, CopyLabelsAre DEF CopyOne, CopyLocals
      <4>12. CopyProgress(l2) /\ BlockInHand(l2, src) /\ ReadSoFar(l2, src)
        BY <1>1, <2>1, <3>1 DEF CopyOne, CopyLocals, CopyProgress, BlockInHand, ReadSoFar, Made
      <4> QED BY <4>11, <4>12 DEF CopyOne
    <3>3. Made(l) /\ Made(l2)
      BY <1>1, <2>1, <3>1 DEF CopyOne, CopyLocals, Made
    <3>4. l2.pc = "read" /\ l2.pos = 0 /\ l2.out = 0
      BY <1>1, <2>1, <3>1 DEF CopyOne, CopyLocals, CopyProgress
    <3>5. dst = << >> /\ dst # NoFile
      BY <1>1, <2>1, <3>3 DEF WrittenSoFar
    <3>6. WrittenSoFar(l2, src, dst)
      BY <3>4, <3>5 DEF WrittenSoFar, Pending, SameUpTo
    <3>7. Set(c, l2)
      BY <1>1, <2>3, <3>1
    <3> QED BY <1>1, <2>1, <3>2, <3>3, <3>6, <3>7, QuietCopier
  <2> QED BY <1>7, <2>2, <2>3 DEF Allocate
<1> QED BY <1>4, <1>5, <1>6, <1>7

(* What a write makes of the destination, and what it has of the source.   *)
LEMMA WriteAtIs ==
  ASSUME NEW dst \in Seq({0, 1}), NEW bytes \in Seq({0, 1}), NEW out \in Nat,
         NEW f, f = WriteAt(dst, out, bytes)
  PROVE  /\ f \in Seq({0, 1})
         /\ Len(f) = IF out + Len(bytes) > Len(dst) THEN out + Len(bytes) ELSE Len(dst)
         /\ \A i \in 1 .. Len(f) :
               f[i] = IF i > out /\ i <= out + Len(bytes) THEN bytes[i - out]
                      ELSE IF i <= Len(dst) THEN dst[i] ELSE 0
<1>1. PICK b, n : /\ b = Len(bytes) /\ n = Len(dst)
                  /\ b \in Nat /\ n \in Nat
  BY LenProperties
<1>2. PICK m : m = IF out + b > n THEN out + b ELSE n
  OBVIOUS
<1>3. m \in Nat
  BY <1>1, <1>2
<1>4. f = [i \in 1 .. m |-> IF i > out /\ i <= out + b THEN bytes[i - out]
                            ELSE IF i <= n THEN dst[i] ELSE 0]
  BY <1>1, <1>2 DEF WriteAt
<1>5. ASSUME NEW i \in 1 .. m PROVE f[i] \in {0, 1}
  <2>1. CASE i > out /\ i <= out + b
    <3>1. i - out \in 1 .. Len(bytes)
      BY <1>1, <1>3, <2>1
    <3> QED BY <1>4, <2>1, <3>1, ElementOfSeq
  <2>2. CASE ~(i > out /\ i <= out + b) /\ i <= n
    <3>1. i \in 1 .. Len(dst)
      BY <1>1, <1>3, <2>2
    <3> QED BY <1>4, <2>2, <3>1, ElementOfSeq
  <2>3. CASE ~(i > out /\ i <= out + b) /\ ~(i <= n)
    BY <1>4, <2>3
  <2> QED BY <2>1, <2>2, <2>3
<1>6. f \in [1 .. m -> {0, 1}]
  BY <1>4, <1>5
<1>7. f \in Seq({0, 1}) /\ Len(f) = m
  BY <1>3, <1>6, SeqDef
<1> QED BY <1>1, <1>2, <1>4, <1>7

(* b is the n bytes of s that follow the one at from.                      *)
PartOf(b, s, from, n) == /\ b \in Seq({0, 1}) /\ Len(b) = n
                         /\ \A i \in 1 .. n : b[i] = s[from + i]

LEMMA Shifted == \A m, x, i \in Int : /\ m - (x + 1) + 1 = m - x
                                      /\ (x + 1) + i - 1 = x + i
OBVIOUS

LEMMA PartOfBlock ==
  ASSUME NEW block \in Seq({0, 1}), NEW m \in Nat, m = Len(block),
         NEW sent \in Nat, NEW n \in Nat, 1 <= n, n <= m - sent,
         NEW bytes, bytes = SubSeq(SubSeq(block, sent + 1, m), 1, n)
  PROVE  PartOf(bytes, block, sent, n)
<1>1. PICK a : a = sent + 1
  OBVIOUS
<1>2. a \in Int /\ a <= m /\ m - a + 1 = m - sent
  BY <1>1, Shifted
<1>3. \A i \in Int : a + i - 1 = sent + i
  BY <1>1, Shifted
<1>4. \A i \in a .. m : block[i] \in {0, 1}
  <2>1. \A i \in a .. m : i \in 1 .. Len(block)
    BY <1>1
  <2> QED BY <2>1, ElementOfSeq
<1>5. PICK rest : rest = SubSeq(block, a, m)
  OBVIOUS
<1>6. /\ rest \in Seq({0, 1}) /\ Len(rest) = m - a + 1
      /\ \A i \in 1 .. m - a + 1 : rest[i] = block[a + i - 1]
  BY <1>2, <1>4, <1>5, SubSeqProperties
<1>7. \A i \in 1 .. n : i \in 1 .. m - a + 1 /\ i \in Int
  BY <1>2
<1>8. \A i \in 1 .. n : rest[i] = block[sent + i]
  BY <1>3, <1>6, <1>7
<1>9. \A i \in 1 .. n : rest[i] \in {0, 1}
  BY <1>2, <1>6, <1>7, ElementOfSeq
<1>10. bytes = SubSeq(rest, 1, n)
  BY <1>1, <1>5
<1>11. /\ bytes \in Seq({0, 1}) /\ Len(bytes) = n - 1 + 1
       /\ \A i \in 1 .. n - 1 + 1 : bytes[i] = rest[1 + i - 1]
  BY <1>9, <1>10, SubSeqProperties
<1>12. n - 1 + 1 = n /\ \A i \in 1 .. n : 1 + i - 1 = i
  OBVIOUS
<1> QED BY <1>8, <1>11, <1>12 DEF PartOf

LEMMA WrittenIsSource ==
  ASSUME NEW src, NEW dst \in Seq({0, 1}), NEW bytes \in Seq({0, 1}),
         NEW out \in Nat, NEW n \in Nat, n = Len(bytes), n >= 1,
         \A i \in 1 .. n : bytes[i] = src[out + i],
         SameUpTo(src, dst, out),
         NEW f, f = WriteAt(dst, out, bytes)
  PROVE  SameUpTo(src, f, out + n)
<1>1. PICK d : d = Len(dst) /\ d \in Nat /\ d <= out
  BY LenProperties DEF SameUpTo
<1>2. /\ Len(f) = IF out + n > d THEN out + n ELSE d
      /\ \A i \in 1 .. Len(f) : f[i] = IF i > out /\ i <= out + n THEN bytes[i - out]
                                       ELSE IF i <= d THEN dst[i] ELSE 0
  <2>1. n = Len(bytes) /\ d = Len(dst)
    BY <1>1
  <2> QED BY <2>1, WriteAtIs
<1>3. out + n > d
  BY <1>1
<1>4. Len(f) = out + n
  BY <1>2, <1>3
<1>5. ASSUME NEW i \in 1 .. out + n PROVE src[i] = f[i]
  <2>1. f[i] = IF i > out /\ i <= out + n THEN bytes[i - out]
               ELSE IF i <= d THEN dst[i] ELSE 0
    BY <1>2, <1>4
  <2>2. CASE i <= out
    <3>1. i \in 1 .. out /\ ~(i > out /\ i <= out + n)
      BY <2>2
    <3> QED BY <1>1, <2>1, <3>1 DEF SameUpTo
  <2>3. CASE i > out
    <3>1. i - out \in 1 .. n /\ out + (i - out) = i /\ i <= out + n
      BY <2>3
    <3>2. bytes[i - out] = src[out + (i - out)]
      BY <3>1
    <3> QED BY <2>1, <2>3, <3>1, <3>2
  <2> QED BY <2>2, <2>3
<1> QED BY <1>4, <1>5 DEF SameUpTo

LEMMA NextBlock ==
  ASSUME NEW src \in Seq({0, 1}), NEW len \in Nat, len = Len(src),
         NEW at \in Nat, NEW n \in Nat, at + n <= len,
         NEW pos, pos = at + n, NEW block, block = SubSeq(src, at + 1, pos)
  PROVE  PartOf(block, src, at, n)
<1>1. CASE n = 0
  <2>1. block = SubSeq(src, at + 1, at) /\ at + 1 > at
    BY <1>1
  <2>2. block = << >>
    BY <2>1, SubSeqEmpty
  <2>3. << >> \in Seq({0, 1}) /\ Len(<< >>) = 0
    BY EmptySeq
  <2>4. 1 .. n = {}
    BY <1>1
  <2> QED BY <1>1, <2>2, <2>3, <2>4 DEF PartOf
<1>2. CASE n # 0
  <2>1. PICK a : a = at + 1
    OBVIOUS
  <2>2. a \in Int /\ pos \in Int /\ pos - a + 1 = n
    BY <2>1
  <2>3. \A i \in Int : a + i - 1 = at + i
    BY <2>1
  <2>4. \A i \in a .. pos : i \in 1 .. Len(src)
    BY <2>1
  <2>5. \A i \in a .. pos : src[i] \in {0, 1}
    BY <2>4, ElementOfSeq
  <2>6. block = SubSeq(src, a, pos) /\ a <= pos
    BY <1>2, <2>1
  <2>7. /\ block \in Seq({0, 1}) /\ Len(block) = pos - a + 1
        /\ \A i \in 1 .. pos - a + 1 : block[i] = src[a + i - 1]
    BY <2>2, <2>5, <2>6, SubSeqProperties
  <2>8. \A i \in 1 .. n : i \in Int
    OBVIOUS
  <2> QED BY <2>2, <2>3, <2>7, <2>8 DEF PartOf
<1> QED BY <1>1, <1>2

LEMMA Positions ==
  ASSUME NEW p \in Nat, NEW m \in Nat, NEW x \in Nat, NEW n \in Nat, n <= m - x,
         NEW at, at = p - (m - x)
  PROVE  /\ at + n = p - (m - (x + n))
         /\ \A i \in 1 .. n : x + i \in 1 .. m /\ p - m + (x + i) = at + i
OBVIOUS

(* The steps of the loop and after it.                                     *)
LEMMA StepsOfLoop ==
  ASSUME CopyInv, NEW c \in Copiers,
         Read(c) \/ Skip(c) \/ Write(c) \/ Permissions(c) \/ Close(c)
  PROVE  CopyInv'
<1>1. PICK l, src, dst : /\ l = copier[c] /\ src = source /\ dst = dest
                         /\ CopyOne(l, src) /\ WrittenSoFar(l, src, dst)
                         /\ Made(l) => creator = c
  BY DEF CopyInv
<1>2. l \in CopyLocals /\ l.pos \in Nat /\ l.out \in Nat /\ l.blocksize \in Int
  BY <1>1 DEF CopyOne, CopyLocals
<1>3. ASSUME Made(l)
      PROVE  /\ creator = c /\ src \in Seq({0, 1}) /\ Len(src) \in Nat
             /\ dst \in Seq({0, 1}) /\ dst # NoFile
  <2>1. src # NoFile /\ dst # NoFile
    BY <1>1, <1>3 DEF CopyOne, ReadSoFar, WrittenSoFar
  <2> QED BY <1>1, <1>3, <2>1, SourceHolds, LenProperties
(* A call that fails sends the copy to its end.                            *)
<1>4. ASSUME NEW l2, l2 = [l EXCEPT !.pc = "close", !.result = -1],
             Set(c, l2), UNCHANGED files, l.pc \in {"read", "write"}
      PROVE  CopyInv'
  <2>1. /\ l2 \in CopyLocals /\ l2.pc = "close" /\ l2.result = -1 /\ l2.pos = l.pos
    BY <1>2, <1>4, CopyLabelsAre DEF CopyLocals
  <2>2. ~Made(l2) /\ Made(l)
    BY <1>4, <2>1 DEF Made
  <2>3. CopyOne(l2, src)
    BY <1>1, <2>1, <2>2 DEF CopyOne, CopyProgress, BlockInHand, ReadSoFar
  <2> QED BY <1>1, <1>4, <2>2, <2>3, QuietCopier DEF WrittenSoFar
<1>5. CASE Read(c)
  <2>1. l.pc = "read" /\ UNCHANGED files /\ Made(l)
    BY <1>1, <1>5 DEF Read, At, Made
  <2>2. CASE Set(c, [l EXCEPT !.pc = "close", !.result = -1])
    BY <1>4, <2>1, <2>2
  <2>3. PICK len, most : /\ len = Len(src) /\ len \in Nat
                         /\ most = IF len - l.pos < l.blocksize THEN len - l.pos
                                                                ELSE l.blocksize
    BY <1>3, <2>1
  <2>4. l.blocksize > 0 /\ l.pos <= len
    BY <1>1, <2>1, <2>3 DEF CopyOne, CopyProgress, ReadSoFar
  <2>5. CASE \E n \in (IF most = 0 THEN {0} ELSE 1 .. most) :
               Set(c, [l EXCEPT !.pc = IF n = 0 THEN "permissions" ELSE "write",
                                !.block = SubSeq(src, l.pos + 1, l.pos + n),
                                !.pos = @ + n, !.written = 0])
    <3>1. PICK n \in (IF most = 0 THEN {0} ELSE 1 .. most) :
               Set(c, [l EXCEPT !.pc = IF n = 0 THEN "permissions" ELSE "write",
                                !.block = SubSeq(src, l.pos + 1, l.pos + n),
                                !.pos = @ + n, !.written = 0])
      BY <2>5
    <3>2. n \in Nat /\ l.pos + n <= len /\ (n = 0 => l.pos = len)
      BY <1>2, <2>3, <2>4
    <3>3. PICK pos, pc, block : /\ pos = l.pos + n
                                /\ pc = (IF n = 0 THEN "permissions" ELSE "write")
                                /\ block = SubSeq(src, l.pos + 1, pos)
      OBVIOUS
    <3>14. PartOf(block, src, l.pos, n)
      <4>1. PICK at : at = l.pos /\ at \in Nat
        BY <1>2
      <4>2. src \in Seq({0, 1}) /\ len \in Nat /\ len = Len(src)
        BY <1>3, <2>1, <2>3
      <4>3. n \in Nat /\ at + n <= len /\ pos = at + n
        BY <3>2, <3>3, <4>1
      <4>4. block = SubSeq(src, at + 1, pos)
        BY <3>3, <4>1
      <4> QED BY <4>1, <4>2, <4>3, <4>4, NextBlock
    <3>4. /\ block \in Seq({0, 1}) /\ Len(block) = n
          /\ \A i \in 1 .. n : block[i] = src[pos - n + i]
      <4>1. l.pos = pos - n
        BY <1>2, <3>2, <3>3
      <4> QED BY <3>14, <4>1 DEF PartOf
    <3>5. PICK l2 : l2 = [l EXCEPT !.pc = pc, !.block = block, !.pos = pos, !.written = 0]
      OBVIOUS
    <3>6. Set(c, l2)
      BY <3>1, <3>3, <3>5
    <3>7. pos \in Nat /\ pos <= len /\ n <= pos /\ pc \in {"permissions", "write"}
      BY <1>2, <3>2, <3>3
    <3>8. /\ l2 \in CopyLocals /\ l2.pc = pc /\ l2.block = block /\ l2.pos = pos
          /\ l2.written = 0 /\ l2.result = l.result /\ l2.blocksize = l.blocksize
          /\ l2.out = l.out /\ l2.short = l.short
      <4>1. pc \in Labels /\ block \in Bytes
        BY <3>4, <3>7, CopyLabelsAre DEF Bytes
      <4> QED BY <1>2, <3>5, <3>7, <4>1 DEF CopyLocals
    <3>9. Made(l2)
      BY <3>7, <3>8 DEF Made
    <3>10. CopyProgress(l2)
      BY <1>1, <2>1, <3>7, <3>8 DEF CopyOne, CopyProgress
    <3>11. BlockInHand(l2, src)
      <4>1. pc = "write" => 0 < n
        BY <3>2, <3>3
      <4> QED BY <3>4, <3>7, <3>8, <4>1 DEF BlockInHand
    <3>12. ReadSoFar(l2, src)
      <4>1. pc = "permissions" => pos = len
        BY <1>2, <3>2, <3>3
      <4>2. src # NoFile
        BY <1>1, <2>1 DEF CopyOne, ReadSoFar
      <4> QED BY <2>3, <3>7, <3>8, <4>1, <4>2 DEF ReadSoFar
    <3>13. WrittenSoFar(l2, src, dst)
      <4>1. Pending(l) = 0 /\ Pending(l2) = n
        BY <2>1, <3>3, <3>4, <3>8, <3>7 DEF Pending
      <4>2. l.pos - 0 = pos - n
        BY <1>2, <3>2, <3>3
      <4> QED BY <1>1, <2>1, <3>7, <3>8, <4>1, <4>2 DEF WrittenSoFar
    <3> QED BY <1>1, <2>1, <3>6, <3>8, <3>10, <3>11, <3>12, <3>13, QuietCopier DEF CopyOne
  <2> QED BY <1>1, <1>5, <2>2, <2>3, <2>5 DEF Read
<1>6. CASE Skip(c)
  <2>1. l.pc = "write" /\ AllZero(l.block) /\ UNCHANGED files /\ Made(l)
    BY <1>1, <1>6 DEF Skip, At, Made
  <2>2. CASE Set(c, [l EXCEPT !.pc = "close", !.result = -1])
    BY <1>4, <2>1, <2>2
  <2>3. CASE Set(c, [l EXCEPT !.pc = "read", !.out = @ + Len(l.block)])
    <3>1. PICK m, block : m = Len(block) /\ block = l.block /\ m \in Nat
      BY <1>2, LenProperties DEF CopyLocals, Bytes
    <3>2. /\ m <= l.pos /\ l.written = 0
          /\ \A i \in 1 .. m : block[i] = src[l.pos - m + i]
          /\ \A i \in 1 .. m : block[i] = 0
      <4>1. BlockInHand(l, src) /\ DOMAIN block = 1 .. m
        BY <1>1, <1>2, <3>1, LenProperties DEF CopyOne, CopyLocals
      <4>2. \A i \in 1 .. m : block[i] = 0
        BY <2>1, <3>1, <4>1 DEF AllZero
      <4> QED BY <2>1, <3>1, <4>1, <4>2 DEF BlockInHand
    <3>3. PICK out : out = l.out + m /\ out \in Nat
      BY <1>2, <3>1
    <3>4. PICK l2 : l2 = [l EXCEPT !.pc = "read", !.out = out]
      OBVIOUS
    <3>5. Set(c, l2)
      BY <2>3, <3>1, <3>3, <3>4
    <3>6. /\ l2 \in CopyLocals /\ l2.pc = "read" /\ l2.pos = l.pos /\ l2.result = l.result
          /\ l2.blocksize = l.blocksize /\ l2.out = out /\ l2.short = l.short
      BY <1>2, <3>3, <3>4, CopyLabelsAre DEF CopyLocals
    <3>7. CopyProgress(l2) /\ BlockInHand(l2, src) /\ ReadSoFar(l2, src) /\ Made(l2)
      BY <1>1, <2>1, <3>6 DEF CopyOne, CopyProgress, BlockInHand, ReadSoFar, Made
    <3>8. ASSUME ~l.short PROVE out = l.pos /\ SameUpTo(src, dst, out)
      <4>1. l.out = l.pos - (m - l.written) /\ SameUpTo(src, dst, l.out)
        BY <1>1, <2>1, <3>1, <3>8 DEF WrittenSoFar, Pending
      <4>2. l.out = l.pos - m
        BY <3>1, <3>2, <4>1
      <4>3. PICK at, d : at = l.out /\ at \in Nat /\ d = Len(dst) /\ d \in Nat /\ d <= at
        BY <1>2, <1>3, <2>1, <4>1, LenProperties DEF SameUpTo
      <4>4. ASSUME NEW i \in 1 .. out PROVE src[i] = IF i <= d THEN dst[i] ELSE 0
        <5>1. CASE i <= at
          <6>1. i \in 1 .. at
            BY <4>3, <5>1
          <6> QED BY <4>1, <4>3, <6>1 DEF SameUpTo
        <5>2. CASE i > at
          <6>1. i - at \in 1 .. m /\ at + (i - at) = i /\ ~(i <= d)
            BY <3>1, <3>3, <4>3, <5>2
          <6>2. src[at + (i - at)] = 0
            BY <3>2, <4>2, <4>3, <6>1
          <6> QED BY <6>1, <6>2
        <5> QED BY <4>3, <5>1, <5>2
      <4>5. out = l.pos /\ d <= out
        BY <1>2, <3>1, <3>3, <4>2, <4>3
      <4> QED BY <4>3, <4>4, <4>5 DEF SameUpTo
    <3>9. WrittenSoFar(l2, src, dst)
      <4>1. Pending(l2) = 0 /\ l.pos - 0 = l.pos
        BY <1>2, <3>6 DEF Pending
      <4> QED BY <1>3, <2>1, <3>6, <3>8, <4>1 DEF WrittenSoFar
    <3> QED BY <1>1, <2>1, <3>5, <3>6, <3>7, <3>9, QuietCopier DEF CopyOne
  <2> QED BY <1>1, <1>6, <2>2, <2>3 DEF Skip
<1>7. CASE Permissions(c)
  <2>1. /\ l.pc = "permissions" /\ UNCHANGED <<source, dest, creator>> /\ Made(l)
        /\ destMode' \in Modes
    BY <1>1, <1>7 DEF Permissions, At, Made, CopyInv, Modes
  <2>2. PICK l2 : l2 = [l EXCEPT !.pc = "close"]
    OBVIOUS
  <2>3. copier' = [copier EXCEPT ![c] = l2]
    BY <1>1, <1>7, <2>2 DEF Permissions, Set
  <2>4. /\ l2 \in CopyLocals /\ l2.pc = "close" /\ l2.pos = l.pos /\ l2.result = l.result
        /\ l2.out = l.out /\ l2.short = l.short
    BY <1>2, <2>2, CopyLabelsAre DEF CopyLocals
  <2>5. l.result = 0
    BY <1>1, <2>1 DEF CopyOne, CopyProgress
  <2>6. CopyProgress(l2) /\ BlockInHand(l2, src) /\ ReadSoFar(l2, src)
    BY <1>1, <2>1, <2>4, <2>5 DEF CopyOne, CopyProgress, BlockInHand, ReadSoFar, Made
  <2>7. WrittenSoFar(l2, src, dst)
    BY <1>1, <2>1, <2>4 DEF WrittenSoFar, Pending
  <2>8. PICK maker : maker = creator
    OBVIOUS
  <2>9. /\ dst \in Seq({0, 1}) \cup {NoFile} /\ maker \in Copiers \cup {NoCopier}
        /\ dst = NoFile <=> maker = NoCopier
    BY <1>1, <2>8 DEF CopyInv
  <2>10. /\ source' = source /\ source = src /\ dest' = dst /\ creator' = maker
         /\ dest' = dest /\ creator' = creator /\ (Made(l2) => maker = c)
         /\ CopyOne(l2, src)
    BY <1>1, <2>1, <2>4, <2>6, <2>8 DEF CopyOne
  <2> QED BY <2>1, <2>3, <2>7, <2>9, <2>10, CopierMoves
<1>8. CASE Close(c)
  <2>1. l.pc = "close" /\ UNCHANGED files
    BY <1>1, <1>8 DEF Close, At
  <2>2. PICK l2 : l2 = [l EXCEPT !.pc = "done", !.fds = {}, !.buffer = FALSE]
    OBVIOUS
  <2>3. Set(c, l2)
    BY <1>1, <1>8, <2>2 DEF Close
  <2>4. /\ l2 \in CopyLocals /\ l2.pc = "done" /\ l2.pos = l.pos /\ l2.result = l.result
        /\ l2.out = l.out /\ l2.short = l.short /\ l2.fds = {} /\ ~l2.buffer
    BY <1>2, <2>2, CopyLabelsAre DEF CopyLocals
  <2>5. Made(l2) <=> Made(l)
    BY <2>1, <2>4 DEF Made
  <2>6. CopyProgress(l2) /\ BlockInHand(l2, src) /\ ReadSoFar(l2, src)
    BY <1>1, <2>1, <2>4, <2>5 DEF CopyOne, CopyProgress, BlockInHand, ReadSoFar
  <2>7. WrittenSoFar(l2, src, dst)
    BY <1>1, <2>1, <2>4, <2>5 DEF WrittenSoFar, Pending
  <2> QED BY <1>1, <2>1, <2>3, <2>4, <2>5, <2>6, <2>7, QuietCopier DEF CopyOne
<1>9. CASE Write(c)
  <2>1. /\ l.pc = "write" /\ ~AllZero(l.block) /\ Made(l)
        /\ UNCHANGED <<source, destMode, creator>>
    BY <1>1, <1>9 DEF Write, At, Made
  <2>2. CASE Set(c, [l EXCEPT !.pc = "close", !.result = -1]) /\ UNCHANGED dest
    BY <1>4, <2>1, <2>2 DEF files
  <2>3. CASE \E n \in 1 .. Len(l.block) - l.written :
               LET all == l.written + n = Len(l.block) IN
               /\ dest' = WriteAt(dst, l.out, SubSeq(Rest(l), 1, n))
               /\ Set(c, [l EXCEPT !.out = @ + n, !.written = @ + n,
                                   !.pc = IF all \/ l.version = "copy" THEN "read"
                                                                       ELSE "write",
                                   !.short = @ \/ (~all /\ l.version = "copy")])
    <3>1. PICK m, block, sent : /\ m = Len(block) /\ block = l.block /\ m \in Nat
                                /\ block \in Seq({0, 1}) /\ sent = l.written /\ sent \in Nat
      BY <1>2, LenProperties DEF CopyLocals, Bytes
    <3>2. PICK n \in 1 .. m - sent :
               /\ dest' = WriteAt(dst, l.out, SubSeq(Rest(l), 1, n))
               /\ Set(c, [l EXCEPT !.out = @ + n, !.written = @ + n,
                                   !.pc = IF sent + n = m \/ l.version = "copy" THEN "read"
                                                                                ELSE "write",
                                   !.short = @ \/ (sent + n # m /\ l.version = "copy")])
      BY <2>3, <3>1
    <3>3. n \in Nat /\ 1 <= n /\ n <= m - sent
      BY <3>1
    <3>23. sent \in Nat /\ n \in Nat /\ l.out \in Nat /\ sent + n \in Nat /\ l.out + n \in Nat
      BY <1>2, <3>1, <3>3
    <3>4. /\ m <= l.pos /\ sent < m
          /\ \A i \in 1 .. m : block[i] = src[l.pos - m + i]
          /\ l.version = "copy" => sent = 0
      BY <1>1, <2>1, <3>1 DEF CopyOne, BlockInHand
    <3>5. PICK bytes : bytes = SubSeq(SubSeq(block, sent + 1, m), 1, n)
      OBVIOUS
    <3>6. PartOf(bytes, block, sent, n)
      BY <3>1, <3>3, <3>5, PartOfBlock
    <3>7. PICK f, at : f = WriteAt(dst, at, bytes) /\ at = l.out /\ at \in Nat
      BY <1>2
    <3>8. dest' = f
      BY <3>1, <3>2, <3>5, <3>7 DEF Rest
    <3>9. f \in Seq({0, 1}) /\ f # NoFile
      <4>1. f \in Seq({0, 1})
        BY <1>3, <2>1, <3>6, <3>7, WriteAtIs DEF PartOf
      <4> QED BY <4>1, NoFileIsNone
    <3>10. PICK pc, short, out, w :
               /\ pc = IF sent + n = m \/ l.version = "copy" THEN "read" ELSE "write"
               /\ short = (l.short \/ (sent + n # m /\ l.version = "copy"))
               /\ out = at + n /\ w = sent + n
      OBVIOUS
    <3>11. PICK l2 : l2 = [l EXCEPT !.out = out, !.written = w, !.pc = pc, !.short = short]
      OBVIOUS
    <3>12. copier' = [copier EXCEPT ![c] = l2]
      BY <3>1, <3>2, <3>7, <3>10, <3>11 DEF Set
    <3>13. out \in Nat /\ w \in Nat /\ pc \in {"read", "write"} /\ short \in BOOLEAN
      <4>1. l.short \in BOOLEAN
        BY <1>2 DEF CopyLocals
      <4>2. short \in BOOLEAN
        BY <3>10, <4>1
      <4>3. out \in Nat /\ w \in Nat
        BY <3>7, <3>10, <3>23
      <4> QED BY <3>10, <4>2, <4>3
    <3>14. /\ l2 \in CopyLocals /\ l2.pc = pc /\ l2.pos = l.pos /\ l2.result = l.result
           /\ l2.blocksize = l.blocksize /\ l2.block = block /\ l2.version = l.version
           /\ l2.written = w /\ l2.out = out /\ l2.short = short
      BY <1>2, <3>1, <3>11, <3>13, CopyLabelsAre DEF CopyLocals
    <3>15. Made(l2)
      BY <3>13, <3>14 DEF Made
    <3>16. CopyProgress(l2) /\ ReadSoFar(l2, src)
      BY <1>1, <2>1, <3>13, <3>14, <3>15 DEF CopyOne, CopyProgress, ReadSoFar
    <3>17. BlockInHand(l2, src)
      <4>1. pc = "write" => w < m /\ l.version # "copy"
        BY <3>1, <3>3, <3>10
      <4> QED BY <2>1, <3>1, <3>4, <3>14, <4>1 DEF BlockInHand
    <3>18. ASSUME ~short PROVE out = l.pos - Pending(l2) /\ SameUpTo(src, f, out)
      <4>1. ~l.short /\ (sent + n = m \/ l.version # "copy")
        BY <3>10, <3>18
      <4>2. at = l.pos - (m - sent) /\ SameUpTo(src, dst, at)
        BY <1>1, <2>1, <3>1, <3>7, <4>1 DEF WrittenSoFar, Pending
      <4>3. \A i \in 1 .. n : bytes[i] = src[at + i]
        <5> SUFFICES ASSUME NEW i \in 1 .. n PROVE bytes[i] = src[at + i]
          OBVIOUS
        <5>1. sent + i \in 1 .. m /\ l.pos - m + (sent + i) = at + i
          <6>1. PICK p : p = l.pos /\ p \in Int
            BY <1>2
          <6>2. at = p - (m - sent) /\ sent \in Nat /\ n \in Nat /\ m \in Nat /\ sent + n <= m
            BY <3>1, <3>3, <4>2, <6>1
          <6>3. sent + i \in 1 .. m /\ p - m + (sent + i) = at + i
            BY <6>1, <6>2
          <6> QED BY <6>1, <6>3
        <5> QED BY <3>4, <3>6, <5>1 DEF PartOf
      <4>4. SameUpTo(src, f, at + n)
        BY <1>3, <2>1, <3>3, <3>6, <3>7, <4>2, <4>3, WrittenIsSource DEF PartOf
      <4>5. Pending(l2) = m - (sent + n)
        <5>1. CASE sent + n = m
          BY <3>1, <3>10, <3>14, <5>1 DEF Pending
        <5>2. CASE sent + n # m
          BY <3>1, <3>10, <3>14, <4>1, <5>2 DEF Pending
        <5> QED BY <5>1, <5>2
      <4>6. at + n = l.pos - (m - (sent + n))
        <5>1. PICK p : p = l.pos /\ p \in Nat
          BY <1>2
        <5>2. n \in Nat /\ n <= m - sent /\ m \in Nat /\ sent \in Nat /\ at = p - (m - sent)
          BY <3>1, <3>3, <4>2, <5>1
        <5>3. at + n = p - (m - (sent + n))
          BY <5>1, <5>2
        <5> QED BY <5>1, <5>3
      <4> QED BY <3>10, <4>4, <4>5, <4>6
    <3>19. WrittenSoFar(l2, src, f)
      BY <3>9, <3>13, <3>14, <3>18 DEF WrittenSoFar
    <3>20. PICK maker : maker = creator
      OBVIOUS
    <3>21. maker = c /\ maker # NoCopier /\ creator \in {c, NoCopier}
           /\ (f = NoFile <=> maker = NoCopier) /\ maker \in Copiers \cup {NoCopier}
      BY <1>3, <2>1, <3>9, <3>20, CopyAssumption
    <3>22. /\ source' = source /\ source = src /\ creator' = maker /\ CopyOne(l2, src)
           /\ destMode' \in Modes
      BY <1>1, <2>1, <3>14, <3>16, <3>17, <3>20 DEF CopyOne, CopyInv
    <3> QED BY <3>8, <3>9, <3>12, <3>19, <3>21, <3>22, CopierMoves
  <2> QED BY <1>1, <1>9, <2>2, <2>3 DEF Write
<1> QED BY <1>5, <1>6, <1>7, <1>8, <1>9

LEMMA PaddedIs ==
  ASSUME NEW s \in Seq({0, 1}), NEW f \in Seq({0, 1}), NEW n \in Nat, n <= Len(s),
         SameUpTo(s, f, n)
  PROVE  Len(f) <= n /\ Padded(f, n) = SubSeq(s, 1, n)
<1>1. PICK p : p = Padded(f, n)
  OBVIOUS
<1>2. p = [i \in 1 .. n |-> s[i]]
  BY <1>1 DEF Padded, SameUpTo
<1>3. SubSeq(s, 1, n) = [i \in 1 .. n |-> s[i]]
  <2>1. PICK t : t = SubSeq(s, 1, n)
    OBVIOUS
  <2>2. \A i \in 1 .. n : i \in 1 .. Len(s)
    BY LenProperties
  <2>3. \A i \in 1 .. n : s[i] \in {0, 1}
    BY <2>2, ElementOfSeq
  <2>4. /\ t \in Seq({0, 1}) /\ Len(t) = IF 1 <= n THEN n - 1 + 1 ELSE 0
        /\ \A i \in 1 .. n - 1 + 1 : t[i] = s[1 + i - 1]
    BY <2>1, <2>3, SubSeqProperties
  <2>5. Len(t) = n /\ \A i \in 1 .. n : t[i] = s[i]
    <3>1. n - 1 + 1 = n /\ (1 <= n \/ n = 0) /\ \A i \in 1 .. n : 1 + i - 1 = i
      OBVIOUS
    <3> QED BY <2>4, <3>1
  <2>6. t = [i \in 1 .. n |-> t[i]]
    BY <2>4, <2>5, LenProperties
  <2> QED BY <2>1, <2>5, <2>6
<1> QED BY <1>1, <1>2, <1>3 DEF SameUpTo

LEMMA NextCopy == CopyInv /\ [CopyNext]_copyVars => CopyInv'
<1> SUFFICES ASSUME CopyInv, [CopyNext]_copyVars PROVE CopyInv'
  OBVIOUS
<1>1. CASE UNCHANGED copyVars
  <2>1. ASSUME NEW c \in Copiers
        PROVE  /\ CopyOne(copier'[c], source') /\ WrittenSoFar(copier'[c], source', dest')
               /\ Made(copier'[c]) => creator' = c
    BY <1>1 DEF copyVars, CopyInv
  <2>2. ASSUME NEW c \in Copiers
        PROVE  (/\ CopyOne(copier[c], source) /\ WrittenSoFar(copier[c], source, dest)
                /\ Made(copier[c]) => creator = c)'
    BY <2>1 DEF CopyOne, CopyLocals, CopyProgress, BlockInHand, ReadSoFar, WrittenSoFar,
                Made, SameUpTo, Pending, AllZero, NoFile, Labels
  <2> QED BY <1>1, <2>2 DEF copyVars, CopyInv, NoFile, NoCopier, Modes
<1>2. ASSUME NEW c \in Copiers, NEW v \in Versions, NEW line \in CommandLines,
             Start(c, v, line)
      PROVE  CopyInv'
  BY <1>2, StepsBefore
<1>3. ASSUME NEW c \in Copiers, CopyStep(c) PROVE CopyInv'
  BY <1>3, StepsBefore, StepsOfLoop DEF CopyStep
<1> QED BY <1>1, <1>2, <1>3, SourceMade DEF CopyNext

(* Whatever block size and short reads it had, a copy that reports success *)
(* has made the destination itself and leaves no descriptor open; and in   *)
(* sol.c, and in copy.c if no write was cut short, the destination holds   *)
(* the source but for zeros at its end.  Of the contents that copy.c makes *)
(* after a short write nothing is claimed: CopiedWhole is false of them.   *)
THEOREM CopyAlwaysRight == CopySpec => []CopyRight
<1>1. CopyInv => CopyRight
  <2> SUFFICES ASSUME CopyInv PROVE CopyRight
    OBVIOUS
  <2>1. ASSUME NEW c \in Copiers
        PROVE  /\ CopyOne(copier[c], source) /\ WrittenSoFar(copier[c], source, dest)
               /\ Made(copier[c]) => creator = c
    BY DEF CopyInv
  <2>2. \A c \in Copiers : copier[c] \in CopyLocals
    BY <2>1 DEF CopyOne
  <2>3. ASSUME NEW n \in Nat, SameUpTo(source, dest, n), dest # NoFile, n <= Len(source),
               source \in Seq({0, 1})
        PROVE  Len(dest) <= n /\ Padded(dest, n) = SubSeq(source, 1, n)
    BY <2>3, SourceHolds, PaddedIs
  <2>4. CopyTypeOK
    <3>1. ASSUME NEW c \in Copiers
          PROVE  /\ copier[c].pc \in Labels /\ copier[c].pos \in 0 .. Len(source)
                 /\ copier[c].result \in {0, -1}
      <4>1. PICK l, n : /\ l = copier[c] /\ l \in CopyLocals /\ n = Len(source)
                        /\ n \in Nat /\ l.pos <= n
        <5>1. Len(source) \in Nat
          BY SourceHolds, LenProperties DEF NoFile
        <5> QED BY <2>1, <5>1 DEF CopyOne, ReadSoFar
      <4>2. l.pc \in Labels /\ l.pos \in Nat /\ l.result \in {0, -1}
        BY <4>1 DEF CopyLocals, Outcomes
      <4>3. l.pos \in 0 .. n
        BY <4>1, <4>2
      <4> QED BY <4>1, <4>2, <4>3
    <3> QED BY <3>1, SourceHolds DEF CopyTypeOK, CopyInv, Modes
  <2>5. CopiedSoFar
    <3> SUFFICES ASSUME NEW c \in Copiers, At(c, "read") \/ At(c, "write"), ~copier[c].short
                 PROVE  LET l == copier[c] IN
                        /\ l.out = l.pos - (IF At(c, "write")
                                              THEN Len(l.block) - l.written ELSE 0)
                        /\ Len(dest) <= l.out
                        /\ Padded(dest, l.out) = SubSeq(source, 1, l.out)
      BY DEF CopiedSoFar
    <3>1. PICK l : l = copier[c] /\ l \in CopyLocals /\ l.pc \in {"read", "write"}
      BY <2>2 DEF At
    <3>2. Made(l) /\ ~l.short /\ ReadSoFar(l, source) /\ BlockInHand(l, source)
      BY <2>1, <3>1 DEF CopyOne, Made
    <3>3. l.out = l.pos - Pending(l) /\ SameUpTo(source, dest, l.out) /\ dest # NoFile
      BY <2>1, <3>1, <3>2 DEF WrittenSoFar
    <3>4. source \in Seq({0, 1}) /\ l.out \in Nat /\ l.pos \in Nat /\ l.pos <= Len(source)
      BY <3>1, <3>2, SourceHolds DEF ReadSoFar, CopyLocals
    <3>5. l.out <= Len(source)
      <4>1. PICK p, n, o : p = l.pos /\ n = Len(source) /\ o = l.out /\ n \in Nat
        BY <3>4, LenProperties
      <4>2. Pending(l) \in Nat
        <5>1. CASE l.pc = "write"
          <6>1. PICK m, x : m = Len(l.block) /\ m \in Nat /\ x = l.written /\ x \in Nat
            BY <3>1, LenProperties DEF CopyLocals, Bytes
          <6>2. x < m
            BY <3>2, <5>1, <6>1 DEF BlockInHand
          <6> QED BY <5>1, <6>1, <6>2 DEF Pending
        <5>2. CASE l.pc # "write"
          BY <5>2 DEF Pending
        <5> QED BY <5>1, <5>2
      <4> QED BY <3>3, <3>4, <4>1, <4>2
    <3>6. Len(dest) <= l.out /\ Padded(dest, l.out) = SubSeq(source, 1, l.out)
      BY <2>3, <3>3, <3>4, <3>5
    <3>7. Pending(l) = IF At(c, "write") THEN Len(l.block) - l.written ELSE 0
      BY <3>1 DEF Pending, At
    <3> QED BY <3>1, <3>3, <3>6, <3>7
  <2>6. SuccessCopied
    <3> SUFFICES ASSUME NEW c \in Copiers, At(c, "done"), copier[c].result = 0
                 PROVE  /\ creator = c
                        /\ ~copier[c].short => /\ Len(dest) <= Len(source)
                                               /\ Padded(dest, Len(source)) = source
      BY DEF SuccessCopied
    <3>1. PICK l : l = copier[c] /\ l \in CopyLocals /\ l.pc = "done" /\ l.result = 0
      BY <2>2 DEF At
    <3>2. Made(l) /\ ReadSoFar(l, source) /\ WrittenSoFar(l, source, dest) /\ creator = c
      BY <2>1, <3>1 DEF CopyOne, Made
    <3>3. source \in Seq({0, 1}) /\ Len(source) \in Nat /\ l.pos = Len(source) /\ dest # NoFile
      BY <3>1, <3>2, SourceHolds, LenProperties DEF ReadSoFar, WrittenSoFar
    <3>4. ASSUME ~l.short
          PROVE  Len(dest) <= Len(source) /\ Padded(dest, Len(source)) = source
      <4>1. PICK n : n = Len(source) /\ n \in Nat /\ n <= n
        BY <3>3
      <4>2. l.out = n /\ SameUpTo(source, dest, n)
        BY <3>1, <3>2, <3>3, <3>4, <4>1 DEF WrittenSoFar, Pending
      <4> QED BY <2>3, <3>3, <4>1, <4>2, SubSeqFull
    <3> QED BY <3>1, <3>2, <3>4
  <2>7. NothingLeaks
    BY <2>1 DEF NothingLeaks, At, CopyOne, CopyProgress
  <2> QED BY <2>4, <2>5, <2>6, <2>7 DEF CopyRight
<1> QED BY <1>1, InitCopy, NextCopy, PTL DEF CopySpec

(* O_EXCL: what a destination holds and whose permissions it has is        *)
(* changed by the one copy whose open made it, in its loop or after it.    *)
THEOREM OnlyCreatorAlwaysWrites == CopySpec => OnlyCreatorWrites
<1> DEFINE Changed == dest # NoFile /\ (dest' # dest \/ destMode' # destMode)
           ByCreator == /\ creator' = creator
                        /\ copier[creator].pc \in {"write", "permissions"}
<1>1. CopyInv /\ [CopyNext]_copyVars => [Changed => ByCreator]_copyVars
  <2> SUFFICES ASSUME CopyInv, CopyNext, Changed PROVE ByCreator
    OBVIOUS
  <2>1. ASSUME NEW c \in Copiers, copier[c].pc \in {"write", "permissions"},
               creator' = creator
        PROVE  ByCreator
    <3>1. Made(copier[c])
      BY <2>1 DEF Made
    <3>2. creator = c
      BY <3>1 DEF CopyInv
    <3> QED BY <2>1, <3>2
  <2>2. ~MakeSource
    BY DEF MakeSource
  <2>3. ASSUME NEW c \in Copiers, NEW v \in Versions, NEW line \in CommandLines,
               Start(c, v, line)
        PROVE  ByCreator
    BY <2>3 DEF Start, files
  <2>4. ASSUME NEW c \in Copiers, CopyStep(c) PROVE ByCreator
    <3>1. ~OpenSource(c) /\ ~Allocate(c) /\ ~Read(c) /\ ~Skip(c) /\ ~Close(c)
      BY DEF OpenSource, Allocate, Read, Skip, Close, files
    <3>2. ~OpenDest(c)
      BY DEF OpenDest
    <3>3. CASE Write(c)
      BY <2>1, <3>3 DEF Write, At
    <3>4. CASE Permissions(c)
      BY <2>1, <3>4 DEF Permissions, At
    <3> QED BY <2>4, <3>1, <3>2, <3>3, <3>4 DEF CopyStep
  <2> QED BY <2>2, <2>3, <2>4 DEF CopyNext
<1> QED BY <1>1, InitCopy, NextCopy, PTL DEF CopySpec, OnlyCreatorWrites
-----------------------------------------------------------------------------
(* list.  A directory has been opened, or given up, but not merely named.  *)
(* Here and below l is the state of list, P counts what was printed, M is  *)
(* what is missing, s is the stack of activations.                         *)
Visited(d, l, P) == /\ l.pc # "idle" /\ ~(l.pc = "open" /\ l.target = d)
                    /\ d = Root \/ (l.recursive /\ P[d] = 1)

OnStack(d, s) == \E i \in 1 .. Len(s) : s[i].dir = d

(* An activation has printed all but what it has still to deal with and   *)
(* what is missing, and, if it sorts, the names in their order, once it    *)
(* has all of them.                                                        *)
Activation(a, collecting, edition, P, M) ==
    /\ a.left \subseteq Children[a.dir] \cup {a.dir}
    /\ a.names \subseteq Children[a.dir] /\ a.left \cap a.names = {}
    /\ \A f \in Children[a.dir] : IF f \in a.left \cup a.names
                                    THEN P[f] = 0 /\ f \notin M
                                    ELSE P[f] = 1 <=> f \notin M
    /\ edition = "ls.c" => a.names = {}
    /\ edition = "testing.c" =>
          IF collecting THEN \A f \in Children[a.dir] : P[f] = 0
          ELSE /\ a.left = {}
               /\ \A f \in a.names, g \in Children[a.dir] : P[g] = 1 => Rank[g] <= Rank[f]

Activations(l, s, P, M) ==
    /\ \A i, j \in 1 .. Len(s) : s[i].dir = s[j].dir => i = j
    /\ \A i \in 1 .. Len(s) :
          /\ Visited(s[i].dir, l, P)
          /\ Activation(s[i], l.pc = "collect" /\ i = Len(s), l.edition, P, M)

(* The outermost activation lists the root.                                *)
Stack(l, s, P) ==
    /\ l.pc \in {"idle", "done"} => s = << >>
    /\ l.pc \in {"read", "collect"} => s # << >>
    /\ l.pc = "open" => /\ s = << >> <=> l.target = Root
                        /\ l.target # Root => l.recursive /\ P[l.target] = 1
    /\ l.pc = "idle" => l.target = Root
    /\ l.pc = "collect" => l.edition = "testing.c"
    /\ s # << >> => s[1].dir = Root

OpenNow(l, s) == IF l.edition = "ls.c" THEN {s[i].dir : i \in 1 .. Len(s)}
                 ELSE IF l.pc = "collect" THEN {s[Len(s)].dir} ELSE {}

(* What was printed of a directory that is not being listed.               *)
Untouched(d, P, M) == \A f \in Children[d] : P[f] = 0 /\ f \notin M
Dealt(d, P, M)     == \A f \in Children[d] : P[f] = 1 <=> f \notin M

Elsewhere(l, s, P, M) ==
    \A d \in Directories :
        /\ ~Visited(d, l, P) => Untouched(d, P, M)
        /\ Visited(d, l, P) /\ ~OnStack(d, s) => Dealt(d, P, M)

ListStates == [pc : {"idle", "open", "read", "collect", "done"},
               edition : {"ls.c", "testing.c"}, recursive : BOOLEAN,
               target : Directories, result : {0, -1}]
Frames == [dir : Directories, left : SUBSET Files, names : SUBSET Files]

(* The call of opendir, or of malloc, that made list return -1 has cost    *)
(* something, if there was anything.                                       *)
Lacking(d, M) == Children[d] # {} => Children[d] \cap M # {}

ListTypes(l, s, P, M) ==
    /\ l \in ListStates /\ s \in Seq(Frames) /\ P \in [Files -> {0, 1}]
    /\ P[Root] = 0
    /\ l.result = -1 => l.pc = "done" /\ Lacking(Root, M)

ListOK(l, s, P, M) == /\ ListTypes(l, s, P, M)
                      /\ Stack(l, s, P)
                      /\ Activations(l, s, P, M)
                      /\ Elsewhere(l, s, P, M)

ListingInv == /\ ListOK(listing, frames, printed, missed)
              /\ opened = OpenNow(listing, frames)

(* Front and Last of the stack, and the stack with another top.            *)
LEMMA StackFacts ==
  ASSUME NEW s \in Seq(Frames), s # << >>
  PROVE  /\ Len(s) \in Nat /\ Len(s) >= 1
         /\ Last(s) = s[Len(s)] /\ Last(s) \in Frames
         /\ Front(s) \in Seq(Frames) /\ Len(Front(s)) = Len(s) - 1
         /\ \A i \in 1 .. Len(s) - 1 : Front(s)[i] = s[i]
<1>1. Len(s) \in Nat /\ Len(s) >= 1
  BY LenProperties, EmptySeq
<1>2. s[Len(s)] \in Frames
  BY <1>1, ElementOfSeq
<1>3. /\ SubSeq(s, 1, Len(s) - 1) \in Seq(Frames)
      /\ Len(SubSeq(s, 1, Len(s) - 1)) = Len(s) - 1
      /\ \A i \in 1 .. Len(s) - 1 : SubSeq(s, 1, Len(s) - 1)[i] = s[i]
  <2>1. PICK m : m = Len(s) - 1 /\ m \in Nat /\ m <= Len(s)
    BY <1>1
  <2>2. /\ SubSeq(s, 1, m) \in Seq(Frames)
        /\ Len(SubSeq(s, 1, m)) = m
        /\ \A i \in 1 .. m : SubSeq(s, 1, m)[i] = s[i]
    <3>1. \A i \in 1 .. m : s[i] \in Frames
      BY <1>1, <2>1, ElementOfSeq
    <3>2. 1 \in Int /\ m \in Int
      BY <2>1
    <3>3. /\ SubSeq(s, 1, m) \in Seq(Frames)
          /\ Len(SubSeq(s, 1, m)) = IF 1 <= m THEN m - 1 + 1 ELSE 0
          /\ \A i \in 1 .. m - 1 + 1 : SubSeq(s, 1, m)[i] = s[1 + i - 1]
      BY ONLY <3>1, <3>2, SubSeqProperties
    <3>4. m - 1 + 1 = m /\ (m = 0 \/ 1 <= m) /\ \A i \in 1 .. m : 1 + i - 1 = i
      BY <2>1
    <3> QED BY <3>3, <3>4
  <2> QED BY <2>1, <2>2
<1> QED BY <1>1, <1>2, <1>3 DEF Last, Front

LEMMA NewTop ==
  ASSUME NEW s \in Seq(Frames), s # << >>, NEW a \in Frames
  PROVE  LET s2 == [s EXCEPT ![Len(s)] = a] IN
         /\ s2 \in Seq(Frames) /\ Len(s2) = Len(s) /\ s2 # << >>
         /\ s2[Len(s)] = a
         /\ \A i \in 1 .. Len(s) : i # Len(s) => s2[i] = s[i]
<1>1. Len(s) \in Nat /\ Len(s) >= 1
  BY StackFacts
<1>2. Len(s) \in 1 .. Len(s)
  BY <1>1
<1> QED BY <1>1, <1>2, ExceptSeq, EmptySeq

(* The top activation takes a step, and the others stay as they are.       *)
Alike(l, l2, P, P2) == \A d \in Directories : Visited(d, l2, P2) <=> Visited(d, l, P)

LEMMA TopSteps ==
  ASSUME NEW l, NEW l2 \in ListStates, NEW s, NEW P, NEW P2 \in [Files -> {0, 1}],
         NEW M, NEW M2, NEW a \in Frames,
         ListOK(l, s, P, M), s # << >>, Alike(l, l2, P, P2),
         l2.edition = l.edition, l2.pc # "done", l.pc # "done", l2.result = l.result,
         a.dir = s[Len(s)].dir,
         \A f \in Files : f \notin Children[a.dir] => P2[f] = P[f] /\ (f \in M2 <=> f \in M),
         Activation(a, l2.pc = "collect", l2.edition, P2, M2),
         Stack(l2, [s EXCEPT ![Len(s)] = a], P2)
  PROVE  ListOK(l2, [s EXCEPT ![Len(s)] = a], P2, M2)
<1> DEFINE n == Len(s)
           t == [s EXCEPT ![n] = a]
<1>1. s \in Seq(Frames) /\ P[Root] = 0
  BY DEF ListOK, ListTypes
<1>2. /\ n \in Nat /\ n >= 1 /\ s[n] \in Frames /\ n \in 1 .. n
      /\ t \in Seq(Frames) /\ Len(t) = n /\ t # << >> /\ t[n] = a
      /\ \A i \in 1 .. n : i # n => t[i] = s[i]
  BY <1>1, NewTop, StackFacts
<1> HIDE DEF n, t
<1>3. a.dir \in Directories
  BY DEF Frames
<1>4. \A i \in 1 .. n : t[i].dir = s[i].dir
  BY <1>2 DEF n
<1>5. /\ \A i, j \in 1 .. n : s[i].dir = s[j].dir => i = j
      /\ \A i \in 1 .. n : /\ Visited(s[i].dir, l, P)
                           /\ Activation(s[i], l.pc = "collect" /\ i = n, l.edition, P, M)
  BY DEF ListOK, Activations, n
<1>6. \A i \in 1 .. n : s[i].dir \in Directories
  <2>1. \A i \in 1 .. n : s[i] \in Frames
    BY <1>1, ElementOfSeq DEF n
  <2> QED BY <2>1 DEF Frames
<1>7. \A d \in Directories : d # a.dir =>
        \A f \in Children[d] : f \in Files /\ P2[f] = P[f] /\ (f \in M2 <=> f \in M)
  BY <1>3, TreeAssumption DEF Files
<1>8. ListTypes(l2, t, P2, M2)
  <2>1. Root \notin Children[a.dir] /\ Root \in Files
    BY <1>3, TreeAssumption DEF Files
  <2>2. l.result # -1
    BY DEF ListOK, ListTypes
  <2> QED BY <1>1, <1>2, <2>1, <2>2 DEF ListTypes
<1>9. Activations(l2, t, P2, M2)
  <2>1. \A i, j \in 1 .. n : t[i].dir = t[j].dir => i = j
    BY <1>4, <1>5
  <2>2. ASSUME NEW i \in 1 .. n
        PROVE  /\ Visited(t[i].dir, l2, P2)
               /\ Activation(t[i], l2.pc = "collect" /\ i = n, l2.edition, P2, M2)
    <3>1. Visited(t[i].dir, l2, P2)
      BY <1>4, <1>5, <1>6 DEF Alike
    <3>2. CASE i = n
      BY <3>1, <3>2, <1>2
    <3>3. CASE i # n
      <4>1. Activation(s[i], FALSE, l2.edition, P, M) /\ t[i] = s[i]
        BY <3>3, <1>2, <1>5
      <4>2. s[i].dir # a.dir
        BY <3>3, <1>2, <1>5 DEF n
      <4>3. \A f \in Children[s[i].dir] : P2[f] = P[f] /\ (f \in M2 <=> f \in M)
        BY <1>6, <1>7, <4>2
      <4>4. s[i].names \subseteq Children[s[i].dir]
        BY <4>1 DEF Activation
      <4>5. Activation(s[i], FALSE, l2.edition, P2, M2)
        BY <4>1, <4>3, <4>4 DEF Activation
      <4> QED BY <3>1, <3>3, <4>1, <4>5
    <3> QED BY <3>2, <3>3
  <2> QED BY <1>2, <2>1, <2>2 DEF Activations
<1>10. Elsewhere(l2, t, P2, M2)
  <2>1. ASSUME NEW d \in Directories
        PROVE  /\ ~Visited(d, l2, P2) => Untouched(d, P2, M2)
               /\ Visited(d, l2, P2) /\ ~OnStack(d, t) => Dealt(d, P2, M2)
    <3>1. /\ ~Visited(d, l, P) => Untouched(d, P, M)
          /\ Visited(d, l, P) /\ ~OnStack(d, s) => Dealt(d, P, M)
      BY DEF ListOK, Elsewhere
    <3>2. OnStack(d, t) <=> OnStack(d, s)
      BY <1>2, <1>4 DEF OnStack, n
    <3>3. CASE d = a.dir
      <4>1. Visited(d, l2, P2) /\ OnStack(d, t)
        BY <3>3, <1>2, <1>4, <1>5 DEF OnStack, n, Alike
      <4> QED BY <4>1
    <3>4. CASE d # a.dir
      <4>1. \A f \in Children[d] : P2[f] = P[f] /\ (f \in M2 <=> f \in M)
        BY <1>7, <3>4
      <4>2. Visited(d, l2, P2) <=> Visited(d, l, P)
        BY DEF Alike
      <4> QED BY <3>1, <3>2, <4>1, <4>2 DEF Untouched, Dealt
    <3> QED BY <3>3, <3>4
  <2> QED BY <2>1 DEF Elsewhere
<1>11. Stack(l2, t, P2)
  BY DEF t, n
<1>12. ListOK(l2, t, P2, M2)
  BY <1>8, <1>9, <1>10, <1>11 DEF ListOK
<1> QED BY <1>12 DEF t, n

(* The top activation returns: it dealt with all, or it gave up.           *)
AfterReturn(l, rest, r) == IF rest = << >> THEN [l EXCEPT !.pc = "done", !.result = r]
                           ELSE [l EXCEPT !.pc = "read"]

LEMMA Returned ==
  ASSUME NEW l \in ListStates, NEW r \in {0, -1}, NEW rest,
         l.pc # "done", l.result \in {0, -1}
  PROVE  LET l2 == AfterReturn(l, rest, r) IN
         /\ l2 \in ListStates /\ l2.edition = l.edition /\ l2.recursive = l.recursive
         /\ l2.pc = IF rest = << >> THEN "done" ELSE "read"
         /\ l2.result = IF rest = << >> THEN r ELSE l.result
BY DEF AfterReturn, ListStates

LEMMA TopReturns ==
  ASSUME NEW l, NEW s, NEW P, NEW M, NEW M2, NEW r \in {0, -1},
         ListOK(l, s, P, M), s # << >>, l.pc \in {"read", "collect"},
         Dealt(s[Len(s)].dir, P, M2), r = -1 => Lacking(s[Len(s)].dir, M2),
         \A f \in Files : f \notin Children[s[Len(s)].dir] => (f \in M2 <=> f \in M)
  PROVE  ListOK(AfterReturn(l, Front(s), r), Front(s), P, M2)
<1> DEFINE n == Len(s)
           t == Front(s)
           l2 == AfterReturn(l, Front(s), r)
           e == s[Len(s)].dir
<1>1. /\ s \in Seq(Frames) /\ P \in [Files -> {0, 1}] /\ P[Root] = 0
      /\ l \in ListStates /\ l.result # -1 /\ s # << >>
  BY DEF ListOK, ListTypes
<1>2. /\ n \in Nat /\ n >= 1 /\ n \in 1 .. n
      /\ t \in Seq(Frames) /\ Len(t) = n - 1
      /\ \A i \in 1 .. n - 1 : t[i] = s[i]
  BY ONLY <1>1, StackFacts
<1>3. \A i \in 1 .. n : s[i].dir \in Directories
  <2>1. \A i \in 1 .. n : s[i] \in Frames
    BY <1>1, ElementOfSeq DEF n
  <2> QED BY <2>1 DEF Frames
<1>4. /\ l2 \in ListStates /\ l2.edition = l.edition /\ l2.recursive = l.recursive
      /\ l2.pc = IF t = << >> THEN "done" ELSE "read"
      /\ l2.result = IF t = << >> THEN r ELSE l.result
  <2>1. l.result \in {0, -1}
    BY <1>1 DEF ListStates
  <2> QED BY <1>1, <2>1, Returned
<1>5. t = << >> <=> n = 1
  <2>1. t # << >> => Len(t) \in Nat \ {0}
    BY <1>2, EmptySeq
  <2>2. t = << >> => Len(t) = 0
    BY EmptySeq
  <2> QED BY <1>2, <2>1, <2>2
<1>6. e = s[n].dir /\ e \in Directories
  BY <1>2, <1>3
<1>7. /\ Dealt(e, P, M2) /\ (r = -1 => Lacking(e, M2))
      /\ \A f \in Files : f \notin Children[e] => (f \in M2 <=> f \in M)
  OBVIOUS
<1>8. ListOK(l, s, P, M) /\ l.pc \in {"read", "collect"}
  OBVIOUS
<1> HIDE DEF n, t, l2, e
<1>9. /\ \A i, j \in 1 .. n : s[i].dir = s[j].dir => i = j
      /\ \A i \in 1 .. n : /\ Visited(s[i].dir, l, P)
                           /\ Activation(s[i], l.pc = "collect" /\ i = n, l.edition, P, M)
  BY <1>8 DEF ListOK, Activations, n
<1>10. s[1].dir = Root
  BY <1>8 DEF ListOK, Stack
<1>11. \A d : Visited(d, l2, P) <=> Visited(d, l, P)
  BY <1>4, <1>8 DEF Visited
<1>12. \A d \in Directories : d # e =>
         \A f \in Children[d] : f \in M2 <=> f \in M
  BY <1>6, <1>7, TreeAssumption DEF Files
<1>13. ListTypes(l2, t, P, M2)
  <2>1. l2.result = -1 => l2.pc = "done" /\ Lacking(Root, M2)
    <3> SUFFICES ASSUME l2.result = -1 PROVE l2.pc = "done" /\ Lacking(Root, M2)
      OBVIOUS
    <3>1. t = << >> /\ r = -1
      BY <1>1, <1>4
    <3>2. e = Root
      BY <1>5, <1>6, <1>10, <3>1
    <3> QED BY <1>4, <1>7, <3>1, <3>2
  <2> QED BY <1>1, <1>2, <1>4, <2>1 DEF ListTypes
<1>14. Stack(l2, t, P)
  <2>1. t # << >> => t[1].dir = Root
    BY <1>2, <1>5, <1>10
  <2> QED BY <1>4, <2>1 DEF Stack
<1>15. Activations(l2, t, P, M2)
  <2>1. \A i, j \in 1 .. n - 1 : t[i].dir = t[j].dir => i = j
    BY <1>2, <1>9
  <2>2. ASSUME NEW i \in 1 .. n - 1
        PROVE  /\ Visited(t[i].dir, l2, P)
               /\ Activation(t[i], l2.pc = "collect" /\ i = n - 1, l2.edition, P, M2)
    <3>1. i \in 1 .. n /\ i # n /\ t[i] = s[i] /\ (i = n <=> FALSE)
      BY <1>2
    <3>2. t[i].dir # e /\ t[i].dir \in Directories
      BY <1>2, <1>3, <1>6, <1>9, <3>1
    <3>3. Activation(t[i], FALSE, l2.edition, P, M)
      BY <1>4, <1>9, <3>1
    <3>4. (l2.pc = "collect" /\ i = n - 1) <=> FALSE
      BY <1>4
    <3>5. \A f \in Children[t[i].dir] : f \in M2 <=> f \in M
      BY <1>12, <3>2
    <3>6. Activation(t[i], l2.pc = "collect" /\ i = n - 1, l2.edition, P, M2)
      BY <3>3, <3>4, <3>5 DEF Activation
    <3>7. Visited(t[i].dir, l2, P)
      BY <1>9, <1>11, <3>1
    <3> QED BY <3>6, <3>7
  <2> QED BY <1>2, <2>1, <2>2 DEF Activations
<1>16. Elsewhere(l2, t, P, M2)
  <2>1. ASSUME NEW d \in Directories
        PROVE  /\ ~Visited(d, l2, P) => Untouched(d, P, M2)
               /\ Visited(d, l2, P) /\ ~OnStack(d, t) => Dealt(d, P, M2)
    <3>1. /\ ~Visited(d, l, P) => Untouched(d, P, M)
          /\ Visited(d, l, P) /\ ~OnStack(d, s) => Dealt(d, P, M)
      BY <1>8 DEF ListOK, Elsewhere
    <3>2. Visited(e, l, P)
      BY <1>2, <1>6, <1>9
    <3>3. d # e /\ OnStack(d, s) => OnStack(d, t)
      <4>1. ASSUME d # e, NEW i \in 1 .. n, s[i].dir = d PROVE OnStack(d, t)
        <5>1. i \in 1 .. n - 1
          BY <1>2, <1>6, <4>1
        <5> QED BY <1>2, <4>1, <5>1 DEF OnStack
      <4> QED BY <4>1 DEF OnStack, n
    <3>4. CASE d = e
      BY <1>7, <1>11, <3>2, <3>4
    <3>5. CASE d # e
      <4>1. \A f \in Children[d] : f \in M2 <=> f \in M
        BY <1>12, <3>5
      <4> QED BY <1>11, <3>1, <3>3, <3>5, <4>1 DEF Untouched, Dealt
    <3> QED BY <3>4, <3>5
  <2> QED BY <2>1 DEF Elsewhere
<1>17. ListOK(l2, t, P, M2)
  BY <1>13, <1>14, <1>15, <1>16 DEF ListOK
<1> QED BY <1>17 DEF l2, t

(* opendir fails: all of the directory is missing.                         *)
LEMMA NotOpened ==
  ASSUME NEW l, NEW s, NEW P, NEW M,
         ListOK(l, s, P, M), l.pc = "open"
  PROVE  ListOK(AfterReturn(l, s, -1), s, P, M \cup Children[l.target])
<1> DEFINE l2 == AfterReturn(l, s, -1)
           e == l.target
           M2 == M \cup Children[e]
<1>1. /\ s \in Seq(Frames) /\ P \in [Files -> {0, 1}] /\ P[Root] = 0
      /\ l \in ListStates /\ l.result # -1
  BY DEF ListOK, ListTypes
<1>2. e \in Directories
  BY <1>1 DEF ListStates
<1>3. /\ l2 \in ListStates /\ l2.edition = l.edition /\ l2.recursive = l.recursive
      /\ l2.pc = IF s = << >> THEN "done" ELSE "read"
      /\ l2.result = IF s = << >> THEN -1 ELSE l.result
  <2>1. l.result \in {0, -1}
    BY <1>1 DEF ListStates
  <2> QED BY <1>1, <2>1, Returned
<1>4. /\ s = << >> <=> e = Root
      /\ e # Root => l.recursive /\ P[e] = 1
      /\ s # << >> => s[1].dir = Root
  BY DEF ListOK, Stack
<1>5. ListOK(l, s, P, M) /\ l.pc = "open"
  OBVIOUS
<1>6. \A d : Visited(d, l2, P) <=> Visited(d, l, P) \/ d = e
  BY <1>3, <1>4 DEF Visited
<1>7. ~Visited(e, l, P)
  BY DEF Visited
<1>8. /\ \A f \in Children[e] : f \in M2
      /\ \A d \in Directories : d # e => \A f \in Children[d] : f \in M2 <=> f \in M
  BY <1>2, TreeAssumption
<1> HIDE DEF l2, e, M2
<1>9. ListTypes(l2, s, P, M2)
  <2>1. Lacking(e, M2)
    BY <1>8 DEF Lacking
  <2> QED BY <1>1, <1>3, <1>4, <2>1 DEF ListTypes
<1>10. Stack(l2, s, P)
  BY <1>3, <1>4 DEF Stack
<1>11. Activations(l2, s, P, M2)
  <2>1. \A i, j \in 1 .. Len(s) : s[i].dir = s[j].dir => i = j
    BY <1>5 DEF ListOK, Activations
  <2>2. ASSUME NEW i \in 1 .. Len(s)
        PROVE  /\ Visited(s[i].dir, l2, P)
               /\ Activation(s[i], l2.pc = "collect" /\ i = Len(s), l2.edition, P, M2)
    <3>1. /\ Visited(s[i].dir, l, P)
          /\ Activation(s[i], FALSE, l.edition, P, M)
      BY <1>5 DEF ListOK, Activations
    <3>2. (l2.pc = "collect" /\ i = Len(s)) <=> FALSE
      BY <1>3
    <3>3. s[i].dir # e /\ s[i].dir \in Directories
      <4>1. s[i] \in Frames
        BY <1>1, ElementOfSeq
      <4> QED BY <1>7, <3>1, <4>1 DEF Frames
    <3>4. \A f \in Children[s[i].dir] : f \in M2 <=> f \in M
      BY <1>8, <3>3
    <3>5. Activation(s[i], l2.pc = "collect" /\ i = Len(s), l2.edition, P, M2)
      BY <1>3, <3>1, <3>2, <3>4 DEF Activation
    <3> QED BY <1>6, <3>1, <3>5
  <2> QED BY <2>1, <2>2 DEF Activations
<1>12. Elsewhere(l2, s, P, M2)
  <2>1. ASSUME NEW d \in Directories
        PROVE  /\ ~Visited(d, l2, P) => Untouched(d, P, M2)
               /\ Visited(d, l2, P) /\ ~OnStack(d, s) => Dealt(d, P, M2)
    <3>1. /\ ~Visited(d, l, P) => Untouched(d, P, M)
          /\ Visited(d, l, P) /\ ~OnStack(d, s) => Dealt(d, P, M)
      BY <1>5 DEF Elsewhere, ListOK
    <3>2. CASE d = e
      <4>1. Dealt(d, P, M2)
        BY <1>7, <1>8, <3>1, <3>2 DEF Untouched, Dealt
      <4> QED BY <1>6, <3>2, <4>1
    <3>3. CASE d # e
      <4>1. \A f \in Children[d] : f \in M2 <=> f \in M
        BY <1>8, <3>3
      <4> QED BY <1>6, <3>1, <3>3, <4>1 DEF Untouched, Dealt
    <3> QED BY <3>2, <3>3
  <2> QED BY <2>1 DEF Elsewhere
<1> QED BY <1>9, <1>10, <1>11, <1>12 DEF ListOK, l2, e, M2

(* opendir succeeds: the stack has a new top, with everything still to do. *)
LEMMA Opened ==
  ASSUME NEW l, NEW s, NEW P, NEW M,
         ListOK(l, s, P, M), l.pc = "open"
  PROVE  ListOK([l EXCEPT !.pc = IF l.edition = "ls.c" THEN "read" ELSE "collect"],
                Append(s, [dir |-> l.target, left |-> Children[l.target] \cup {l.target},
                           names |-> {}]), P, M)
<1> DEFINE l2 == [l EXCEPT !.pc = IF l.edition = "ls.c" THEN "read" ELSE "collect"]
           e == l.target
           a == [dir |-> e, left |-> Children[e] \cup {e}, names |-> {}]
           t == Append(s, a)
           n == Len(s)
<1>1. /\ s \in Seq(Frames) /\ P \in [Files -> {0, 1}] /\ P[Root] = 0
      /\ l \in ListStates /\ l.result # -1
  BY DEF ListOK, ListTypes
<1>2. e \in Directories /\ l.edition \in {"ls.c", "testing.c"}
  BY <1>1 DEF ListStates
<1>3. /\ l2 \in ListStates /\ l2.edition = l.edition /\ l2.recursive = l.recursive
      /\ l2.pc = IF l.edition = "ls.c" THEN "read" ELSE "collect"
      /\ l2.result = l.result
  BY <1>1 DEF ListStates
<1>4. /\ s = << >> <=> e = Root
      /\ e # Root => l.recursive /\ P[e] = 1
      /\ s # << >> => s[1].dir = Root
  BY DEF ListOK, Stack
<1>5. ListOK(l, s, P, M) /\ l.pc = "open"
  OBVIOUS
<1>6. \A d : Visited(d, l2, P) <=> Visited(d, l, P) \/ d = e
  BY <1>3, <1>4 DEF Visited
<1>7. ~Visited(e, l, P)
  BY DEF Visited
<1>8. a \in Frames /\ a.dir = e /\ a.left = Children[e] \cup {e} /\ a.names = {}
  BY <1>2, TreeAssumption DEF Frames, Files
<1> HIDE DEF a, e
<1>9. /\ n \in Nat /\ t \in Seq(Frames) /\ Len(t) = n + 1 /\ t # << >> /\ t[n + 1] = a
      /\ \A i \in 1 .. n : t[i] = s[i]
      /\ s = << >> => n = 0
      /\ s # << >> => n >= 1
  BY <1>1, <1>8, LenProperties, AppendProperties, EmptySeq
<1> HIDE DEF l2, t, n
<1>10. /\ \A i, j \in 1 .. n : s[i].dir = s[j].dir => i = j
       /\ \A i \in 1 .. n : /\ Visited(s[i].dir, l, P)
                            /\ Activation(s[i], FALSE, l.edition, P, M)
  BY <1>5 DEF ListOK, Activations, n
<1>11. \A f \in Children[e] : P[f] = 0 /\ f \notin M
  BY <1>2, <1>5, <1>7 DEF ListOK, Elsewhere, Untouched
<1>12. ListTypes(l2, t, P, M)
  BY <1>1, <1>3, <1>9 DEF ListTypes
<1>13. Stack(l2, t, P)
  <2>1. t[1].dir = Root
    <3>1. CASE s = << >>
      BY <1>4, <1>8, <1>9, <3>1
    <3>2. CASE s # << >>
      <4>1. 1 \in 1 .. n
        BY <1>9, <3>2
      <4> QED BY <1>4, <1>9, <3>2, <4>1
    <3> QED BY <3>1, <3>2
  <2> QED BY <1>2, <1>3, <1>9, <2>1 DEF Stack
<1>14. Activations(l2, t, P, M)
  <2>1. \A i \in 1 .. n : t[i].dir # e
    BY <1>7, <1>9, <1>10
  <2>2. ASSUME NEW i \in 1 .. n + 1, NEW j \in 1 .. n + 1, t[i].dir = t[j].dir PROVE i = j
    <3>1. i = n + 1 \/ i \in 1 .. n
      BY <1>9
    <3>2. j = n + 1 \/ j \in 1 .. n
      BY <1>9
    <3>3. t[n + 1].dir = e
      BY <1>8, <1>9
    <3> QED BY <1>9, <1>10, <2>1, <2>2, <3>1, <3>2, <3>3
  <2>3. ASSUME NEW i \in 1 .. n + 1
        PROVE  /\ Visited(t[i].dir, l2, P)
               /\ Activation(t[i], l2.pc = "collect" /\ i = n + 1, l2.edition, P, M)
    <3>1. CASE i = n + 1
      <4>1. t[i] = a
        BY <1>9, <3>1
      <4>2. (l2.pc = "collect" /\ i = n + 1) <=> l.edition # "ls.c"
        BY <1>3, <3>1
      <4>3. Activation(a, l2.pc = "collect" /\ i = n + 1, l2.edition, P, M)
        BY <1>3, <1>8, <1>11, <4>2 DEF Activation
      <4> QED BY <1>6, <1>8, <1>11, <4>1, <4>3
    <3>2. CASE i \in 1 .. n
      <4>1. t[i] = s[i]
        BY <1>9, <3>2
      <4>2. (l2.pc = "collect" /\ i = n + 1) <=> FALSE
        BY <1>9, <3>2
      <4>3. Activation(s[i], l2.pc = "collect" /\ i = n + 1, l2.edition, P, M)
        BY <1>3, <1>10, <3>2, <4>2 DEF Activation
      <4> QED BY <1>6, <1>10, <3>2, <4>1, <4>3
    <3> QED BY <1>9, <3>1, <3>2
  <2> QED BY <1>9, <2>2, <2>3 DEF Activations
<1>15. Elsewhere(l2, t, P, M)
  <2>1. ASSUME NEW d \in Directories, d # e, OnStack(d, s) PROVE OnStack(d, t)
    <3>1. PICK i \in 1 .. n : s[i].dir = d
      BY <2>1 DEF OnStack, n
    <3>2. i \in 1 .. n + 1 /\ t[i].dir = d
      BY <1>9, <3>1
    <3> QED BY <1>9, <3>2 DEF OnStack
  <2>2. OnStack(e, t)
    <3>1. n + 1 \in 1 .. Len(t) /\ t[n + 1].dir = e
      BY <1>8, <1>9
    <3> QED BY <3>1 DEF OnStack
  <2> QED BY <1>3, <1>5, <1>6, <1>11, <2>1, <2>2 DEF Elsewhere, ListOK
<1>16. ListOK(l2, t, P, M)
  BY <1>12, <1>13, <1>14, <1>15 DEF ListOK
<1> QED BY <1>16 DEF l2, t, a, e

(* The initial states, and what a step of the top activation starts from.  *)
LEMMA InitListing == ListInit => ListingInv
<1> SUFFICES ASSUME ListInit PROVE ListingInv
  OBVIOUS
<1>1. PICK l, P : l = listing /\ P = printed
  OBVIOUS
<1>2. /\ l = [pc |-> "idle", edition |-> "ls.c", recursive |-> FALSE,
              target |-> Root, result |-> 0]
      /\ P = [f \in Files |-> 0] /\ frames = << >> /\ missed = {} /\ opened = {}
  BY <1>1 DEF ListInit
<1>3. \A d : ~Visited(d, l, P)
  BY <1>2 DEF Visited
<1>4. \A d \in Directories : \A f \in Children[d] : f \in Files
  BY DEF Files
<1>5. l \in ListStates
  BY <1>2, TreeAssumption DEF ListStates
<1>6. << >> \in Seq(Frames) /\ Len(<< >>) = 0
  BY EmptySeq
<1>7. ListTypes(l, << >>, P, {})
  BY <1>2, <1>5, <1>6, TreeAssumption DEF ListTypes
<1>8. Stack(l, << >>, P)
  BY <1>2 DEF Stack
<1>9. Activations(l, << >>, P, {})
  BY <1>6 DEF Activations
<1>10. Elsewhere(l, << >>, P, {})
  BY <1>2, <1>3, <1>4 DEF Elsewhere, Untouched
<1>11. OpenNow(l, << >>) = {}
  BY <1>2, <1>6 DEF OpenNow
<1> QED BY <1>1, <1>2, <1>7, <1>8, <1>9, <1>10, <1>11 DEF ListingInv, ListOK

(* What is known of the top activation.                                    *)
LEMMA TopFacts ==
  ASSUME NEW l, NEW s, NEW P, NEW M, ListOK(l, s, P, M), s # << >>
  PROVE  LET a == s[Len(s)] IN
         /\ a \in Frames /\ Last(s) = a /\ a.dir \in Directories
         /\ Visited(a.dir, l, P)
         /\ Activation(a, l.pc = "collect", l.edition, P, M)
<1>1. s \in Seq(Frames)
  BY DEF ListOK, ListTypes
<1>2. Len(s) \in 1 .. Len(s) /\ s[Len(s)] \in Frames /\ Last(s) = s[Len(s)]
  BY <1>1, StackFacts
<1>3. /\ Visited(s[Len(s)].dir, l, P)
      /\ Activation(s[Len(s)], l.pc = "collect" /\ Len(s) = Len(s), l.edition, P, M)
  BY <1>2 DEF ListOK, Activations
<1>4. s[Len(s)].dir \in Directories
  BY <1>2 DEF Frames
<1>5. (l.pc = "collect" /\ Len(s) = Len(s)) <=> l.pc = "collect"
  OBVIOUS
<1>6. Activation(s[Len(s)], l.pc = "collect", l.edition, P, M)
  BY <1>3, <1>5 DEF Activation
<1> QED BY <1>2, <1>3, <1>4, <1>6

(* The directories of the activations, when the top one is another that    *)
(* lists the same directory.                                               *)
LEMMA SameDirectories ==
  ASSUME NEW s \in Seq(Frames), s # << >>, NEW a \in Frames, a.dir = s[Len(s)].dir
  PROVE  LET t == [s EXCEPT ![Len(s)] = a] IN
         /\ {t[i].dir : i \in 1 .. Len(t)} = {s[i].dir : i \in 1 .. Len(s)}
         /\ t[Len(t)].dir = s[Len(s)].dir
         /\ t # << >> /\ t[1].dir = s[1].dir
<1> DEFINE t == [s EXCEPT ![Len(s)] = a]
<1>1. /\ t \in Seq(Frames) /\ Len(t) = Len(s) /\ t # << >> /\ t[Len(s)] = a
      /\ \A i \in 1 .. Len(s) : i # Len(s) => t[i] = s[i]
  BY NewTop
<1>2. Len(s) \in Nat /\ Len(s) >= 1
  BY StackFacts
<1>3. PICK n : n = Len(s) /\ n \in Nat /\ n >= 1
  BY <1>2
<1> HIDE DEF t
<1>4. \A i \in 1 .. n : t[i].dir = s[i].dir
  BY <1>1, <1>3
<1>5. 1 \in 1 .. n
  BY <1>3
<1>6. {t[i].dir : i \in 1 .. n} = {s[i].dir : i \in 1 .. n}
  BY <1>4
<1>7. t[n].dir = s[n].dir /\ t[1].dir = s[1].dir /\ t # << >> /\ Len(t) = n
  BY <1>1, <1>3, <1>4, <1>5
<1>8. /\ {t[i].dir : i \in 1 .. Len(t)} = {s[i].dir : i \in 1 .. Len(s)}
      /\ t[Len(t)].dir = s[Len(s)].dir
      /\ t # << >> /\ t[1].dir = s[1].dir
  BY <1>3, <1>6, <1>7
<1> QED BY <1>8 DEF t

(* Steps that print nothing, and steps that print one entry of the top.    *)
QuietResult(l, s, P, M2, a) ==
    LET t == [s EXCEPT ![Len(s)] = a] IN
    ListOK(l, t, P, M2) /\ OpenNow(l, t) = OpenNow(l, s)

LEMMA QuietStep ==
  ASSUME NEW l, NEW s, NEW P, NEW M, NEW M2, NEW a \in Frames,
         ListOK(l, s, P, M), s # << >>, l.pc \in {"read", "collect"},
         \A f \in Files : f \notin Children[a.dir] => (f \in M2 <=> f \in M),
         a.dir = s[Len(s)].dir, Activation(a, l.pc = "collect", l.edition, P, M2)
  PROVE  QuietResult(l, s, P, M2, a)
<1> DEFINE t == [s EXCEPT ![Len(s)] = a]
<1>1. s \in Seq(Frames) /\ l \in ListStates /\ P \in [Files -> {0, 1}]
  BY DEF ListOK, ListTypes
<1>2. /\ {t[i].dir : i \in 1 .. Len(t)} = {s[i].dir : i \in 1 .. Len(s)}
      /\ t[Len(t)].dir = s[Len(s)].dir /\ t # << >> /\ t[1].dir = s[1].dir
  BY <1>1, SameDirectories
<1>3. Stack(l, s, P)
  BY DEF ListOK
<1>4. Stack(l, t, P)
  <2> HIDE DEF t
  <2> QED BY <1>2, <1>3 DEF Stack
<1>5. OpenNow(l, t) = OpenNow(l, s)
  <2> HIDE DEF t
  <2> QED BY <1>2 DEF OpenNow
<1>6. Alike(l, l, P, P)
  BY DEF Alike
<1>7. ListOK(l, t, P, M2)
  BY <1>1, <1>4, <1>6, TopSteps
<1> QED BY <1>5, <1>7 DEF QuietResult

AfterPrint(l, f) == IF l.recursive /\ f \in Directories
                      THEN [l EXCEPT !.pc = "open", !.target = f] ELSE l

PrintResult(l, s, P, M, a, f) ==
    LET t  == [s EXCEPT ![Len(s)] = a]
        l2 == AfterPrint(l, f)
    IN  /\ ListOK(l2, t, [P EXCEPT ![f] = @ + 1], M)
        /\ OpenNow(l2, t) = OpenNow(l, s)

LEMMA PrintStep ==
  ASSUME NEW l, NEW s, NEW P, NEW M, NEW a \in Frames, NEW f,
         ListOK(l, s, P, M), s # << >>, l.pc = "read",
         a.dir = s[Len(s)].dir, f \in Children[a.dir], P[f] = 0,
         Activation(a, FALSE, l.edition, [P EXCEPT ![f] = @ + 1], M)
  PROVE  PrintResult(l, s, P, M, a, f)
<1> DEFINE t == [s EXCEPT ![Len(s)] = a]
           l2 == AfterPrint(l, f)
           P2 == [P EXCEPT ![f] = @ + 1]
<1>1. s \in Seq(Frames) /\ l \in ListStates /\ P \in [Files -> {0, 1}]
  BY DEF ListOK, ListTypes
<1>2. /\ {t[i].dir : i \in 1 .. Len(t)} = {s[i].dir : i \in 1 .. Len(s)}
      /\ t[Len(t)].dir = s[Len(s)].dir /\ t # << >> /\ t[1].dir = s[1].dir
  BY <1>1, SameDirectories
<1>3. P2 \in [Files -> {0, 1}] /\ P2[f] = 1 /\ \A g \in Files : g # f => P2[g] = P[g]
  <2>1. f \in Files
    BY DEF Frames, Files
  <2> QED BY <1>1, <2>1
<1>4. /\ l2 \in ListStates /\ l2.edition = l.edition /\ l2.recursive = l.recursive
      /\ l2.pc = IF l.recursive /\ f \in Directories THEN "open" ELSE "read"
      /\ l2.result = l.result
      /\ l.recursive /\ f \in Directories => l2.target = f
  BY <1>1 DEF ListStates, AfterPrint
<1>5. a.dir \in Directories /\ f # Root
  BY TreeAssumption DEF Frames
<1>6. Stack(l, s, P)
  BY DEF ListOK
<1> HIDE DEF t, l2, P2
<1>7. Stack(l2, t, P2)
  BY <1>2, <1>3, <1>4, <1>5, <1>6 DEF Stack
<1>8. OpenNow(l2, t) = OpenNow(l, s)
  BY <1>2, <1>4 DEF OpenNow
<1>9. Alike(l, l2, P, P2)
  <2>1. ASSUME NEW d \in Directories PROVE Visited(d, l2, P2) <=> Visited(d, l, P)
    <3>0. d \in Files
      BY TreeAssumption
    <3>1. CASE d = f
      BY <3>1, <1>3, <1>4, <1>5 DEF Visited
    <3>2. CASE d # f
      BY <3>0, <3>2, <1>3, <1>4 DEF Visited
    <3> QED BY <3>1, <3>2
  <2> QED BY <2>1 DEF Alike
<1>10. \A g \in Files : g \notin Children[a.dir] => P2[g] = P[g]
  BY <1>3
<1>11. Activation(a, l2.pc = "collect", l2.edition, P2, M)
  <2>1. (l2.pc = "collect") <=> FALSE
    BY <1>4
  <2> QED BY <1>4, <2>1 DEF Activation, P2
<1>12. ListOK(l2, t, P2, M)
  <2>1. l2.pc # "done"
    BY <1>4
  <2> QED BY <1>3, <1>4, <1>7, <1>9, <1>10, <1>11, <2>1, TopSteps DEF t
<1> QED BY <1>8, <1>12 DEF t, l2, P2, PrintResult

(* One lemma per kind of step of ListNext.                                 *)
LEMMA OpenKeeps ==
  ASSUME ListingInv, OpenDirectory PROVE ListingInv'
<1>1. PICK l, s, P, M : /\ l = listing /\ s = frames /\ P = printed
                        /\ M = missed
  OBVIOUS
<1>2. /\ ListOK(l, s, P, M) /\ opened = OpenNow(l, s) /\ l.pc = "open"
      /\ P = printed'
  BY <1>1 DEF ListingInv, OpenDirectory
<1>3. l \in ListStates /\ s \in Seq(Frames)
  BY <1>2 DEF ListOK, ListTypes
<1>4. CASE /\ frames' = Append(s, [dir |-> l.target, left |-> Children[l.target] \cup {l.target},
                                   names |-> {}])
           /\ opened' = opened \cup {l.target}
           /\ listing' = [l EXCEPT !.pc = IF l.edition = "ls.c" THEN "read" ELSE "collect"]
           /\ missed' = M
  <2>1. PICK l2, t : l2 = listing' /\ t = frames'
    OBVIOUS
  <2>2. ListOK(l2, t, P, M)
    BY <1>2, <1>4, <2>1, Opened
  <2>3. PICK a : a = [dir |-> l.target, left |-> Children[l.target] \cup {l.target},
                      names |-> {}]
    OBVIOUS
  <2>4. a \in Frames /\ a.dir = l.target
    BY <1>3, <2>3, TreeAssumption DEF Frames, Files, ListStates
  <2>5. PICK n : n = Len(s) /\ n \in Nat
    BY <1>3, LenProperties
  <2>6. Len(t) = n + 1 /\ t[n + 1] = a /\ \A i \in 1 .. n : t[i] = s[i]
    BY <1>3, <1>4, <2>1, <2>3, <2>4, <2>5, AppendProperties
  <2>7. /\ l2.edition = l.edition /\ l.edition \in {"ls.c", "testing.c"}
        /\ l2.pc = IF l.edition = "ls.c" THEN "read" ELSE "collect"
    BY <1>3, <1>4, <2>1 DEF ListStates
  <2>8. {t[i].dir : i \in 1 .. n + 1} = {s[i].dir : i \in 1 .. n} \cup {l.target}
    BY <2>4, <2>5, <2>6
  <2>9. OpenNow(l2, t) = opened'
    <3>1. CASE l.edition = "ls.c"
      BY <1>2, <1>4, <2>5, <2>6, <2>7, <2>8, <3>1 DEF OpenNow
    <3>2. CASE l.edition = "testing.c"
      BY <1>2, <1>4, <2>4, <2>5, <2>6, <2>7, <3>2 DEF OpenNow
    <3> QED BY <2>7, <3>1, <3>2
  <2> QED BY <1>1, <1>2, <1>4, <2>1, <2>2, <2>9 DEF ListingInv
<1>5. CASE /\ frames' = s /\ missed' = M \cup Children[l.target] /\ opened' = opened
           /\ listing' = AfterReturn(l, s, -1)
  <2>1. PICK l2, M2 : l2 = listing' /\ M2 = missed'
    OBVIOUS
  <2>2. ListOK(l2, s, P, M2)
    BY <1>2, <1>5, <2>1, NotOpened
  <2>3. l2.edition = l.edition /\ l2.pc = IF s = << >> THEN "done" ELSE "read"
    <3>1. l.result \in {0, -1}
      BY <1>3 DEF ListStates
    <3> QED BY <1>2, <1>3, <1>5, <2>1, <3>1, Returned
  <2>4. OpenNow(l2, s) = OpenNow(l, s)
    BY <1>2, <2>3 DEF OpenNow
  <2> QED BY <1>1, <1>2, <1>5, <2>1, <2>2, <2>4 DEF ListingInv
<1> QED BY <1>1, <1>4, <1>5 DEF OpenDirectory, ReturnFrom, AfterReturn

(* A return of the top activation that closes its directory, if it is open.*)
LEMMA ReturnKeeps ==
  ASSUME ListingInv, frames # << >>, listing.pc \in {"read", "collect"},
         NEW r \in {0, -1}, ReturnFrom(Front(frames), r), UNCHANGED printed,
         Dealt(frames[Len(frames)].dir, printed, missed'),
         r = -1 => Lacking(frames[Len(frames)].dir, missed'),
         \A f \in Files : f \notin Children[frames[Len(frames)].dir] =>
                             (f \in missed' <=> f \in missed),
         \/ opened' = opened \ {frames[Len(frames)].dir}
         \/ opened' = opened /\ listing.edition = "testing.c" /\ listing.pc = "read"
  PROVE  ListingInv'
<1>1. PICK l, s, P, M : /\ l = listing /\ s = frames /\ P = printed
                        /\ M = missed
  OBVIOUS
<1>2. PICK l2, t, M2 : l2 = listing' /\ t = frames' /\ M2 = missed'
  OBVIOUS
<1>3. /\ ListOK(l, s, P, M) /\ opened = OpenNow(l, s) /\ s # << >>
      /\ l.pc \in {"read", "collect"} /\ t = Front(s) /\ l2 = AfterReturn(l, t, r)
      /\ P = printed'
  BY <1>1, <1>2 DEF ListingInv, ReturnFrom, AfterReturn
<1>4. /\ Dealt(s[Len(s)].dir, P, M2) /\ (r = -1 => Lacking(s[Len(s)].dir, M2))
      /\ \A f \in Files : f \notin Children[s[Len(s)].dir] => (f \in M2 <=> f \in M)
  BY <1>1, <1>2
<1>5. ListOK(l2, t, P, M2)
  BY <1>3, <1>4, TopReturns
<1>6. l \in ListStates /\ s \in Seq(Frames)
  BY <1>3 DEF ListOK, ListTypes
<1>7. l2.edition = l.edition /\ l2.pc = IF t = << >> THEN "done" ELSE "read"
  <2>1. l.result \in {0, -1}
    BY <1>6 DEF ListStates
  <2> QED BY <1>3, <1>6, <2>1, Returned
<1>8. PICK n : n = Len(s) /\ n \in Nat /\ n >= 1
  BY <1>3, <1>6, StackFacts
<1>9. Len(t) = n - 1 /\ \A i \in 1 .. n - 1 : t[i] = s[i]
  BY <1>3, <1>6, <1>8, StackFacts
<1>10. \A i, j \in 1 .. n : s[i].dir = s[j].dir => i = j
  BY <1>3, <1>8 DEF ListOK, Activations
<1>11. {t[i].dir : i \in 1 .. n - 1} = {s[i].dir : i \in 1 .. n} \ {s[n].dir}
  <2>1. \A i \in 1 .. n - 1 : i \in 1 .. n /\ t[i].dir = s[i].dir /\ s[i].dir # s[n].dir
    BY <1>8, <1>9, <1>10
  <2>2. \A i \in 1 .. n : i \in 1 .. n - 1 \/ i = n
    BY <1>8
  <2> QED BY <2>1, <2>2
<1>12. OpenNow(l2, t) = opened'
  <2>1. CASE l.edition = "ls.c"
    <3>1. opened = {s[i].dir : i \in 1 .. n}
      BY <1>3, <1>8, <2>1 DEF OpenNow
    <3>2. opened' = opened \ {s[n].dir}
      BY <1>1, <1>8, <2>1
    <3>3. OpenNow(l2, t) = {t[i].dir : i \in 1 .. n - 1}
      BY <1>7, <1>9, <2>1 DEF OpenNow
    <3> QED BY <1>11, <3>1, <3>2, <3>3
  <2>2. CASE l.edition # "ls.c"
    <3>1. opened = IF l.pc = "collect" THEN {s[n].dir} ELSE {}
      BY <1>3, <1>8, <2>2 DEF OpenNow
    <3>2. opened' = opened \ {s[n].dir} \/ (opened' = opened /\ l.pc = "read")
      BY <1>1, <1>8
    <3>3. OpenNow(l2, t) = {}
      BY <1>7, <2>2 DEF OpenNow
    <3>4. opened' = {}
      BY <3>1, <3>2
    <3> QED BY <3>3, <3>4
  <2> QED BY <2>1, <2>2
<1> QED BY <1>2, <1>3, <1>5, <1>12 DEF ListingInv

(* A quiet step, in the variables.                                         *)
LEMMA QuietKeeps ==
  ASSUME ListingInv, NEW a \in Frames, frames # << >>, listing.pc \in {"read", "collect"},
         a.dir = frames[Len(frames)].dir,
         Activation(a, listing.pc = "collect", listing.edition, printed, missed'),
         \A f \in Files : f \notin Children[a.dir] => (f \in missed' <=> f \in missed),
         frames' = [frames EXCEPT ![Len(frames)] = a],
         UNCHANGED <<listing, opened, printed>>
  PROVE  ListingInv'
<1>1. PICK l, s, P, M, M2 : /\ l = listing /\ s = frames /\ P = printed
                            /\ M = missed /\ M2 = missed'
  OBVIOUS
<1>2. PICK t : t = [s EXCEPT ![Len(s)] = a]
  OBVIOUS
<1>3. ListOK(l, s, P, M) /\ opened = OpenNow(l, s)
  BY <1>1 DEF ListingInv
<1>4. /\ s # << >> /\ l.pc \in {"read", "collect"} /\ a.dir = s[Len(s)].dir
      /\ Activation(a, l.pc = "collect", l.edition, P, M2)
      /\ \A f \in Files : f \notin Children[a.dir] => (f \in M2 <=> f \in M)
  BY <1>1
<1>5. ListOK(l, t, P, M2) /\ OpenNow(l, t) = OpenNow(l, s)
  <2>1. QuietResult(l, s, P, M2, a)
    BY <1>3, <1>4, QuietStep
  <2> QED BY <1>2, <2>1 DEF QuietResult
<1>6. /\ frames' = t /\ listing' = l /\ printed' = P /\ missed' = M2
      /\ opened' = opened
  BY <1>1, <1>2
<1> QED BY <1>3, <1>5, <1>6 DEF ListingInv

(* The steps that take an entry from what the top has still to deal with.  *)
LEMMA LessLeft ==
  ASSUME NEW a \in Frames, NEW f
  PROVE  LET b == [a EXCEPT !.left = @ \ {f}] IN
         b \in Frames /\ b.dir = a.dir /\ b.left = a.left \ {f} /\ b.names = a.names
BY DEF Frames

LEMMA LessNames ==
  ASSUME NEW a \in Frames, NEW f
  PROVE  LET b == [a EXCEPT !.names = @ \ {f}] IN
         b \in Frames /\ b.dir = a.dir /\ b.left = a.left /\ b.names = a.names \ {f}
BY DEF Frames

LEMMA WithoutKeeps ==
  ASSUME ListingInv, frames # << >>, listing.pc \in {"read", "collect"},
         NEW f \in frames[Len(frames)].left, frames' = Without(f),
         \/ f = frames[Len(frames)].dir /\ missed' = missed
         \/ /\ listing.edition = "ls.c" /\ f # frames[Len(frames)].dir
            /\ missed' = missed \cup {f},
         UNCHANGED <<listing, opened, printed>>
  PROVE  ListingInv'
<1>1. PICK l, s, P, M, M2 : /\ l = listing /\ s = frames /\ P = printed
                            /\ M = missed /\ M2 = missed'
  OBVIOUS
<1>2. PICK a : a = s[Len(s)]
  OBVIOUS
<1>3. ListOK(l, s, P, M) /\ s # << >>
  BY <1>1 DEF ListingInv
<1>4. /\ a \in Frames /\ a.dir \in Directories
      /\ Activation(a, l.pc = "collect", l.edition, P, M)
  BY <1>2, <1>3, TopFacts
<1>5. PICK b : b = [a EXCEPT !.left = @ \ {f}]
  OBVIOUS
<1>6. b \in Frames /\ b.dir = a.dir /\ b.left = a.left \ {f} /\ b.names = a.names
  BY <1>4, <1>5, LessLeft
<1>7. a.dir \notin Children[a.dir]
  BY <1>4, TreeAssumption
<1>8. /\ f \in a.left
      /\ \/ f = a.dir /\ M2 = M
         \/ l.edition = "ls.c" /\ f # a.dir /\ M2 = M \cup {f}
  BY <1>1, <1>2
<1>9. f \in Children[a.dir] \/ f = a.dir
  BY <1>4, <1>8 DEF Activation
<1>10. Activation(b, l.pc = "collect", l.edition, P, M2)
  <2>1. CASE f = a.dir /\ M2 = M
    BY <1>4, <1>6, <1>7, <2>1 DEF Activation
  <2>2. CASE l.edition = "ls.c" /\ f # a.dir /\ M2 = M \cup {f}
    BY <1>4, <1>6, <1>8, <1>9, <2>2 DEF Activation
  <2> QED BY <1>8, <2>1, <2>2
<1>11. frames' = [frames EXCEPT ![Len(frames)] = b]
  BY <1>1, <1>2, <1>5 DEF Without
<1>12. \A g \in Files : g \notin Children[b.dir] => (g \in missed' <=> g \in missed)
  BY <1>1, <1>6, <1>8, <1>9
<1>13. b.dir = frames[Len(frames)].dir /\ Activation(b, listing.pc = "collect", listing.edition, printed, missed')
  BY <1>1, <1>2, <1>6, <1>10
<1> QED BY <1>6, <1>11, <1>12, <1>13, QuietKeeps

LEMMA OtherNames ==
  ASSUME NEW x, NEW y, NEW z, NEW w
  PROVE  [[dir |-> x, left |-> y, names |-> z] EXCEPT !.names = w]
         = [dir |-> x, left |-> y, names |-> w]
OBVIOUS

LEMMA CollectKeeps ==
  ASSUME ListingInv, frames # << >>, CollectName PROVE ListingInv'
<1>1. PICK l, s, P, M : l = listing /\ s = frames /\ P = printed /\ M = missed
  OBVIOUS
<1>2. PICK a : a = s[Len(s)]
  OBVIOUS
<1>3. ListOK(l, s, P, M) /\ s # << >> /\ l.pc = "collect"
  BY <1>1 DEF ListingInv, CollectName
<1>4. /\ a \in Frames /\ a.dir \in Directories /\ Last(s) = a
      /\ Activation(a, l.pc = "collect", l.edition, P, M)
  BY <1>2, <1>3, TopFacts
<1>5. PICK f \in a.left \ {a.dir} :
         frames' = [frames EXCEPT ![Len(frames)].left  = @ \ {f},
                                  ![Len(frames)].names = @ \cup {f}]
  BY <1>1, <1>4 DEF CollectName, top
<1>6. f \in Children[a.dir] /\ Children[a.dir] \subseteq Files
  BY <1>4, <1>5 DEF Activation, Files
<1>7. PICK b : b = [dir |-> a.dir, left |-> a.left \ {f}, names |-> a.names \cup {f}]
  OBVIOUS
<1>8. /\ b \in Frames /\ b.dir = a.dir
      /\ b.left = a.left \ {f} /\ b.names = a.names \cup {f}
  BY <1>4, <1>6, <1>7 DEF Frames
<1>9. Stack(l, s, P)
  BY <1>3 DEF ListOK
<1>10. l.edition = "testing.c"
  BY <1>3, <1>9 DEF Stack
<1>11. Activation(b, l.pc = "collect", l.edition, P, M)
  BY <1>3, <1>4, <1>6, <1>8, <1>10 DEF Activation
<1>12. frames' = [frames EXCEPT ![Len(frames)] = b]
  <2>1. s \in Seq(Frames) /\ Len(s) \in 1 .. Len(s)
    BY <1>3, StackFacts DEF ListOK, ListTypes
  <2>2. PICK n : n = Len(s) /\ n \in 1 .. Len(s)
    BY <2>1
  <2>3. PICK t : t = [s EXCEPT ![n].left = @ \ {f}]
    OBVIOUS
  <2>4. t[n] = [a EXCEPT !.left = @ \ {f}]
    BY <1>2, <2>1, <2>2, <2>3, LenProperties
  <2>5. [t[n] EXCEPT !.names = @ \cup {f}] = b
    <3>1. t[n] = [dir |-> a.dir, left |-> a.left \ {f}, names |-> a.names]
      BY <1>4, <2>4 DEF Frames
    <3>2. t[n].names = a.names
      BY <3>1
    <3>3. [[dir |-> a.dir, left |-> a.left \ {f}, names |-> a.names]
             EXCEPT !.names = a.names \cup {f}] = b
      BY <1>7, OtherNames, Zenon
    <3>4. [t[n] EXCEPT !.names = a.names \cup {f}] = b
      BY <3>1, <3>3, Zenon
    <3> QED BY <3>2, <3>4
  <2>6. [t EXCEPT ![n].names = @ \cup {f}] = [t EXCEPT ![n] = b]
    BY <2>5
  <2>7. [t EXCEPT ![n] = b] = [s EXCEPT ![n] = b]
    BY <2>1, <2>2, <2>3, LenProperties
  <2> QED BY <1>1, <1>5, <2>2, <2>3, <2>6, <2>7
<1>13. UNCHANGED <<listing, opened, printed, missed>>
  BY DEF CollectName
<1> QED BY <1>1, <1>2, <1>3, <1>8, <1>11, <1>12, <1>13, QuietKeeps

LEMMA LstatFailsNameKeeps ==
  ASSUME ListingInv, frames # << >>, NEW f, LstatFailsName(f) PROVE ListingInv'
<1>1. PICK l, s, P, M, M2 : /\ l = listing /\ s = frames /\ P = printed
                            /\ M = missed /\ M2 = missed'
  OBVIOUS
<1>2. PICK a : a = s[Len(s)]
  OBVIOUS
<1>3. /\ ListOK(l, s, P, M) /\ s # << >> /\ l.pc = "read" /\ l.edition = "testing.c"
      /\ M2 = M \cup {f}
  BY <1>1 DEF ListingInv, LstatFailsName, NextName
<1>4. /\ a \in Frames /\ a.dir \in Directories /\ Last(s) = a
      /\ Activation(a, l.pc = "collect", l.edition, P, M)
  BY <1>2, <1>3, TopFacts
<1>5. PICK b : b = [a EXCEPT !.names = @ \ {f}]
  OBVIOUS
<1>6. b \in Frames /\ b.dir = a.dir /\ b.left = a.left /\ b.names = a.names \ {f}
  BY <1>4, <1>5, LessNames
<1>7. f \in a.names /\ f \in Children[a.dir]
  <2>1. f \in a.names
    BY <1>1, <1>4 DEF LstatFailsName, NextName, top
  <2> QED BY <1>4, <2>1 DEF Activation
<1>8. Activation(b, l.pc = "collect", l.edition, P, M2)
  <2>1. Activation(a, FALSE, l.edition, P, M)
    BY <1>3, <1>4 DEF Activation
  <2>2. a.left = {}
    BY <1>3, <2>1 DEF Activation
  <2>3. Activation(b, FALSE, l.edition, P, M2)
    BY <1>3, <1>6, <1>7, <2>1, <2>2 DEF Activation
  <2> QED BY <1>3, <2>3 DEF Activation
<1>9. frames' = [frames EXCEPT ![Len(frames)] = b]
  BY <1>1, <1>2, <1>5 DEF LstatFailsName, AfterName
<1>10. UNCHANGED <<listing, opened, printed>>
  BY DEF LstatFailsName
<1>11. \A g \in Files : g \notin Children[b.dir] => (g \in missed' <=> g \in missed)
  BY <1>1, <1>3, <1>6, <1>7
<1> QED BY <1>1, <1>2, <1>3, <1>6, <1>8, <1>9, <1>10, <1>11, QuietKeeps

(* A printing step, in the variables.                                      *)
LEMMA PrintKeeps ==
  ASSUME ListingInv, NEW a \in Frames, NEW f, frames # << >>, listing.pc = "read",
         a.dir = frames[Len(frames)].dir, f \in Children[a.dir],
         printed[f] = 0,
         Activation(a, FALSE, listing.edition, [printed EXCEPT ![f] = @ + 1], missed),
         frames' = [frames EXCEPT ![Len(frames)] = a],
         printed' = [printed EXCEPT ![f] = @ + 1],
         listing' = AfterPrint(listing, f),
         UNCHANGED <<opened, missed>>
  PROVE  ListingInv'
<1>1. PICK l, s, P, M : /\ l = listing /\ s = frames /\ P = printed
                        /\ M = missed
  OBVIOUS
<1>2. PICK t, l2, P2 : /\ t = [s EXCEPT ![Len(s)] = a] /\ l2 = AfterPrint(l, f)
                       /\ P2 = [P EXCEPT ![f] = @ + 1]
  OBVIOUS
<1>3. ListOK(l, s, P, M) /\ opened = OpenNow(l, s)
  BY <1>1 DEF ListingInv
<1>4. /\ s # << >> /\ l.pc = "read" /\ a.dir = s[Len(s)].dir
      /\ f \in Children[a.dir] /\ P[f] = 0
      /\ Activation(a, FALSE, l.edition, P2, M)
  BY <1>1, <1>2
<1>5. ListOK(l2, t, P2, M) /\ OpenNow(l2, t) = OpenNow(l, s)
  <2>1. Activation(a, FALSE, l.edition, [P EXCEPT ![f] = @ + 1], M)
    BY <1>2, <1>4
  <2>2. PrintResult(l, s, P, M, a, f)
    BY <1>3, <1>4, <2>1, PrintStep
  <2> QED BY <1>2, <2>2 DEF PrintResult
<1>6. /\ frames' = t /\ listing' = l2 /\ printed' = P2 /\ missed' = M
      /\ opened' = opened
  BY <1>1, <1>2
<1> QED BY <1>3, <1>5, <1>6 DEF ListingInv

LEMMA PrintEntryKeeps ==
  ASSUME ListingInv, frames # << >>, PrintEntry PROVE ListingInv'
<1>1. PICK l, s, P, M : l = listing /\ s = frames /\ P = printed /\ M = missed
  OBVIOUS
<1>2. PICK a : a = s[Len(s)]
  OBVIOUS
<1>3. /\ ListOK(l, s, P, M) /\ s # << >> /\ l.pc = "read" /\ l.edition = "ls.c"
  BY <1>1 DEF ListingInv, PrintEntry
<1>4. /\ a \in Frames /\ a.dir \in Directories /\ Last(s) = a
      /\ Activation(a, FALSE, l.edition, P, M)
  BY <1>2, <1>3, TopFacts DEF Activation
<1>5. PICK f \in a.left \ {a.dir} :
         /\ printed' = [printed EXCEPT ![f] = @ + 1] /\ frames' = Without(f)
         /\ listing' = AfterPrint(listing, f)
  BY <1>1, <1>4 DEF PrintEntry, top, AfterPrint
<1>6. PICK b : b = [a EXCEPT !.left = @ \ {f}]
  OBVIOUS
<1>7. b \in Frames /\ b.dir = a.dir /\ b.left = a.left \ {f} /\ b.names = a.names
  BY <1>4, <1>6, LessLeft
<1>8. f \in Children[a.dir] /\ P[f] = 0 /\ f \notin M /\ f \in Files
  BY <1>4, <1>5 DEF Activation, Files
<1>9. PICK P2 : P2 = [P EXCEPT ![f] = @ + 1]
  OBVIOUS
<1>10. P2[f] = 1 /\ \A g \in Files : g # f => P2[g] = P[g]
  BY <1>3, <1>8, <1>9 DEF ListOK, ListTypes
<1>11. \A g \in Children[a.dir] : g \in Files
  BY <1>4 DEF Files
<1>12. Activation(b, FALSE, l.edition, P2, M)
  BY <1>3, <1>4, <1>7, <1>8, <1>10, <1>11 DEF Activation
<1>13. frames' = [frames EXCEPT ![Len(frames)] = b]
  BY <1>1, <1>2, <1>5, <1>6 DEF Without
<1>14. UNCHANGED <<opened, missed>>
  BY DEF PrintEntry
<1> QED BY <1>1, <1>2, <1>3, <1>5, <1>7, <1>8, <1>9, <1>12, <1>13, <1>14, PrintKeeps

LEMMA PrintNameKeeps ==
  ASSUME ListingInv, frames # << >>, NEW f \in Files, PrintName(f) PROVE ListingInv'
<1>1. PICK l, s, P, M : l = listing /\ s = frames /\ P = printed /\ M = missed
  OBVIOUS
<1>2. PICK a : a = s[Len(s)]
  OBVIOUS
<1>3. /\ ListOK(l, s, P, M) /\ s # << >> /\ l.pc = "read"
      /\ l.edition = "testing.c"
  BY <1>1 DEF ListingInv, PrintName, NextName
<1>4. /\ a \in Frames /\ a.dir \in Directories /\ Last(s) = a
      /\ Activation(a, FALSE, l.edition, P, M)
  BY <1>2, <1>3, TopFacts DEF Activation
<1>5. f \in a.names /\ \A g \in a.names : Rank[f] <= Rank[g]
  BY <1>1, <1>4 DEF PrintName, NextName, top, compare_names
<1>6. PICK b : b = [a EXCEPT !.names = @ \ {f}]
  OBVIOUS
<1>7. b \in Frames /\ b.dir = a.dir /\ b.left = a.left /\ b.names = a.names \ {f}
  BY <1>4, <1>6, LessNames
<1>8. f \in Children[a.dir] /\ P[f] = 0 /\ f \notin M
  BY <1>4, <1>5 DEF Activation
<1>9. PICK P2 : P2 = [P EXCEPT ![f] = @ + 1]
  OBVIOUS
<1>10. P2[f] = 1 /\ \A g \in Files : g # f => P2[g] = P[g]
  BY <1>3, <1>8, <1>9 DEF ListOK, ListTypes
<1>11. \A g \in Children[a.dir] : g \in Files
  BY <1>4 DEF Files
<1>12. Activation(b, FALSE, l.edition, P2, M)
  BY <1>3, <1>4, <1>5, <1>7, <1>8, <1>10, <1>11 DEF Activation
<1>13. frames' = [frames EXCEPT ![Len(frames)] = b]
  BY <1>1, <1>2, <1>6 DEF PrintName, AfterName
<1>14. /\ printed' = [printed EXCEPT ![f] = @ + 1] /\ listing' = AfterPrint(listing, f)
       /\ UNCHANGED <<opened, missed>>
  BY DEF PrintName, AfterPrint
<1> QED BY <1>1, <1>2, <1>3, <1>7, <1>8, <1>9, <1>12, <1>13, <1>14, PrintKeeps

LEMMA CloseAndSortKeeps ==
  ASSUME ListingInv, frames # << >>, CloseAndSort PROVE ListingInv'
<1>1. PICK l, s, P, M, M2 : /\ l = listing /\ s = frames /\ P = printed
                            /\ M = missed /\ M2 = missed'
  OBVIOUS
<1>2. PICK a : a = s[Len(s)]
  OBVIOUS
<1>3. /\ ListOK(l, s, P, M) /\ s # << >> /\ l.pc = "collect" /\ opened = OpenNow(l, s)
  BY <1>1 DEF ListingInv, CloseAndSort
<1>4. /\ a \in Frames /\ a.dir \in Directories /\ Last(s) = a /\ Visited(a.dir, l, P)
      /\ Activation(a, l.pc = "collect", l.edition, P, M)
  BY <1>2, <1>3, TopFacts
<1>5. PICK l2, b, t : /\ l2 = [l EXCEPT !.pc = "read"] /\ b = [a EXCEPT !.left = {}]
                      /\ t = [s EXCEPT ![Len(s)] = b]
  OBVIOUS
<1>6. /\ l \in ListStates /\ s \in Seq(Frames) /\ P \in [Files -> {0, 1}]
  BY <1>3 DEF ListOK, ListTypes
<1>7. /\ l2 \in ListStates /\ l2.edition = l.edition /\ l2.recursive = l.recursive
      /\ l2.pc = "read" /\ l2.result = l.result
  BY <1>5, <1>6 DEF ListStates
<1>8. b \in Frames /\ b.dir = a.dir /\ b.left = {} /\ b.names = a.names
  BY <1>4, <1>5 DEF Frames
<1>9. /\ listing' = l2 /\ frames' = t /\ printed' = P
      /\ M2 = M \cup (a.left \ {a.dir}) /\ opened' = opened \ {a.dir}
  BY <1>1, <1>2, <1>4, <1>5 DEF CloseAndSort, top
<1>10. Stack(l, s, P)
  BY <1>3 DEF ListOK
<1>11. /\ t # << >> /\ t[1].dir = s[1].dir /\ t[Len(t)].dir = s[Len(s)].dir
  BY <1>2, <1>3, <1>5, <1>6, <1>8, SameDirectories
<1>12. Stack(l2, t, P) /\ l.edition = "testing.c"
  BY <1>3, <1>7, <1>10, <1>11 DEF Stack
<1>13. Alike(l, l2, P, P)
  BY <1>3, <1>7 DEF Alike, Visited
<1>14. a.left \ {a.dir} \subseteq Children[a.dir] /\ a.dir \notin Children[a.dir]
  BY <1>4, TreeAssumption DEF Activation
<1>15. Activation(b, l2.pc = "collect", l2.edition, P, M2)
  <2>1. Activation(a, TRUE, l.edition, P, M)
    BY <1>3, <1>4 DEF Activation
  <2>2. \A f \in Children[a.dir] : P[f] = 0
    BY <1>12, <2>1 DEF Activation
  <2>3. ASSUME NEW f \in Children[a.dir], f \in a.names PROVE f \notin M2
    BY <1>9, <2>1, <2>3 DEF Activation
  <2>4. Activation(b, FALSE, l2.edition, P, M2)
    BY <1>7, <1>8, <1>9, <1>12, <1>14, <2>1, <2>2, <2>3 DEF Activation
  <2> QED BY <1>7, <2>4 DEF Activation
<1>16. ListOK(l2, t, P, M2)
  <2>1. /\ l2.pc # "done" /\ l.pc # "done" /\ b.dir = s[Len(s)].dir
        /\ \A f \in Files : f \notin Children[b.dir] => P[f] = P[f] /\ (f \in M2 <=> f \in M)
    BY <1>2, <1>3, <1>7, <1>8, <1>9, <1>14
  <2> QED BY <1>3, <1>5, <1>6, <1>7, <1>8, <1>12, <1>13, <1>15, <2>1, TopSteps
<1>17. OpenNow(l2, t) = opened'
  BY <1>2, <1>3, <1>7, <1>9, <1>12 DEF OpenNow
<1> QED BY <1>1, <1>9, <1>16, <1>17 DEF ListingInv

LEMMA StartKeeps ==
  ASSUME ListingInv, NEW e \in Listers, NEW r \in BOOLEAN, StartList(e, r)
  PROVE  ListingInv'
<1>1. PICK l, s, P, M : /\ l = listing /\ s = frames /\ P = printed
                        /\ M = missed
  OBVIOUS
<1>2. PICK l2 : l2 = [l EXCEPT !.pc = "open", !.edition = e, !.recursive = r]
  OBVIOUS
<1>3. /\ ListOK(l, s, P, M) /\ l.pc = "idle" /\ opened = OpenNow(l, s)
  BY <1>1 DEF ListingInv, StartList
<1>4. l \in ListStates /\ e \in {"ls.c", "testing.c"}
  BY <1>3, ListersAssumption DEF ListOK, ListTypes
<1>5. /\ l2 \in ListStates /\ l2.pc = "open" /\ l2.edition = e /\ l2.recursive = r
      /\ l2.target = l.target /\ l2.result = l.result
  BY <1>2, <1>4 DEF ListStates
<1>6. /\ listing' = l2 /\ frames' = s /\ printed' = P /\ missed' = M
      /\ opened' = opened
  BY <1>1, <1>2 DEF StartList
<1>7. s = << >>
  BY <1>3 DEF ListOK, Stack
<1>8. \A d : ~Visited(d, l, P)
  BY <1>3 DEF Visited
<1>9. Len(s) = 0 /\ l.target = Root
  BY <1>3, <1>7, EmptySeq DEF ListOK, Stack
<1>10. \A d \in Directories : Untouched(d, P, M)
  BY <1>3, <1>8 DEF ListOK, Elsewhere
<1>11. ListTypes(l2, s, P, M)
  <2>1. l.result # -1
    BY <1>3 DEF ListOK, ListTypes
  <2> QED BY <1>3, <1>5, <2>1 DEF ListOK, ListTypes
<1>12. Stack(l2, s, P)
  BY <1>5, <1>7, <1>9 DEF Stack
<1>13. Activations(l2, s, P, M)
  BY <1>9 DEF Activations
<1>14. Elsewhere(l2, s, P, M)
  <2>1. \A d \in Directories : ~Visited(d, l2, P)
    <3>1. P[Root] = 0
      BY <1>3 DEF ListOK, ListTypes
    <3>2. \A d \in Directories : d # Root => P[d] = 0
      <4>1. ASSUME NEW d \in Directories, d # Root PROVE P[d] = 0
        <5>1. PICK e2 \in Directories : d \in Children[e2]
          BY <4>1, TreeAssumption DEF Files
        <5> QED BY <1>10, <5>1 DEF Untouched
      <4> QED BY <4>1
    <3> QED BY <1>5, <1>9, <3>2 DEF Visited
  <2> QED BY <1>10, <2>1 DEF Elsewhere
<1>15. OpenNow(l, s) = {} /\ OpenNow(l2, s) = {}
  BY <1>3, <1>5, <1>9 DEF OpenNow
<1> QED BY <1>3, <1>6, <1>11, <1>12, <1>13, <1>14, <1>15 DEF ListingInv, ListOK

(* Every step of list keeps it.                                            *)
THEOREM NextListing == ListingInv /\ [ListNext]_listVars => ListingInv'
<1> SUFFICES ASSUME ListingInv, [ListNext]_listVars PROVE ListingInv'
  OBVIOUS
<1>1. PICK l, s, P, M, M2 : /\ l = listing /\ s = frames /\ P = printed
                            /\ M = missed /\ M2 = missed'
  OBVIOUS
<1>2. /\ ListOK(l, s, P, M) /\ opened = OpenNow(l, s)
  BY <1>1 DEF ListingInv
<1>3. l.pc \in {"read", "collect"} => s # << >>
  BY <1>2 DEF ListOK, Stack
<1>4. PICK a : a = s[Len(s)]
  OBVIOUS
<1>5. l.pc \in {"read", "collect"} =>
        /\ a \in Frames /\ a.dir \in Directories /\ Last(s) = a /\ top = a
        /\ Activation(a, l.pc = "collect", l.edition, P, M)
  BY <1>1, <1>2, <1>3, <1>4, TopFacts DEF top
<1>6. CASE UNCHANGED listVars
  <2>1. /\ listing' = l /\ frames' = s /\ printed' = P /\ missed' = M
        /\ opened' = opened
    BY <1>1, <1>6 DEF listVars
  <2> QED BY <1>2, <2>1 DEF ListingInv
<1>7. ASSUME l.pc \in {"read", "collect"}, M2 = M \cup Undone(a)
      PROVE  /\ Dealt(a.dir, P, M2)
             /\ \A f \in Files : f \notin Children[a.dir] => (f \in M2 <=> f \in M)
             /\ a.left \ {a.dir} # {} => Lacking(a.dir, M2)
  <2>1. Undone(a) = (a.left \cup a.names) \ {a.dir} /\ Undone(a) \subseteq Children[a.dir]
    BY <1>5, <1>7 DEF Undone, Activation
  <2>2. Dealt(a.dir, P, M2)
    <3>1. a.dir \notin Children[a.dir]
      BY <1>5, <1>7, TreeAssumption
    <3> QED BY <1>5, <1>7, <2>1, <3>1 DEF Dealt, Activation
  <2>3. a.left \ {a.dir} # {} => Children[a.dir] \cap M2 # {}
    BY <1>7, <2>1
  <2> QED BY <1>7, <2>1, <2>2, <2>3 DEF Lacking
<1>8. ASSUME NEW f \in Files, LstatFailsName(f) PROVE ListingInv'
  BY <1>1, <1>3, <1>8, LstatFailsNameKeeps DEF LstatFailsName, NextName
<1>9. ASSUME NEW f \in Files, PrintName(f) PROVE ListingInv'
  BY <1>1, <1>3, <1>9, PrintNameKeeps DEF PrintName, NextName
<1>10. ASSUME NEW e \in Listers, NEW r \in BOOLEAN, StartList(e, r) PROVE ListingInv'
  BY <1>10, StartKeeps
<1>11. CASE OpenDirectory
  BY <1>11, OpenKeeps
<1>12. CASE SkipDot
  <2>1. /\ l.pc \in {"read", "collect"} /\ a.dir \in a.left /\ frames' = Without(a.dir)
        /\ UNCHANGED <<listing, opened, printed, missed>>
    BY <1>1, <1>5, <1>12 DEF SkipDot
  <2> QED BY <1>1, <1>3, <1>4, <2>1, WithoutKeeps
<1>13. CASE NoMemory
  <2>1. /\ l.pc \in {"read", "collect"} /\ a.left \ {a.dir} # {}
        /\ ReturnFrom(Front(frames), -1) /\ opened' = opened \ {a.dir}
        /\ M2 = M \cup Undone(a) /\ UNCHANGED printed
    BY <1>1, <1>5, <1>13 DEF NoMemory
  <2>2. /\ Dealt(a.dir, P, M2) /\ Lacking(a.dir, M2)
        /\ \A f \in Files : f \notin Children[a.dir] => (f \in M2 <=> f \in M)
    BY <1>7, <2>1
  <2> QED BY <1>1, <1>3, <1>4, <2>1, <2>2, ReturnKeeps
<1>14. CASE LstatFails
  <2>1. PICK f : /\ f \in a.left /\ f # a.dir /\ frames' = Without(f)
                 /\ missed' = missed \cup {f}
                 /\ l.pc = "read" /\ l.edition = "ls.c"
                 /\ UNCHANGED <<listing, opened, printed>>
    BY <1>1, <1>5, <1>14 DEF LstatFails
  <2> QED BY <1>1, <1>3, <1>4, <2>1, WithoutKeeps
<1>15. CASE PrintEntry
  BY <1>1, <1>3, <1>15, PrintEntryKeeps DEF PrintEntry
<1>16. CASE CloseDirectory
  <2>1. /\ l.pc \in {"read", "collect"}
        /\ ReturnFrom(Front(frames), 0) /\ opened' = opened \ {a.dir}
        /\ M2 = M \cup Undone(a) /\ UNCHANGED printed
    BY <1>1, <1>5, <1>16 DEF CloseDirectory
  <2>2. /\ Dealt(a.dir, P, M2)
        /\ \A f \in Files : f \notin Children[a.dir] => (f \in M2 <=> f \in M)
    BY <1>7, <2>1
  <2> QED BY <1>1, <1>3, <1>4, <2>1, <2>2, ReturnKeeps
<1>17. CASE CollectName
  BY <1>1, <1>3, <1>17, CollectKeeps DEF CollectName
<1>18. CASE CloseAndSort
  BY <1>1, <1>3, <1>18, CloseAndSortKeeps DEF CloseAndSort
<1>19. CASE EndOfNames
  <2>1. /\ l.pc = "read" /\ l.edition = "testing.c" /\ a.names = {}
        /\ ReturnFrom(Front(frames), 0) /\ UNCHANGED <<opened, printed, missed>>
    BY <1>1, <1>5, <1>19 DEF EndOfNames
  <2>2. Dealt(a.dir, P, M2) /\ M2 = M
    BY <1>1, <1>5, <2>1 DEF Activation, Dealt
  <2> QED BY <1>1, <1>3, <1>4, <2>1, <2>2, ReturnKeeps
<1> QED BY <1>6, <1>8, <1>9, <1>10, <1>11, <1>12, <1>13, <1>14, <1>15, <1>16, <1>17,
           <1>18, <1>19 DEF ListNext, ListStep

(* For any tree, and whatever calls fail, list prints every entry of the   *)
(* directories it came to once, but for those that a failed call has cost, *)
(* in testing.c in order, and leaves nothing open.  That its result is 0   *)
(* does not say that nothing was lost.                                     *)
THEOREM ListingAlwaysRight == ListSpec => []ListingRight
<1>1. ListingInv => ListingRight
  <2> SUFFICES ASSUME ListingInv PROVE ListingRight
    OBVIOUS
  <2>1. PICK l, s, P, M : l = listing /\ s = frames /\ P = printed /\ M = missed
    OBVIOUS
  <2>2. /\ ListTypes(l, s, P, M) /\ Stack(l, s, P) /\ Activations(l, s, P, M)
        /\ Elsewhere(l, s, P, M) /\ opened = OpenNow(l, s)
    BY <2>1 DEF ListingInv, ListOK
  <2>3. s = << >> => \A d : ~OnStack(d, s)
    BY EmptySeq DEF OnStack
  <2>4. \A f \in Files : f # Root => \E d \in Directories : f \in Children[d]
    BY DEF Files
  <2>5. ListedOnce
    <3>1. \A f \in Files : P[f] <= 1
      BY <2>2 DEF ListTypes
    <3>2. l.pc = "done" =>
            /\ \A d : ~OnStack(d, s)
            /\ \A d \in Directories : Visited(d, l, P) <=> d \in Reached
      <4>1. \A d \in Directories : P[d] > 0 <=> P[d] = 1
        BY <2>2, TreeAssumption DEF ListTypes
      <4> QED BY <2>1, <2>2, <2>3, <4>1 DEF Stack, Visited, Reached
    <3>3. ASSUME l.pc = "done", NEW d \in Reached, NEW f \in Children[d]
          PROVE  P[f] = 1 <=> f \notin M
      <4>1. d \in Directories
        BY <3>3 DEF Reached
      <4> QED BY <2>2, <3>2, <3>3, <4>1 DEF Elsewhere, Dealt
    <3>4. ASSUME l.pc = "done", NEW f \in Files, P[f] = 1
          PROVE  \E d \in Reached : f \in Children[d]
      <4>1. f # Root
        BY <2>2, <3>4 DEF ListTypes
      <4>2. PICK d \in Directories : f \in Children[d]
        BY <2>4, <4>1
      <4>3. Visited(d, l, P)
        BY <2>2, <3>4, <4>2 DEF Elsewhere, Untouched
      <4> QED BY <3>2, <3>4, <4>2, <4>3
    <3>5. l.pc = "done" /\ l.result = -1 /\ Children[Root] # {} =>
            Children[Root] \cap M # {}
      BY <2>2 DEF ListTypes, Lacking
    <3> QED BY <2>1, <3>1, <3>3, <3>4, <3>5 DEF ListedOnce
  <2>6. DirectoriesClosed
    <3>1. l.pc = "done" => s = << >> /\ OpenNow(l, s) = {}
      <4>1. l.pc = "done" => s = << >>
        BY <2>2 DEF Stack
      <4>2. Len(<< >>) = 0
        BY EmptySeq
      <4> QED BY <4>1, <4>2 DEF OpenNow
    <3> QED BY <2>1, <2>2, <3>1 DEF DirectoriesClosed
  <2>7. SortedAndFlat
    <3> SUFFICES ASSUME l.edition = "testing.c"
                 PROVE  /\ Cardinality(opened) <= 1
                        /\ \A d \in Directories : \A f, g \in Children[d] :
                              Rank[f] < Rank[g] /\ P[g] > 0 => P[f] = 1 \/ f \in M
      BY <2>1 DEF SortedAndFlat
    <3>1. Cardinality(opened) <= 1
      <4>1. opened = {} \/ \E d : opened = {d}
        BY <2>2 DEF OpenNow
      <4>2. opened = {} => Cardinality(opened) = 0
        BY FS_EmptySet, Zenon
      <4>3. \A d : opened = {d} => Cardinality(opened) = 1
        BY FS_Singleton, Zenon
      <4> QED BY <4>1, <4>2, <4>3
    <3>2. ASSUME NEW d \in Directories, NEW f \in Children[d], NEW g \in Children[d],
                 Rank[f] < Rank[g], P[g] > 0
          PROVE  P[f] = 1 \/ f \in M
      <4>1. f \in Files /\ g \in Files
        BY DEF Files
      <4>2. P[g] = 1 /\ Rank[f] \in Int /\ Rank[g] \in Int
        BY <2>2, <3>2, <4>1, ListersAssumption DEF ListTypes
      <4>3. Visited(d, l, P)
        BY <2>2, <4>2 DEF Elsewhere, Untouched
      <4>4. CASE ~OnStack(d, s)
        BY <2>2, <3>2, <4>3, <4>4 DEF Elsewhere, Dealt
      <4>5. CASE OnStack(d, s)
        <5>1. PICK i \in 1 .. Len(s) : s[i].dir = d
          BY <4>5 DEF OnStack
        <5>2. Activation(s[i], l.pc = "collect" /\ i = Len(s), l.edition, P, M)
          BY <2>2, <5>1 DEF Activations
        <5>3. CASE l.pc = "collect" /\ i = Len(s)
          BY <4>2, <5>1, <5>2, <5>3 DEF Activation
        <5>4. CASE ~(l.pc = "collect" /\ i = Len(s))
          <6>1. s[i].left = {} /\ (f \notin s[i].names => (P[f] = 1 <=> f \notin M))
            BY <3>2, <5>1, <5>2, <5>4 DEF Activation
          <6>2. f \in s[i].names => Rank[g] <= Rank[f]
            BY <4>2, <5>1, <5>2, <5>4 DEF Activation
          <6> QED BY <3>2, <4>2, <6>1, <6>2
        <5> QED BY <5>3, <5>4
      <4> QED BY <4>4, <4>5
    <3> QED BY <3>1, <3>2
  <2> QED BY <2>5, <2>6, <2>7 DEF ListingRight
<1> QED BY <1>1, InitListing, NextListing, PTL DEF ListSpec
-----------------------------------------------------------------------------
(* A behaviour in which one of the programs runs is one of each of these:  *)
(* the others do nothing in it.  What holds of a program alone thus holds  *)
(* of it there.                                                            *)
THEOREM EachProgramRuns == ProgramsSpec => CopySpec /\ ExecSpec /\ PipelineSpec /\ ListSpec
<1>1. ProgramsInit => CopyInit /\ ExecInit /\ PipelineInit /\ ListInit
  BY DEF ProgramsInit, SystemInit
<1>2. [ProgramsNext]_programsVars => [SystemNext]_systemVars
  BY DEF ProgramsNext, programsVars
<1>3. [SystemNext]_systemVars =>
        /\ [CopyNext]_copyVars /\ [ExecNext]_execVars
        /\ [PipelineNext]_pipelineVars /\ [ListNext]_listVars
  BY DEF SystemNext, systemVars
<1> QED BY <1>1, <1>2, <1>3, PTL
        DEF ProgramsSpec, SystemFairness, CopySpec, ExecSpec, PipelineSpec, ListSpec

(* So what was proved of each of them, with the exceptions that it names,  *)
(* holds in every behaviour of the whole.                                  *)
THEOREM SystemAlwaysRight ==
    ProgramsSpec => /\ [](CopyRight /\ ExecRight /\ PipelineRight /\ ListingRight)
                    /\ OnlyCreatorWrites
BY EachProgramRuns, CopyAlwaysRight, ExecAlwaysRight, PipelineAlwaysRight,
   ListingAlwaysRight, OnlyCreatorAlwaysWrites, PTL
=============================================================================

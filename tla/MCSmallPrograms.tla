-------------------------- MODULE MCSmallPrograms --------------------------
(* Two copies of files of up to four bytes in blocks of one or two bytes,  *)
(* or of 4096; two callers of execute; a pipe that is full with one chunk; *)
(* a tree of directories three deep; three threads at a buffer of two;     *)
(* three tasks; traces of up to five accesses to three pages; and strings  *)
(* of up to three characters.                                              *)
EXTENDS SmallPrograms, TLC

MCContents == {<<>>, <<0>>, <<1, 0, 0, 1>>, <<0, 1, 1>>, <<1, 1, 0>>}
MCCommandLines == {[options |-> <<2>>, operands |-> 2],
                   [options |-> << >>, operands |-> 2],
                   [options |-> <<1, 0>>, operands |-> 2],
                   [options |-> <<2, 1>>, operands |-> 2],
                   [options |-> <<2>>, operands |-> 1]}

MCPrograms == {[error |-> 0, exit |-> 127], [error |-> 0, exit |-> Killed],
               [error |-> 0, exit |-> Forever], [error |-> 2, exit |-> 0]}

MCChildren == "root" :> {"file", "sub", "link", "other"} @@
              "sub" :> {"inner", "subsub"} @@ "subsub" :> {"innermost"} @@ "other" :> {"note"}
MCRank == "root" :> 0 @@ "file" :> 1 @@ "sub" :> 3 @@ "link" :> 2 @@ "other" :> 4 @@
          "inner" :> 2 @@ "subsub" :> 1 @@ "innermost" :> 0 @@ "note" :> 0

(* Traces that differ only in the names of the pages are the same: a page  *)
(* that is new is the next one.  The first line is one of lackey's others. *)
Lists(n)     == [1 .. n -> 0 .. 2]
Canonical(s) == \A i \in DOMAIN s :
                   s[i] = 0 \/ \E j \in 1 .. i - 1 : s[j] = s[i] - 1
Lines(s)     == <<[parts |-> 7, kind |-> "==", address |-> 0]>> \o
                [i \in DOMAIN s |-> [parts |-> 2, kind |-> IF i = 1 THEN "I" ELSE "L",
                                     address |-> (4 * s[i]) + (i % 4)]]
MCTraces     == {Lines(s) : s \in {x \in Lists(0) \cup Lists(3) \cup Lists(5) :
                                      Canonical(x)}}
MCPolicies   == <<"FIFO", "LRU", "RAND", "OPT">>

MCStrings    == UNION {[1 .. n -> {0, 1, 7, 8, 10}] : n \in 0 .. 3}
=============================================================================

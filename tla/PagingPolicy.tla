---------------------------- MODULE PagingPolicy ----------------------------
(***************************************************************************)
(* The paging experiment of assignment 6.  sim-paging.py turns a memory    *)
(* trace into a list of pages, writes it to a file without repetitions,    *)
(* and has paging-policy.py simulate each policy at each memory size.      *)
(* paging-policy.py can also be started by hand, with a list of pages on   *)
(* its command line, whose pages it keeps as strings.                      *)
(***************************************************************************)
EXTENDS Integers, Sequences, SequencesExt, FiniteSetsExt

CONSTANTS Traces,      \* the lines of the trace files
          PageSize,    \* 4096 in the code
          Policies,    \* those of run_simulations, in this order
          ByHand,      \* the policies started by hand
          ClockBits

PolicyNames == {"FIFO", "LRU", "MRU", "RAND", "CLOCK", "OPT", "UNOPT"}

ASSUME PagingAssumption ==
          /\ \A lines \in Traces :
                lines \in Seq([parts : Nat, kind : STRING, address : Nat])
          /\ PageSize \in Nat \ {0} /\ ClockBits \in Nat \ {0}
          /\ Policies \in Seq(PolicyNames) /\ IsInjective(Policies)
          /\ ByHand \subseteq PolicyNames

VARIABLES
    stage,    \* what sim-paging.py does
    pages,    \* the list of get_page_list
    output,   \* the file of export_page_trace, or NoOutput
    queue,    \* the simulations still to be run, pairs of size and policy
    results,  \* the number of page faults of each simulation
    sim       \* the simulation that runs, or NoSim

pagingVars == <<stage, pages, output, queue, results, sim>>

NoOutput == <<-1>>
NoSim == [policy |-> "none", asStrings |-> FALSE, addrList |-> << >>, size |-> 0,
          memory |-> << >>, ref |-> << >>, addrIndex |-> 0, miss |-> 0]

PagingInit == /\ stage = "idle"
              /\ pages = << >>
              /\ output = NoOutput
              /\ queue = << >>
              /\ results = << >>
              /\ sim = NoSim

-----------------------------------------------------------------------------
(* sim-paging.py                                                           *)

(* get_page_list: the pages of the lines of two parts whose kind is a part *)
(* of the string "ILMS".                                                   *)
IsAccess(line) == /\ line.parts = 2
                  /\ line.kind \in {"I", "L", "M", "S", "IL", "LM", "MS",
                                    "ILM", "LMS", "ILMS"}

get_page_list(lines) ==
    LET list[i \in 0 .. Len(lines)] ==
          IF i = 0 THEN << >>
          ELSE IF IsAccess(lines[i])
            THEN Append(list[i - 1], lines[i].address \div PageSize)
            ELSE list[i - 1]
    IN  list[Len(lines)]

Load(lines) == /\ stage \in {"idle", "done"} /\ sim = NoSim
               /\ pages' = get_page_list(lines)
               /\ stage' = "export"
               /\ results' = << >>
               /\ UNCHANGED <<output, queue, sim>>

(* A page is left out when it is the one before it.                        *)
Dedup(list) ==
    LET new[i \in 0 .. Len(list)] ==
          IF i = 0 THEN << >>
          ELSE IF i > 1 /\ list[i] = list[i - 1] THEN new[i - 1]
                                                ELSE Append(new[i - 1], list[i])
    IN  new[Len(list)]

(* export_page_trace leaves the file alone when there are no pages.        *)
export_page_trace == /\ stage = "export"
                     /\ output' = IF pages = << >> THEN output ELSE Dedup(pages)
                     /\ stage' = "sizes"
                     /\ UNCHANGED <<pages, queue, results, sim>>

(* run_simulations: every size up to the number of different pages, and    *)
(* at each size every policy.  Without a file it fails.                    *)
Sizes(list) == 1 .. Cardinality(Range(list))

run_simulations ==
    /\ stage = "sizes"
    /\ IF output = NoOutput
         THEN stage' = "done" /\ UNCHANGED queue
         ELSE /\ stage' = "run"
              /\ queue' = [i \in 1 .. Cardinality(Sizes(output)) * Len(Policies) |->
                             <<1 + ((i - 1) \div Len(Policies)),
                               Policies[1 + ((i - 1) % Len(Policies))]>>]
    /\ UNCHANGED <<pages, output, results, sim>>

StartSimulation(policy, list, asStrings, size) ==
    sim' = [NoSim EXCEPT !.policy = policy, !.addrList = list,
                         !.asStrings = asStrings, !.size = size]

(* simulate_page_replacement starts the other program and collects the     *)
(* number of misses that it prints.                                        *)
StartNext == /\ stage = "run" /\ sim = NoSim /\ queue # << >>
             /\ StartSimulation(Head(queue)[2], output, FALSE, Head(queue)[1])
             /\ UNCHANGED <<stage, pages, output, queue, results>>

Finished == sim # NoSim /\ sim.addrIndex = Len(sim.addrList)

Collect == /\ stage = "run" /\ Finished
           /\ results' = Append(results, [size |-> sim.size, policy |-> sim.policy,
                                          faults |-> sim.miss])
           /\ queue' = Tail(queue)
           /\ sim' = NoSim
           /\ UNCHANGED <<stage, pages, output>>

AllRun == /\ stage = "run" /\ sim = NoSim /\ queue = << >>
          /\ stage' = "done"
          /\ UNCHANGED <<pages, output, queue, results, sim>>

StartByHand(policy, list, size) ==
    /\ stage = "idle" /\ sim = NoSim
    /\ stage' = "by hand"
    /\ StartSimulation(policy, list, TRUE, size)
    /\ UNCHANGED <<pages, output, queue, results>>

-----------------------------------------------------------------------------
(* paging-policy.py                                                        *)

SimStep == sim # NoSim /\ ~Finished
driver  == <<stage, pages, output, queue, results>>

page  == sim.addrList[sim.addrIndex + 1]
Hit   == page \in Range(sim.memory)
Full  == Len(sim.memory) = sim.size

(* Mutated: the search begins one access too late.                         *)
NextUseTooLate(p) ==
    LET uses == {i \in sim.addrIndex + 2 .. Len(sim.addrList) - 1 :
                    ~sim.asStrings /\ sim.addrList[i + 1] = p}
    IN  IF uses = {} THEN Len(sim.addrList) ELSE Min(uses)

(* Pages of the list on the command line are strings there and numbers in  *)
(* memory, which list.index never finds equal.                             *)
NextUseByIndex(p) ==
    LET uses == {i \in sim.addrIndex + 1 .. Len(sim.addrList) - 1 :
                    ~sim.asStrings /\ sim.addrList[i + 1] = p}
    IN  IF uses = {} THEN Len(sim.addrList) ELSE Min(uses)

NextUse(p) ==
    LET uses == {i \in sim.addrIndex + 1 .. Len(sim.addrList) - 1 :
                    sim.addrList[i + 1] = p}
    IN  IF uses = {} THEN Len(sim.addrList) ELSE Min(uses)

(* The places in memory a policy may evict: OPT takes the last of those    *)
(* used latest, UNOPT the first of those used soonest.                     *)
Victims ==
    LET m == sim.memory IN
    CASE sim.policy \in {"FIFO", "LRU"} -> {1}
      [] sim.policy = "MRU"             -> {Len(m)}
      [] sim.policy = "RAND"            -> DOMAIN m
      [] sim.policy = "CLOCK"           -> {i \in DOMAIN m : sim.ref[m[i]] = 0}
      [] sim.policy = "OPT" ->
            {Max({i \in DOMAIN m : \A j \in DOMAIN m :
                       NextUseByIndex(m[j]) <= NextUseByIndex(m[i])})}
      [] sim.policy = "UNOPT" ->
            {Min({i \in DOMAIN m : \A j \in DOMAIN m :
                       NextUse(m[i]) <= NextUse(m[j])})}

(* The reference count of the page is raised, up to clockbits.             *)
Referenced(ref) ==
    [p \in DOMAIN ref \cup {page} |->
        IF p = page THEN IF p \in DOMAIN ref THEN Min({ref[p] + 1, ClockBits}) ELSE 1
                    ELSE ref[p]]

Advance(memory, ref, miss) ==
    sim' = [sim EXCEPT !.memory = memory, !.ref = Referenced(ref),
                       !.addrIndex = @ + 1, !.miss = miss]

(* Mutated: a hit leaves the page where it is, with any policy.            *)
HitInPlace == /\ SimStep /\ Hit
              /\ Advance(sim.memory, sim.ref, sim.miss)
              /\ UNCHANGED driver

(* A hit: LRU and MRU move the page to the end.                            *)
AccessHit ==
    /\ SimStep /\ Hit
    /\ Advance(IF sim.policy \in {"LRU", "MRU"}
                 THEN Append(RemoveFirst(sim.memory, page), page) ELSE sim.memory,
               sim.ref, sim.miss)
    /\ UNCHANGED driver

AccessMiss == /\ SimStep /\ ~Hit /\ ~Full
              /\ Advance(Append(sim.memory, page), sim.ref, sim.miss + 1)
              /\ UNCHANGED driver

(* CLOCK looks at pages at random and takes the count of those it spares   *)
(* down.                                                                   *)
ClockScan == /\ SimStep /\ ~Hit /\ Full /\ sim.policy = "CLOCK"
             /\ \E i \in DOMAIN sim.memory :
                   /\ sim.ref[sim.memory[i]] >= 1
                   /\ sim' = [sim EXCEPT !.ref[sim.memory[i]] = @ - 1]
             /\ UNCHANGED driver

(* The victim leaves, and with CLOCK its count.                            *)
Replace ==
    /\ SimStep /\ ~Hit /\ Full
    /\ \E i \in Victims :
          LET left == DOMAIN sim.ref \ (IF sim.policy = "CLOCK" THEN {sim.memory[i]}
                                                                ELSE {}) IN
          Advance(Append(RemoveAt(sim.memory, i), page),
                  [p \in left |-> sim.ref[p]], sim.miss + 1)
    /\ UNCHANGED driver

AccessStep == AccessHit \/ AccessMiss \/ ClockScan \/ Replace
DriverStep == export_page_trace \/ run_simulations \/ StartNext \/ Collect \/ AllRun

PagingNext == \/ \E lines \in Traces : Load(lines)
              \/ \E policy \in ByHand, lines \in Traces :
                    \E size \in Sizes(get_page_list(lines)) :
                       StartByHand(policy, get_page_list(lines), size)
              \/ DriverStep \/ AccessStep

PagingFairness == WF_pagingVars(DriverStep) /\ WF_pagingVars(AccessStep)

PagingSpec == PagingInit /\ [][PagingNext]_pagingVars /\ PagingFairness

-----------------------------------------------------------------------------
Seen    == {sim.addrList[i] : i \in 1 .. sim.addrIndex}
Used(p) == Max({i \in 1 .. sim.addrIndex : sim.addrList[i] = p})

(* Memory holds different pages, no more than its size, and nothing is     *)
(* evicted while there is room.  With CLOCK, the counts are those of the   *)
(* pages in memory, so that a scan ends.                                   *)
MemorySound ==
    sim # NoSim =>
        /\ IsInjective(sim.memory)
        /\ Len(sim.memory) = Min({sim.size, Cardinality(Seen)})
        /\ Range(sim.memory) \subseteq Seen
        /\ DOMAIN sim.ref = IF sim.policy = "CLOCK" THEN Range(sim.memory) ELSE Seen
        /\ \A p \in DOMAIN sim.ref : sim.ref[p] \in 0 .. ClockBits

(* LRU keeps the pages used last, in the order of their last use.          *)
LruKeepsRecent ==
    sim.policy = "LRU" =>
        /\ \A i, j \in DOMAIN sim.memory :
              i < j => Used(sim.memory[i]) < Used(sim.memory[j])
        /\ \A p \in Seen \ Range(sim.memory), q \in Range(sim.memory) : Used(p) < Used(q)

(* The faults of LRU by definition: a page is missed that was not used     *)
(* before, or since whose last use as many others were used as there is    *)
(* room for.                                                               *)
LruFaults(list, size) ==
    LET since(i, j)  == {list[k] : k \in j + 1 .. i - 1}
        inMemory(i)  == \E j \in 1 .. i - 1 : /\ list[j] = list[i]
                                              /\ list[i] \notin since(i, j)
                                              /\ Cardinality(since(i, j)) < size
    IN  Cardinality({i \in DOMAIN list : ~inMemory(i)})

(* The fewest faults with which any choice of victims gets through a list. *)
MinFaults(list, size) ==
    LET best[at \in (1 .. Len(list) + 1) \X SUBSET Range(list)] ==
            LET i == at[1]
                m == at[2]
            IN  IF i > Len(list) THEN 0
                ELSE IF list[i] \in m THEN best[<<i + 1, m>>]
                ELSE IF Cardinality(m) < size THEN 1 + best[<<i + 1, m \cup {list[i]}>>]
                ELSE 1 + Min({best[<<i + 1, (m \ {v}) \cup {list[i]}>>] : v \in m})
    IN  best[<<1, {}>>]

(* The faults of LRU and OPT on the file, from which repetitions were      *)
(* removed, are those that the definitions give for the whole trace, which *)
(* was not simulated.  Run by hand with a list on the command line, OPT    *)
(* may do worse, as it finds no page in the list.                          *)
OfTrace == Finished /\ stage = "run" /\ pages # << >>

LruFaultsOfTrace == OfTrace /\ sim.policy = "LRU" =>
                       sim.miss = LruFaults(pages, sim.size)
OptFaultsOfTrace == OfTrace /\ sim.policy = "OPT" =>
                       sim.miss = MinFaults(pages, sim.size)

Faults(policy, size) ==
    {results[i].faults : i \in {k \in DOMAIN results : /\ results[k].policy = policy
                                                       /\ results[k].size = size}}

(* The curves of the plot: there is one value for each policy and size,    *)
(* none is below that of OPT, those of LRU and OPT do not rise with the    *)
(* size, and where all pages have room each is missed once.                *)
CurvesRight ==
    stage = "done" /\ results # << >> =>
        LET all == Cardinality(Range(output)) IN
        \A n \in 1 .. all : \A i \in DOMAIN Policies :
            LET policy == Policies[i] IN
            /\ Cardinality(Faults(policy, n)) = 1
            /\ \A f \in Faults(policy, n), o \in Faults("OPT", n) : o <= f
            /\ policy \in {"LRU", "OPT"} =>
                  \A f \in Faults(policy, n), g \in Faults(policy, n + 1) : g <= f
            /\ n = all => Faults(policy, n) = {all}

(* The memory of a simulation is what the definition of its policy says,   *)
(* and LRU misses the pages of the trace that its definition says.         *)
MemoryRight == MemorySound /\ LruKeepsRecent /\ LruFaultsOfTrace

(* OPT makes the fewest faults that can be, and the curves are as they     *)
(* should be.                                                              *)
FaultsRight == OptFaultsOfTrace /\ CurvesRight

(* Every simulation has ended, those of CLOCK included, and so has the run *)
(* over all sizes.                                                         *)
SimulationsEnded == (sim # NoSim => Finished) /\ stage # "run"
=============================================================================

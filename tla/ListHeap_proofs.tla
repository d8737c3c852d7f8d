--------------------------- MODULE ListHeap_proofs ---------------------------
(***************************************************************************)
(* The allocators of ListHeap, for every heap, header and set of requests, *)
(* under every sequence of calls and changes of strategy: the list holds   *)
(* the memory that is not in use, the search takes the block that its      *)
(* strategy names, the reports are right, and the application is served as *)
(* MemoryService promises.                                                 *)
(***************************************************************************)
EXTENDS ListHeap, WellFoundedInduction, FiniteSetTheorems, TLAPS

-----------------------------------------------------------------------------
(* Induction, as sets: what holds of 0 and of i if it holds of i - 1 holds *)
(* up to n; what holds of b if it holds of all above b holds of all.       *)
Below == {ss \in Nat \X Nat : ss[1] < ss[2]}

LEMMA Least ==
  ASSUME NEW S \in SUBSET Nat, S # {}
  PROVE  \E m \in S : \A k \in S : m <= k
<1>1. IsWellFoundedOn(Below, Nat)
  BY NatLessThanWellFounded DEF OpToRel, Below
<1>2. PICK x \in S : \A y \in S : ~ (<<y, x>> \in Below)
  BY <1>1, WFMin
<1>3. \A k \in S : k < x => <<k, x>> \in Below
  BY DEF Below
<1>4. \A k \in S : k \in Nat /\ x \in Nat /\ ~(k < x)
  BY <1>2, <1>3
<1>5. \A k \in S : x <= k
  BY <1>4
<1> QED BY <1>5

LEMMA Upward ==
  ASSUME NEW n \in Nat, NEW S, 0 \in S,
         \A i \in 1 .. n : i - 1 \in S => i \in S
  PROVE  0 .. n \subseteq S
<1> DEFINE D == (0 .. n) \ S
<1>1. SUFFICES ASSUME D # {} PROVE FALSE
  OBVIOUS
<1>2. PICK m \in D : \A k \in D : m <= k
  <2>1. D \in SUBSET Nat
    OBVIOUS
  <2> HIDE DEF D
  <2> QED BY <1>1, <2>1, Least
<1>3. m \in 1 .. n /\ m - 1 \in 0 .. n
  BY <1>2
<1>4. m - 1 \in S
  BY <1>2, <1>3
<1> QED BY <1>2, <1>3, <1>4

LEMMA Downward ==
  ASSUME NEW n \in Nat, NEW S,
         \A b \in 0 .. n - 1 : (\A c \in 0 .. n - 1 : b < c => c \in S) => b \in S
  PROVE  0 .. n - 1 \subseteq S
<1> DEFINE K == {i \in Nat : \A b \in 0 .. n - 1 : b >= n - i => b \in S}
<1>1. 0 \in K
  OBVIOUS
<1>2. ASSUME NEW i \in 1 .. n, i - 1 \in K
      PROVE  i \in K
  <2> SUFFICES ASSUME NEW b \in 0 .. n - 1, b >= n - i PROVE b \in S
    OBVIOUS
  <2>1. \A c \in 0 .. n - 1 : b < c => c >= n - (i - 1)
    OBVIOUS
  <2>2. \A c \in 0 .. n - 1 : b < c => c \in S
    BY <2>1, <1>2
  <2> QED BY <2>2
<1>3. n \in K
  <2> HIDE DEF K
  <2> QED BY <1>1, <1>2, Upward
<1> QED BY <1>3

(* A loop over 1 .. n, and a walk to ever higher addresses, are functions. *)
Looping(n, S, z, step) == /\ n \in Nat /\ z \in S
                          /\ step \in [(1 .. n) \X S -> S]
Loops(n, S, z, step) ==
    \E f \in [0 .. n -> S] : /\ f[0] = z
                             /\ \A i \in 1 .. n : f[i] = step[<<i, f[i - 1]>>]

LEMMA LoopExists ==
  ASSUME NEW n, NEW S, NEW z, NEW step, Looping(n, S, z, step)
  PROVE  Loops(n, S, z, step)
<1> USE DEF Looping
<1> DEFINE Upto(f, k) == /\ f[0] = z
                         /\ \A i \in 1 .. k : f[i] = step[<<i, f[i - 1]>>]
           K == {k \in 0 .. n : \E f \in [0 .. n -> S] : Upto(f, k)}
<1>1. 0 \in K
  <2>1. Upto([i \in 0 .. n |-> z], 0)
    OBVIOUS
  <2>2. [i \in 0 .. n |-> z] \in [0 .. n -> S]
    OBVIOUS
  <2> HIDE DEF Upto
  <2> QED BY <2>1, <2>2
<1>2. ASSUME NEW k \in 1 .. n, k - 1 \in K
      PROVE  k \in K
  <2>1. PICK f \in [0 .. n -> S] : Upto(f, k - 1)
    BY <1>2
  <2> DEFINE g == [f EXCEPT ![k] = step[<<k, f[k - 1]>>]]
  <2>2. step[<<k, f[k - 1]>>] \in S
    OBVIOUS
  <2>3. g \in [0 .. n -> S]
    BY <2>2
  <2>4. /\ g[k] = step[<<k, f[k - 1]>>]
        /\ \A i \in 0 .. n : i # k => g[i] = f[i]
    OBVIOUS
  <2> HIDE DEF g
  <2>5. ASSUME NEW i \in 1 .. k
        PROVE  g[i] = step[<<i, g[i - 1]>>]
    <3>1. CASE i = k
      BY <3>1, <2>4
    <3>2. CASE i # k
      <4>1. i \in 1 .. k - 1 /\ i \in 0 .. n /\ i - 1 \in 0 .. n /\ i - 1 # k
        BY <3>2
      <4>2. f[i] = step[<<i, f[i - 1]>>]
        BY <4>1, <2>1
      <4> QED BY <4>1, <4>2, <2>4, <3>2
    <3> QED BY <3>1, <3>2
  <2>6. g[0] = z
    BY <2>1, <2>4
  <2>7. Upto(g, k)
    BY <2>5, <2>6
  <2> HIDE DEF Upto
  <2> QED BY <2>3, <2>7
<1>3. n \in K
  <2> HIDE DEF K
  <2>1. 0 .. n \subseteq K
    BY <1>1, <1>2, Upward
  <2> QED BY <2>1
<1>4. PICK f \in [0 .. n -> S] : Upto(f, n)
  BY <1>3
<1> QED BY <1>4 DEF Loops

Walking(n, S, stop, go, up) ==
    /\ n \in Nat
    /\ stop \in [0 .. n - 1 -> S]
    /\ go \in [(0 .. n - 1) \X S -> S]
    /\ up \in [0 .. n - 1 -> Int]
    /\ \A b \in 0 .. n - 1 : up[b] > b => up[b] \in 0 .. n - 1
Walks(n, S, stop, go, up) ==
    \E f \in [0 .. n - 1 -> S] :
       \A b \in 0 .. n - 1 :
          f[b] = IF up[b] > b THEN go[<<b, f[up[b]]>>] ELSE stop[b]

LEMMA WalkExists ==
  ASSUME NEW n, NEW S, NEW stop, NEW go, NEW up, Walking(n, S, stop, go, up)
  PROVE  Walks(n, S, stop, go, up)
<1> USE DEF Walking
<1> DEFINE Value(f, b) == IF up[b] > b THEN go[<<b, f[up[b]]>>] ELSE stop[b]
           From_(f, k) == \A b \in 0 .. n - 1 : b >= n - k => f[b] = Value(f, b)
           K == {k \in 0 .. n : \E f \in [0 .. n - 1 -> S] : From_(f, k)}
<1>1. 0 \in K
  <2>1. From_(stop, 0)
    OBVIOUS
  <2> HIDE DEF From_
  <2> QED BY <2>1
<1>2. ASSUME NEW k \in 1 .. n, k - 1 \in K
      PROVE  k \in K
  <2>1. PICK f \in [0 .. n - 1 -> S] : From_(f, k - 1)
    BY <1>2
  <2> DEFINE a == n - k
             g == [f EXCEPT ![a] = Value(f, a)]
  <2>2. a \in 0 .. n - 1 /\ Value(f, a) \in S
    OBVIOUS
  <2>3. g \in [0 .. n - 1 -> S]
    BY <2>2
  <2>4. /\ g[a] = Value(f, a)
        /\ \A b \in 0 .. n - 1 : b # a => g[b] = f[b]
    BY <2>2
  <2> HIDE DEF g
  <2>5. ASSUME NEW b \in 0 .. n - 1, b >= n - k
        PROVE  g[b] = Value(g, b)
    <3>1. b >= a /\ a \in Nat
      BY <2>5, <2>2
    <3>2. up[b] > b => up[b] \in 0 .. n - 1 /\ up[b] # a
      BY <3>1
    <3>3. up[b] > b => g[up[b]] = f[up[b]]
      BY <3>2, <2>4
    <3>4. Value(g, b) = Value(f, b)
      BY <3>3
    <3>5. g[b] = Value(f, b)
      <4>1. CASE b = a
        BY <4>1, <2>4
      <4>2. CASE b # a
        <5>1. b >= n - (k - 1)
          BY <4>2, <3>1
        <5>2. f[b] = Value(f, b)
          BY <5>1, <2>1
        <5> QED BY <5>2, <4>2, <2>4
      <4> QED BY <4>1, <4>2
    <3> QED BY <3>4, <3>5
  <2>6. From_(g, k)
    BY <2>5
  <2> HIDE DEF From_
  <2> QED BY <2>3, <2>6
<1>3. n \in K
  <2> HIDE DEF K
  <2>1. 0 .. n \subseteq K
    BY <1>1, <1>2, Upward
  <2> QED BY <2>1
<1>4. PICK f \in [0 .. n - 1 -> S] : From_(f, n)
  BY <1>3
<1>5. \A b \in 0 .. n - 1 : f[b] = Value(f, b)
  BY <1>4
<1> QED BY <1>5 DEF Walks

-----------------------------------------------------------------------------
(* What the memory is, given the set F of the free blocks, the set M of    *)
(* the blocks with the magic mark, the set B of all blocks and the end of  *)
(* the heap.  The link at a place p of the list (a block, or NULL for      *)
(* _firstFreeBlock) leads to the free block after p.                       *)
HeapRecords == [size  : [Address -> Nat],
                next  : [Address -> Address \cup {NULL, MAGIC}],
                first : Address \cup {NULL}]

Follows(F, p, n) == IF n = NULL THEN \A c \in F : c <= p
                                ELSE /\ n \in F /\ p < n
                                     /\ \A c \in F : c <= p \/ n <= c

LinkAt(h, p) == IF p = NULL THEN h.first ELSE h.next[p]
Mark(M, a)   == IF a \in M THEN MAGIC ELSE NULL

Listed(h, F, M) == /\ F \subseteq Address
                   /\ \A p \in F \cup {NULL} : Follows(F, p, LinkAt(h, p))
                   /\ \A a \in Address \ F : h.next[a] = Mark(M, a)

Tiled(h, B, end) == /\ end \in 0 .. MaxHeap
                    /\ 0 \in B /\ B \subseteq 0 .. end - 1
                    /\ \A b \in B : /\ h.size[b] > 0
                                    /\ b + h.size[b] \in B \cup {end}
                                    /\ Aligned(b) /\ Aligned(h.size[b])
                    /\ \A b, c \in B : b < c => b + h.size[b] <= c

Described(h, F, M, B, end) == /\ h \in HeapRecords
                              /\ Listed(h, F, M)
                              /\ Tiled(h, B, end)
                              /\ F \subseteq B

LEMMA Addresses == /\ HEAP_SIZE \in Nat \ {0} /\ MaxHeap \in Nat
                   /\ MaxHeap >= 2 * HEAP_SIZE
                   /\ NULL = -1 /\ NULL \notin Address
                   /\ MAGIC = -2 /\ MAGIC \notin Address
                   /\ Address = 0 .. MaxHeap - 1
                   /\ Address \subseteq Nat /\ 0 \in Address
                   /\ \A a \in Nat : a < MaxHeap => a \in Address
<1>1. HEAP_SIZE \in Nat \ {0} /\ MaxHeap \in Nat /\ MaxHeap >= 2 * HEAP_SIZE
  BY HeapAssumption
<1> QED BY <1>1 DEF NULL, MAGIC, Address

(* The list from a free block b on.                                        *)
Chained(h, F, s, b) ==
    /\ s \in Seq(F) /\ Len(s) >= 1 /\ s[1] = b
    /\ \A i \in 1 .. Len(s) : h.next[s[i]] = At(s, i + 1)
    /\ \A i, j \in 1 .. Len(s) : i < j => s[i] < s[j]
    /\ \A c \in F : b <= c => \E i \in 1 .. Len(s) : s[i] = c

(* The chain that From speaks of is a function that exists.                *)
LEMMA ChosenChain ==
  ASSUME NEW h, NEW b, b # NULL,
         \E f : f = [c \in Address |->
                       <<c>> \o IF h.next[c] > c THEN f[h.next[c]] ELSE <<>>]
  PROVE  \E f : /\ f = [c \in Address |->
                          <<c>> \o IF h.next[c] > c THEN f[h.next[c]] ELSE <<>>]
                /\ From(h, b) = f[b]
BY ZenonT(60) DEF From

LEMMA ChainExists ==
  ASSUME NEW h \in HeapRecords
  PROVE  \E f : f = [c \in Address |->
                       <<c>> \o IF h.next[c] > c THEN f[h.next[c]] ELSE <<>>]
<1> DEFINE S == Seq(Address)
           stop == [b \in 0 .. MaxHeap - 1 |-> <<b>> \o <<>>]
           go == [x \in (0 .. MaxHeap - 1) \X S |-> <<x[1]>> \o x[2]]
           up == [b \in 0 .. MaxHeap - 1 |-> h.next[b]]
<1>1. Address = 0 .. MaxHeap - 1 /\ MaxHeap \in Nat
  BY Addresses
<1>2. /\ up \in [0 .. MaxHeap - 1 -> Int]
      /\ \A b \in 0 .. MaxHeap - 1 : up[b] > b => up[b] \in 0 .. MaxHeap - 1
  <2>1. \A b \in Address : h.next[b] \in Address \cup {NULL, MAGIC}
    BY DEF HeapRecords
  <2>2. \A b \in Address : /\ h.next[b] \in Int
                           /\ h.next[b] > b => h.next[b] \in Address
    BY <2>1, Addresses
  <2> QED BY <2>2, <1>1
<1>3. stop \in [0 .. MaxHeap - 1 -> S]
  BY <1>1
<1>4. go \in [(0 .. MaxHeap - 1) \X S -> S]
  BY <1>1
<1>5. PICK f \in [0 .. MaxHeap - 1 -> S] :
         \A b \in 0 .. MaxHeap - 1 :
            f[b] = IF up[b] > b THEN go[<<b, f[up[b]]>>] ELSE stop[b]
  <2> HIDE DEF S, stop, go, up
  <2>1. Walking(MaxHeap, S, stop, go, up)
    BY <1>1, <1>2, <1>3, <1>4 DEF Walking
  <2> QED BY <2>1, WalkExists DEF Walks
<1>6. ASSUME NEW b \in Address
      PROVE  f[b] = <<b>> \o IF h.next[b] > b THEN f[h.next[b]] ELSE <<>>
  <2>1. CASE h.next[b] > b
    <3>1. h.next[b] \in 0 .. MaxHeap - 1 /\ f[h.next[b]] \in S
      BY <2>1, <1>1, <1>2
    <3>2. go[<<b, f[h.next[b]]>>] = <<b>> \o f[h.next[b]]
      BY <3>1, <1>1
    <3>3. f[b] = go[<<b, f[h.next[b]]>>]
      BY <2>1, <1>1, <1>5
    <3> HIDE DEF go
    <3> QED BY <3>2, <3>3, <2>1
  <2>2. CASE ~(h.next[b] > b)
    BY <2>2, <1>1, <1>5
  <2> QED BY <2>1, <2>2
<1>7. f = [c \in Address |-> f[c]]
  BY <1>1
<1> DEFINE Value(c) == <<c>> \o IF h.next[c] > c THEN f[h.next[c]] ELSE <<>>
<1>8. f = [c \in Address |-> Value(c)]
  <2>1. \A c \in Address : f[c] = Value(c)
    BY <1>6
  <2> HIDE DEF Value
  <2> QED BY <1>7, <2>1, Zenon
<1> QED BY <1>8, Zenon

LEMMA ChainIs ==
  ASSUME NEW h \in HeapRecords, NEW F, NEW M, Listed(h, F, M), NEW b \in F
  PROVE  Chained(h, F, From(h, b), b)
<1>0. /\ MaxHeap \in Nat /\ Address = 0 .. MaxHeap - 1
      /\ F \subseteq Address /\ F \subseteq Nat /\ NULL \notin F /\ NULL = -1
      /\ h.next \in [Address -> Address \cup {NULL, MAGIC}]
      /\ \A c \in F : Follows(F, c, h.next[c])
  BY Addresses DEF Listed, LinkAt, HeapRecords
<1>1. PICK f : /\ f = [c \in Address |->
                         <<c>> \o IF h.next[c] > c THEN f[h.next[c]] ELSE <<>>]
               /\ From(h, b) = f[b]
  <2>1. b # NULL
    BY <1>0
  <2> QED BY <2>1, ChainExists, ChosenChain, Zenon
<1>2. \A c \in Address : f[c] = <<c>> \o IF h.next[c] > c THEN f[h.next[c]] ELSE <<>>
  BY <1>1
<1> DEFINE S == {c \in Address : c \in F => Chained(h, F, f[c], c)}
<1>3. ASSUME NEW c \in 0 .. MaxHeap - 1,
             \A d \in 0 .. MaxHeap - 1 : c < d => d \in S
      PROVE  c \in S
  <2> SUFFICES ASSUME c \in F PROVE Chained(h, F, f[c], c)
    BY <1>0
  <2>1. CASE h.next[c] = NULL
    <3>1. \A d \in F : d <= c
      BY <2>1, <1>0 DEF Follows
    <3>2. f[c] = <<c>>
      <4>1. ~(h.next[c] > c)
        BY <2>1, <1>0
      <4>2. f[c] = <<c>> \o <<>>
        BY <4>1, <1>0, <1>2
      <4> QED BY <4>2
    <3>3. \A d \in F : c <= d => d = c
      BY <3>1, <1>0
    <3>4. /\ <<c>> \in Seq(F) /\ Len(<<c>>) = 1 /\ <<c>>[1] = c
          /\ At(<<c>>, 2) = NULL
      BY DEF At
    <3> HIDE DEF S
    <3>5. Chained(h, F, <<c>>, c)
      BY <3>3, <3>4, <2>1 DEF Chained
    <3> QED BY <3>2, <3>5
  <2>2. CASE h.next[c] # NULL
    <3> DEFINE d == h.next[c]
               t == f[d]
               s == <<c>> \o t
    <3>1. d \in F /\ c < d /\ \A e \in F : e <= c \/ d <= e
      BY <2>2, <1>0 DEF Follows
    <3>2. Chained(h, F, t, d)
      BY <3>1, <1>0, <1>3
    <3>3. f[c] = s
      BY <3>1, <1>0, <1>2
    <3> HIDE DEF t, d
    <3>4. /\ t \in Seq(F) /\ Len(t) \in Nat /\ Len(t) >= 1 /\ t[1] = d
          /\ \A i \in 1 .. Len(t) : t[i] \in F /\ t[i] \in Nat
      <4>1. t \in Seq(F) /\ Len(t) >= 1 /\ t[1] = d
        BY <3>2 DEF Chained
      <4>2. Len(t) \in Nat /\ \A i \in 1 .. Len(t) : t[i] \in F
        BY <4>1
      <4> QED BY <4>1, <4>2, <1>0
    <3>5. /\ s \in Seq(F) /\ Len(s) = Len(t) + 1 /\ s[1] = c
          /\ \A i \in 2 .. Len(s) : s[i] = t[i - 1]
      BY <3>4
    <3> HIDE DEF s
    <3>6. \A i \in 2 .. Len(s) + 1 : At(s, i) = At(t, i - 1)
      <4>1. DOMAIN s = 1 .. Len(s) /\ DOMAIN t = 1 .. Len(t)
        BY <3>4, <3>5
      <4> SUFFICES ASSUME NEW i \in 2 .. Len(s) + 1
                   PROVE  At(s, i) = At(t, i - 1)
        OBVIOUS
      <4>2. i \in DOMAIN s <=> i - 1 \in DOMAIN t
        BY <4>1, <3>4, <3>5
      <4>3. i \in DOMAIN s => s[i] = t[i - 1]
        BY <4>1, <3>5
      <4> QED BY <4>2, <4>3 DEF At
    <3>7. ASSUME NEW i \in 1 .. Len(s)
          PROVE  h.next[s[i]] = At(s, i + 1)
      <4>1. CASE i = 1
        <5>1. At(s, 2) = s[2] /\ s[2] = d
          BY <3>4, <3>5 DEF At
        <5> QED BY <4>1, <5>1, <3>5 DEF d
      <4>2. CASE i # 1
        <5>1. i - 1 \in 1 .. Len(t) /\ s[i] = t[i - 1]
          BY <4>2, <3>4, <3>5
        <5>2. h.next[t[i - 1]] = At(t, i - 1 + 1)
          BY <5>1, <3>2 DEF Chained
        <5>3. At(s, i + 1) = At(t, i + 1 - 1)
          BY <3>4, <3>5, <3>6, <4>2
        <5>4. i + 1 - 1 = i - 1 + 1
          OBVIOUS
        <5> QED BY <5>1, <5>2, <5>3, <5>4
      <4> QED BY <4>1, <4>2
    <3>8. ASSUME NEW i \in 1 .. Len(s), NEW j \in 1 .. Len(s), i < j
          PROVE  s[i] < s[j]
      <4>1. j - 1 \in 1 .. Len(t) /\ s[j] = t[j - 1] /\ s[j] \in Nat
        BY <3>4, <3>5, <3>8
      <4>2. d <= s[j]
        <5>1. 1 < j - 1 => t[1] < t[j - 1]
          BY <3>2, <4>1, <3>4 DEF Chained
        <5> QED BY <5>1, <4>1, <3>4
      <4>3. CASE i = 1
        BY <4>2, <4>3, <4>1, <3>1, <3>5, <1>0
      <4>4. CASE i # 1
        <5>1. i - 1 \in 1 .. Len(t) /\ s[i] = t[i - 1] /\ i - 1 < j - 1
          BY <4>4, <3>4, <3>5, <3>8
        <5> QED BY <5>1, <4>1, <3>2 DEF Chained
      <4> QED BY <4>3, <4>4
    <3>9. ASSUME NEW e \in F, c <= e
          PROVE  \E i \in 1 .. Len(s) : s[i] = e
      <4>1. CASE e = c
        BY <4>1, <3>4, <3>5
      <4>2. CASE e # c
        <5>1. d <= e
          BY <4>2, <3>1, <3>9, <1>0
        <5>2. PICK i \in 1 .. Len(t) : t[i] = e
          BY <5>1, <3>2 DEF Chained
        <5>3. i + 1 \in 1 .. Len(s) /\ s[i + 1] = e
          <6> DEFINE k == i + 1
          <6>1. k \in 2 .. Len(s) /\ k - 1 = i
            BY <3>4, <3>5
          <6> HIDE DEF k
          <6>2. s[k] = e /\ k \in 1 .. Len(s)
            BY <6>1, <3>5, <5>2
          <6> QED BY <6>2 DEF k
        <5> QED BY <5>3
      <4> QED BY <4>1, <4>2
    <3>10. Chained(h, F, s, c)
      BY <3>4, <3>5, <3>7, <3>8, <3>9 DEF Chained
    <3> QED BY <3>3, <3>10
  <2>3. QED BY <2>1, <2>2
<1>4. 0 .. MaxHeap - 1 \subseteq S
  <2> HIDE DEF S
  <2> QED BY <1>0, <1>3, Downward
<1> QED BY <1>0, <1>1, <1>4

(* The whole list: its places, one before each block and one at the end,   *)
(* are those that the links lead to.                                       *)
Lists(h, F, s) ==
    /\ s \in Seq(F) /\ Len(s) \in Nat /\ DOMAIN s = 1 .. Len(s)
    /\ \A i \in 1 .. Len(s) : s[i] \in F
    /\ \A i \in 1 .. Len(s) + 1 : LinkAt(h, At(s, i - 1)) = At(s, i)
    /\ \A i, j \in 1 .. Len(s) : i < j => s[i] < s[j]
    /\ \A c \in F : \E i \in 1 .. Len(s) : s[i] = c

LEMMA ListIs ==
  ASSUME NEW h \in HeapRecords, NEW F, NEW M, Listed(h, F, M)
  PROVE  Lists(h, F, FreeList(h))
<1> DEFINE s == FreeList(h)
<1>0. /\ F \subseteq Nat /\ NULL = -1 /\ NULL \notin F
      /\ Follows(F, NULL, h.first)
  BY Addresses DEF Listed, LinkAt
<1>1. CASE h.first = NULL
  <2>1. s = <<>>
    BY <1>1 DEF FreeList, From
  <2>2. F = {}
    <3>1. \A c \in F : c <= NULL
      BY <1>0, <1>1 DEF Follows
    <3> QED BY <3>1, <1>0
  <2>3. At(<<>>, 0) = NULL /\ At(<<>>, 1) = NULL /\ Len(<<>>) = 0
    BY DEF At
  <2>4. LinkAt(h, At(<<>>, 0)) = At(<<>>, 1)
    BY <2>3, <1>1 DEF LinkAt
  <2> HIDE DEF s
  <2>5. /\ s \in Seq(F) /\ Len(s) = 0 /\ DOMAIN s = 1 .. Len(s)
        /\ LinkAt(h, At(s, 1 - 1)) = At(s, 1)
    BY <2>1, <2>3, <2>4
  <2>6. \A i \in 1 .. Len(s) + 1 : i = 1
    BY <2>5
  <2>7. \A i \in 1 .. Len(s) : FALSE
    BY <2>5
  <2>8. \A i \in 1 .. Len(s) + 1 : LinkAt(h, At(s, i - 1)) = At(s, i)
    BY <2>5, <2>6
  <2>9. Lists(h, F, s)
    BY <2>2, <2>5, <2>7, <2>8 DEF Lists
  <2> QED BY <2>9 DEF s
<1>2. CASE h.first # NULL
  <2>1. /\ h.first \in F /\ \A c \in F : c <= NULL \/ h.first <= c
    BY <1>0, <1>2 DEF Follows
  <2>2. Chained(h, F, s, h.first)
    BY <2>1, ChainIs DEF FreeList
  <2> HIDE DEF s
  <2>3. /\ s \in Seq(F) /\ Len(s) >= 1 /\ s[1] = h.first
        /\ Len(s) \in Nat /\ DOMAIN s = 1 .. Len(s)
    BY <2>2 DEF Chained
  <2>4. \A i \in 1 .. Len(s) : s[i] \in F /\ s[i] # NULL
    BY <2>3, <1>0
  <2>5. ASSUME NEW i \in 1 .. Len(s) + 1
        PROVE  LinkAt(h, At(s, i - 1)) = At(s, i)
    <3>1. CASE i = 1
      <4>1. i - 1 = 0 /\ 0 \notin DOMAIN s /\ 1 \in DOMAIN s
        BY <3>1, <2>3
      <4> QED BY <4>1, <3>1, <2>3 DEF At, LinkAt
    <3>2. CASE i # 1
      <4>1. i - 1 \in 1 .. Len(s)
        BY <3>2, <2>3
      <4>2. h.next[s[i - 1]] = At(s, i - 1 + 1)
        BY <4>1, <2>2 DEF Chained
      <4>3. At(s, i - 1) = s[i - 1] /\ i - 1 + 1 = i
        BY <4>1, <2>3 DEF At
      <4> QED BY <4>1, <4>2, <4>3, <2>4 DEF LinkAt
    <3> QED BY <3>1, <3>2
  <2>6. ASSUME NEW c \in F
        PROVE  \E i \in 1 .. Len(s) : s[i] = c
    <3>1. h.first <= c
      BY <2>1, <1>0
    <3> QED BY <3>1, <2>2 DEF Chained
  <2>7. \A i, j \in 1 .. Len(s) : i < j => s[i] < s[j]
    BY <2>2 DEF Chained
  <2>8. Lists(h, F, s)
    BY <2>3, <2>4, <2>5, <2>6, <2>7 DEF Lists
  <2> QED BY <2>8 DEF s
<1> QED BY <1>1, <1>2

(* The place that the loops find for the address a, in a list of blocks    *)
(* other than a.                                                           *)
Placed(h, F, s, a, m) ==
    /\ m \in 1 .. Len(s) + 1
    /\ \A i \in 1 .. Len(s) : i < m <=> s[i] < a
    /\ At(s, m - 1) \in F \cup {NULL} /\ At(s, m - 1) < a
    /\ At(s, m) = LinkAt(h, At(s, m - 1))
    /\ At(s, m) \in F \cup {NULL} /\ (At(s, m) = NULL \/ a <= At(s, m))

LEMMA PlaceIs ==
  ASSUME NEW h, NEW F, F \subseteq Nat, NEW s, Lists(h, F, s), NEW a \in Nat
  PROVE  Placed(h, F, s, a, Place(s, a))
<1> DEFINE S == {i \in DOMAIN s : s[i] >= a} \cup {Len(s) + 1}
           m == Place(s, a)
<1>0. /\ Len(s) \in Nat /\ DOMAIN s = 1 .. Len(s) /\ NULL = -1
      /\ \A i \in 1 .. Len(s) : s[i] \in F /\ s[i] \in Nat
      /\ \A i, j \in 1 .. Len(s) : i < j => s[i] < s[j]
      /\ \A i \in 1 .. Len(s) + 1 : LinkAt(h, At(s, i - 1)) = At(s, i)
  BY Addresses DEF Lists
<1>1. m = CHOOSE x \in S : \A y \in S : x <= y
  BY Zenon DEF Place, Min
<1>2. \E x \in S : \A y \in S : x <= y
  <2>1. S \in SUBSET Nat /\ S # {}
    BY <1>0
  <2> HIDE DEF S
  <2> QED BY <2>1, Least
<1>3. m \in S /\ \A y \in S : m <= y
  <2> HIDE DEF S, m
  <2> QED BY <1>1, <1>2
<1>4. m \in 1 .. Len(s) + 1 /\ (m \in 1 .. Len(s) => s[m] >= a)
  <2> HIDE DEF m
  <2> QED BY <1>0, <1>3
<1>5. ASSUME NEW i \in 1 .. Len(s)
      PROVE  i < m <=> s[i] < a
  <2> HIDE DEF m, S
  <2>1. CASE i < m
    <3>1. i \notin S
      <4>1. i \in S => m <= i
        BY <1>3
      <4> QED BY <4>1, <2>1, <1>4, <1>0
    <3>2. i \in DOMAIN s /\ ~(s[i] >= a)
      BY <3>1, <1>0 DEF S
    <3> QED BY <3>2, <2>1, <1>0
  <2>2. CASE ~(i < m)
    <3>1. m \in 1 .. Len(s) /\ (m = i \/ m < i)
      BY <2>2, <1>4, <1>0
    <3>2. s[m] <= s[i] /\ s[m] >= a
      BY <3>1, <1>4, <1>0
    <3> QED BY <3>1, <3>2, <2>2, <1>0
  <2> QED BY <2>1, <2>2
<1> HIDE DEF S, m
<1>6. At(s, m - 1) \in F \cup {NULL} /\ At(s, m - 1) < a
  <2>1. CASE m - 1 \in 1 .. Len(s)
    <3>1. At(s, m - 1) = s[m - 1] /\ m - 1 < m
      BY <2>1, <1>0, <1>4 DEF At
    <3>2. s[m - 1] < a
      BY <2>1, <3>1, <1>5
    <3> QED BY <3>1, <3>2, <2>1, <1>0
  <2>2. CASE m - 1 \notin 1 .. Len(s)
    BY <2>2, <1>0 DEF At
  <2> QED BY <2>1, <2>2
<1>7. At(s, m) \in F \cup {NULL} /\ (At(s, m) = NULL \/ a <= At(s, m))
  BY <1>0, <1>4 DEF At
<1>8. At(s, m) = LinkAt(h, At(s, m - 1))
  BY <1>0, <1>4
<1>9. Placed(h, F, s, a, m)
  BY <1>4, <1>5, <1>6, <1>7, <1>8 DEF Placed
<1> QED BY <1>9 DEF m

(* The walk by sizes meets the blocks.                                     *)
LEMMA WalkBySizes ==
  ASSUME NEW h \in HeapRecords, NEW end \in 0 .. MaxHeap
  PROVE  \E f : f = [b \in Address |->
                       {b} \cup IF h.size[b] > 0 /\ b + h.size[b] < end
                                  THEN f[b + h.size[b]] ELSE {}]
<1> DEFINE onward(b) == h.size[b] > 0 /\ b + h.size[b] < end
           N == 0 .. MaxHeap - 1
           S == SUBSET Address
           stop == [b \in N |-> {b}]
           go == [x \in N \X S |-> {x[1]} \cup x[2]]
           up == [b \in N |-> IF onward(b) THEN b + h.size[b] ELSE NULL]
<1>1. /\ MaxHeap \in Nat /\ Address = N /\ end \in Nat /\ end <= MaxHeap
      /\ NULL = -1 /\ \A b \in N : h.size[b] \in Nat /\ b \in Nat
  BY Addresses DEF HeapRecords
<1>2. /\ up \in [N -> Int]
      /\ \A b \in N : /\ up[b] > b => up[b] \in N
                      /\ up[b] > b <=> onward(b)
                      /\ onward(b) => up[b] = b + h.size[b]
  BY <1>1
<1>3. stop \in [N -> S] /\ go \in [N \X S -> S]
  BY <1>1
<1>4. Walking(MaxHeap, S, stop, go, up)
  <2> HIDE DEF S, stop, go, up, onward
  <2> QED BY <1>1, <1>2, <1>3 DEF Walking
<1>5. PICK f \in [N -> S] :
         \A b \in N : f[b] = IF up[b] > b THEN go[<<b, f[up[b]]>>] ELSE stop[b]
  <2> HIDE DEF S, stop, go, up, onward
  <2> QED BY <1>4, WalkExists DEF Walks
<1> DEFINE Value(b) == {b} \cup IF h.size[b] > 0 /\ b + h.size[b] < end
                                  THEN f[b + h.size[b]] ELSE {}
<1>6. ASSUME NEW b \in N
      PROVE  f[b] = Value(b)
  <2>1. CASE onward(b)
    <3>1. up[b] > b /\ up[b] \in N /\ up[b] = b + h.size[b] /\ f[up[b]] \in S
      BY <2>1, <1>2
    <3>2. go[<<b, f[up[b]]>>] = {b} \cup f[up[b]]
      BY <3>1
    <3> HIDE DEF go, up
    <3> QED BY <3>1, <3>2, <2>1, <1>5
  <2>2. CASE ~onward(b)
    <3>1. ~(up[b] > b) /\ stop[b] = {b}
      BY <2>2, <1>2
    <3> HIDE DEF go, up, stop
    <3> QED BY <3>1, <2>2, <1>5
  <2> QED BY <2>1, <2>2
<1>7. f = [b \in Address |-> Value(b)]
  <2>1. f = [b \in N |-> f[b]]
    OBVIOUS
  <2>2. \A b \in N : f[b] = Value(b)
    BY <1>6
  <2> HIDE DEF Value, N
  <2> QED BY <1>1, <2>1, <2>2, Zenon
<1> QED BY <1>7, Zenon

LEMMA ChosenWalk ==
  ASSUME NEW h, NEW end,
         \E f : f = [b \in Address |->
                       {b} \cup IF h.size[b] > 0 /\ b + h.size[b] < end
                                  THEN f[b + h.size[b]] ELSE {}]
  PROVE  \E f : /\ f = [b \in Address |->
                          {b} \cup IF h.size[b] > 0 /\ b + h.size[b] < end
                                     THEN f[b + h.size[b]] ELSE {}]
                /\ BlocksOf(h, end) = f[0]
BY ZenonT(60) DEF BlocksOf

LEMMA BlocksAre ==
  ASSUME NEW h \in HeapRecords, NEW B, NEW end, Tiled(h, B, end)
  PROVE  BlocksOf(h, end) = B
<1>0. /\ MaxHeap \in Nat /\ Address = 0 .. MaxHeap - 1
      /\ end \in 0 .. MaxHeap /\ end \in Nat /\ end <= MaxHeap
      /\ 0 \in B /\ B \subseteq Address
      /\ \A b \in B : b \in Nat /\ b < end /\ h.size[b] \in Nat /\ h.size[b] > 0
      /\ \A b \in B : b + h.size[b] \in B \cup {end}
      /\ \A b, c \in B : b < c => b + h.size[b] <= c
  BY Addresses DEF Tiled, HeapRecords
<1>1. PICK f : /\ f = [b \in Address |->
                         {b} \cup IF h.size[b] > 0 /\ b + h.size[b] < end
                                    THEN f[b + h.size[b]] ELSE {}]
               /\ BlocksOf(h, end) = f[0]
  <2>1. end \in 0 .. MaxHeap
    BY <1>0
  <2>2. \E f : f = [b \in Address |->
                      {b} \cup IF h.size[b] > 0 /\ b + h.size[b] < end
                                 THEN f[b + h.size[b]] ELSE {}]
    BY <2>1, WalkBySizes, Zenon
  <2> QED BY <2>2, ChosenWalk, Zenon
<1>2. \A b \in Address : f[b] = {b} \cup IF h.size[b] > 0 /\ b + h.size[b] < end
                                           THEN f[b + h.size[b]] ELSE {}
  BY <1>1
<1> DEFINE S == {b \in Address : b \in B => f[b] = {c \in B : b <= c}}
<1>3. ASSUME NEW b \in 0 .. MaxHeap - 1,
             \A c \in 0 .. MaxHeap - 1 : b < c => c \in S
      PROVE  b \in S
  <2> SUFFICES ASSUME b \in B PROVE f[b] = {c \in B : b <= c}
    BY <1>0
  <2> DEFINE n == b + h.size[b]
  <2>1. /\ n \in B \cup {end} /\ n \in Nat /\ b < n /\ b \in Nat
        /\ \A c \in B : b <= c <=> c = b \/ n <= c
    BY <1>0
  <2>2. CASE n = end
    <3>1. {c \in B : b <= c} = {b}
      <4>1. \A c \in B : ~(n <= c)
        BY <2>2, <1>0
      <4> HIDE DEF n
      <4> QED BY <4>1, <2>1
    <3>2. f[b] = {b}
      BY <2>2, <1>0, <1>2
    <3> QED BY <3>1, <3>2
  <2>3. CASE n # end
    <3>1. n \in B /\ n < end /\ n \in Address
      BY <2>1, <2>3, <1>0
    <3>2. f[n] = {c \in B : n <= c}
      <4> HIDE DEF n
      <4>1. n \in S
        BY <3>1, <2>1, <1>0, <1>3
      <4> QED BY <4>1, <3>1
    <3>3. f[b] = {b} \cup f[n]
      BY <3>1, <1>0, <1>2
    <3>4. {c \in B : b <= c} = {b} \cup {c \in B : n <= c}
      <4> HIDE DEF n
      <4> QED BY <2>1
    <3> QED BY <3>2, <3>3, <3>4
  <2> QED BY <2>2, <2>3
<1>4. 0 .. MaxHeap - 1 \subseteq S
  <2> HIDE DEF S
  <2> QED BY <1>0, <1>3, Downward
<1>5. f[0] = {c \in B : 0 <= c}
  BY <1>0, <1>4
<1>6. {c \in B : 0 <= c} = B
  <2>1. \A c \in B : 0 <= c
    BY <1>0
  <2> QED BY <2>1
<1> QED BY <1>1, <1>5, <1>6

-----------------------------------------------------------------------------
(* What the operations of the allocators make of the list and the blocks.  *)
(* A block is linked in after the place p, before the block that follows.  *)
LEMMA InsertKeeps ==
  ASSUME NEW h \in HeapRecords, NEW F, NEW M, Listed(h, F, M),
         NEW b \in Address \ F, NEW p \in F \cup {NULL}, p < b,
         NEW n, n = LinkAt(h, p), n = NULL \/ b < n,
         NEW i, i = SetNext([h EXCEPT !.next[b] = n], p, b)
  PROVE  /\ i \in HeapRecords
         /\ i.size = h.size
         /\ Listed(i, F \cup {b}, M \ {b})
         /\ LinkAt(i, p) = b /\ LinkAt(i, b) = n
<1>0. /\ NULL = -1 /\ NULL \notin Address /\ F \subseteq Address
      /\ Address \subseteq Nat /\ b \in Address /\ b \in Nat
      /\ p \in F => p \in Address /\ p \in Nat
      /\ \A c \in F : c \in Nat
  BY Addresses DEF Listed
<1>1. /\ h.size \in [Address -> Nat]
      /\ h.next \in [Address -> Address \cup {NULL, MAGIC}]
      /\ h.first \in Address \cup {NULL}
      /\ h = [size |-> h.size, next |-> h.next, first |-> h.first]
  BY DEF HeapRecords
<1>2. n \in F \cup {NULL} /\ Follows(F, p, n)
  BY DEF Listed, Follows
<1>3. CASE p = NULL
  <2>1. i = [size |-> h.size, next |-> [h.next EXCEPT ![b] = n], first |-> b]
    BY <1>1, <1>3 DEF SetNext
  <2>2. /\ i.size = h.size /\ i.first = b
        /\ i.next \in [Address -> Address \cup {NULL, MAGIC}]
        /\ i.next[b] = n /\ \A a \in Address \ {b} : i.next[a] = h.next[a]
    BY <2>1, <1>0, <1>1, <1>2
  <2>3. /\ LinkAt(i, b) = n /\ LinkAt(i, NULL) = b
        /\ \A q \in F : LinkAt(i, q) = LinkAt(h, q)
    BY <2>2, <1>0 DEF LinkAt
  <2> QED
    <3>1. \A a \in Address \ (F \cup {b}) : i.next[a] = Mark(M \ {b}, a)
      BY <2>2 DEF Listed, Mark
    <3>2. Follows(F \cup {b}, NULL, b)
      BY <1>0, <1>2, <1>3 DEF Follows
    <3>3. Follows(F \cup {b}, b, n)
      BY <1>0, <1>2, <1>3 DEF Follows
    <3>4. ASSUME NEW q \in F PROVE Follows(F \cup {b}, q, LinkAt(h, q))
      <4>1. Follows(F, q, LinkAt(h, q))
        BY DEF Listed
      <4>2. q \in Nat /\ b < q
        BY <1>0, <1>2, <1>3 DEF Follows
      <4> QED BY <4>1, <4>2, <1>0 DEF Follows
    <3> QED BY <3>1, <3>2, <3>3, <3>4, <2>1, <2>2, <2>3, <1>0, <1>1, <1>3
            DEF Listed, HeapRecords
<1>4. CASE p # NULL
  <2>1. i = [size |-> h.size, next |-> [[h.next EXCEPT ![b] = n] EXCEPT ![p] = b],
             first |-> h.first]
    BY <1>1, <1>4 DEF SetNext
  <2>2. /\ i.size = h.size /\ i.first = h.first
        /\ i.next \in [Address -> Address \cup {NULL, MAGIC}]
        /\ i.next[b] = n /\ i.next[p] = b
        /\ \A a \in Address \ {b, p} : i.next[a] = h.next[a]
    BY <2>1, <1>0, <1>1, <1>2, <1>4
  <2>3. /\ LinkAt(i, b) = n /\ LinkAt(i, p) = b
        /\ \A q \in (F \cup {NULL}) \ {p} : LinkAt(i, q) = LinkAt(h, q)
    BY <2>2, <1>0, <1>4 DEF LinkAt
  <2> QED
    <3>1. \A a \in Address \ (F \cup {b}) : i.next[a] = Mark(M \ {b}, a)
      BY <2>2, <1>0, <1>4 DEF Listed, Mark
    <3>2. Follows(F \cup {b}, p, b)
      BY <1>0, <1>2, <1>4 DEF Follows
    <3>3. Follows(F \cup {b}, b, n)
      BY <1>0, <1>2, <1>4 DEF Follows
    <3>4. ASSUME NEW q \in (F \cup {NULL}) \ {p}
          PROVE  Follows(F \cup {b}, q, LinkAt(h, q))
      <4>1. Follows(F, q, LinkAt(h, q))
        BY DEF Listed
      <4>2. q \in Int /\ (q < p \/ b < q)
        BY <1>0, <1>2, <1>4 DEF Follows
      <4>3. CASE q < p
        BY <4>1, <4>2, <4>3, <1>0, <1>4 DEF Follows
      <4>4. CASE b < q
        BY <4>1, <4>2, <4>4, <1>0 DEF Follows
      <4> QED BY <4>2, <4>3, <4>4
    <3> QED BY <3>1, <3>2, <3>3, <3>4, <2>1, <2>2, <2>3, <1>0, <1>1, <1>4
            DEF Listed, HeapRecords
<1> QED BY <1>3, <1>4

-----------------------------------------------------------------------------
(* The arithmetic of my_malloc, as it is proved beside the first allocator.*)
Proved == INSTANCE HeapBlocks_proofs WITH
            size  <- [b \in Blocks |-> heap.size[b]],
            free  <- ToSet(FreeList(heap)),
            seams <- {}

LEMMA SameArithmetic ==
  /\ \A n : Proved!BlockSize(n) = BlockSize(n)
  /\ \A n : Proved!Aligned(n) <=> Aligned(n)
  /\ MaxHeap \in Nat
BY HeapAssumption
   DEF Proved!BlockSize, BlockSize, Proved!RoundUp, RoundUp, Proved!Wrap, Wrap,
       Proved!Aligned, Aligned

LEMMA BlockSizeIs ==
  ASSUME NEW n \in 0 .. (WORD - 2 * HEADER_SIZE)
  PROVE  /\ BlockSize(n) \in Nat
         /\ BlockSize(n) >= HEADER_SIZE + n
         /\ Aligned(BlockSize(n))
<1>1. /\ Proved!BlockSize(n) \in Nat
      /\ Proved!BlockSize(n) >= HEADER_SIZE + n
      /\ Proved!Aligned(Proved!BlockSize(n))
  <2>1. Proved!Aligned(HEAP_SIZE)
    BY SameArithmetic, HeapAssumption
  <2> QED BY <2>1, Proved!BlockSizeCorrect, HeapAssumption, RequestAssumption,
             HeaderAssumption, WordAssumption
<1> QED BY <1>1, SameArithmetic

LEMMA AlignedParts ==
  ASSUME NEW x \in Nat, NEW y \in Nat, Aligned(x), Aligned(y)
  PROVE  /\ Aligned(x + y)
         /\ y <= x => Aligned(x - y)
         /\ x # 0 => x >= HEADER_SIZE
<1>0. /\ Proved!Aligned(HEAP_SIZE) /\ Proved!Aligned(x) /\ Proved!Aligned(y)
  BY SameArithmetic, HeapAssumption
<1>1. Proved!Aligned(x + y)
  BY <1>0, Proved!AlignedSum, HeapAssumption, RequestAssumption,
     HeaderAssumption, WordAssumption
<1>2. ASSUME y <= x PROVE Proved!Aligned(x - y)
  BY <1>0, <1>2, Proved!AlignedDifference, HeapAssumption, RequestAssumption,
     HeaderAssumption, WordAssumption
<1>3. ASSUME x # 0 PROVE x >= HEADER_SIZE
  <2>1. x \in Nat \ {0}
    BY <1>3
  <2> QED BY <2>1, <1>0, Proved!AlignedPositive, HeapAssumption,
             RequestAssumption, HeaderAssumption, WordAssumption
<1> QED BY <1>1, <1>2, <1>3, SameArithmetic

LEMMA Parts ==
  ASSUME NEW h, NEW F, NEW M, NEW B, NEW end, Described(h, F, M, B, end)
  PROVE  /\ F \subseteq B /\ B \subseteq Address /\ B \subseteq Nat
         /\ F \subseteq Address /\ F \subseteq Nat
         /\ Tiled(h, B, end) /\ Listed(h, F, M) /\ h \in HeapRecords
         /\ end \in Nat /\ end <= MaxHeap
         /\ \A b \in B : b < end /\ h.size[b] \in Nat /\ h.size[b] > 0
<1>1. MaxHeap \in Nat /\ Address = 0 .. MaxHeap - 1
  BY Addresses
<1>2. Tiled(h, B, end) /\ Listed(h, F, M) /\ h \in HeapRecords /\ F \subseteq B
  BY DEF Described
<1>3. end \in Nat /\ end <= MaxHeap /\ B \subseteq 0 .. end - 1
  BY <1>1, <1>2 DEF Tiled
<1>4. B \subseteq Address /\ B \subseteq Nat /\ \A b \in B : b < end
  BY <1>1, <1>3
<1>5. \A b \in B : h.size[b] \in Nat /\ h.size[b] > 0
  BY <1>2, <1>4 DEF Tiled, HeapRecords
<1> QED BY <1>2, <1>3, <1>4, <1>5

(* Two neighbours on the list become one block.                            *)
Merged(h, m, F, M, B, end, b, c) ==
    /\ c \in F /\ b < c
    /\ Described(m, F \ {c}, M \ {c}, B \ {c}, end)
    /\ m.size[b] = h.size[b] + h.size[c]
    /\ \A d \in B \ {b, c} : m.size[d] = h.size[d]
    /\ m.next[b] = h.next[c] /\ LinkAt(m, NULL) = LinkAt(h, NULL)

LEMMA MergeKeeps ==
  ASSUME NEW h, NEW F, NEW M, NEW B, NEW end, Described(h, F, M, B, end),
         NEW b \in F, NEW c, c = h.next[b], Touches(h, b, c),
         NEW m, m = Merge(h, b, c)
  PROVE  Merged(h, m, F, M, B, end, b, c)
<1>0. /\ F \subseteq B /\ B \subseteq Address /\ B \subseteq Nat
      /\ F \subseteq Address /\ F \subseteq Nat
      /\ b \in B /\ b \in Nat /\ b \in Address
  BY Parts
<1>1. /\ h.size \in [Address -> Nat]
      /\ h.next \in [Address -> Address \cup {NULL, MAGIC}]
      /\ h.first \in Address \cup {NULL}
      /\ h = [size |-> h.size, next |-> h.next, first |-> h.first]
  BY DEF HeapRecords, Described
<1>2. /\ c # NULL /\ b + h.size[b] = c
      /\ c \in F /\ b < c /\ \A d \in F : d <= b \/ c <= d
      /\ c \in Nat /\ c \in Address /\ c \in B
  <2>1. c # NULL /\ b + h.size[b] = c /\ b # NULL
    BY DEF Touches
  <2>2. Follows(F, b, c)
    BY <2>1 DEF Described, Listed, LinkAt
  <2> QED BY <2>1, <2>2, <1>0 DEF Follows
<1>3. m = [size  |-> [[h.size EXCEPT ![b] = @ + h.size[c]] EXCEPT ![c] = 0],
           next  |-> [[h.next EXCEPT ![b] = h.next[c]] EXCEPT ![c] = NULL],
           first |-> h.first]
  BY <1>1 DEF Merge
<1>4. /\ m.first = h.first
      /\ m.size \in [Address -> Nat]
      /\ m.size[b] = h.size[b] + h.size[c] /\ m.size[c] = 0
      /\ \A a \in Address \ {b, c} : m.size[a] = h.size[a]
      /\ m.next \in [Address -> Address \cup {NULL, MAGIC}]
      /\ m.next[b] = h.next[c] /\ m.next[c] = NULL
      /\ \A a \in Address \ {b, c} : m.next[a] = h.next[a]
  BY <1>0, <1>1, <1>2, <1>3
<1>5. m \in HeapRecords
  BY <1>1, <1>3, <1>4 DEF HeapRecords
<1>6. Listed(m, F \ {c}, M \ {c})
  <2>1. ASSUME NEW q \in (F \ {c}) \cup {NULL}
        PROVE  Follows(F \ {c}, q, LinkAt(m, q))
    <3>1. CASE q = b
      <4>1. Follows(F, c, h.next[c]) /\ LinkAt(m, b) = h.next[c]
        BY <1>2, <1>4, <1>0, Addresses DEF Described, Listed, LinkAt
      <4>2. ASSUME NEW d \in F \ {c}
            PROVE  d \in Nat /\ (d <= b \/ c < d)
        <5>1. d \in Nat /\ c \in Nat /\ b \in Nat /\ d # c
          BY <1>0, <1>2
        <5>2. d <= b \/ c <= d
          BY <1>2
        <5> QED BY <5>1, <5>2
      <4>3. CASE h.next[c] = NULL
        BY <3>1, <4>1, <4>2, <4>3, <1>0, <1>2 DEF Follows
      <4>4. CASE h.next[c] # NULL
        <5>1. /\ h.next[c] \in F /\ c < h.next[c] /\ h.next[c] \in Nat
              /\ \A d \in F : d <= c \/ h.next[c] <= d
          BY <4>1, <4>4, <1>0 DEF Follows
        <5>2. \A d \in F \ {c} : d <= b \/ h.next[c] <= d
          BY <4>2, <5>1, <1>2
        <5> QED BY <3>1, <4>1, <4>4, <5>1, <5>2, <1>0, <1>2 DEF Follows
      <4> QED BY <4>3, <4>4
    <3>2. CASE q # b
      <4>1. LinkAt(m, q) = LinkAt(h, q)
        BY <3>2, <1>0, <1>4 DEF LinkAt
      <4>2. Follows(F, q, LinkAt(h, q))
        BY DEF Described, Listed
      <4>3. LinkAt(h, q) # c
        <5>1. q \in Int /\ (q < b \/ c < q)
          BY <3>2, <1>0, <1>2, Addresses
        <5> QED BY <4>2, <5>1, <1>0, <1>2, Addresses DEF Follows
      <4> QED BY <4>1, <4>2, <4>3 DEF Follows
    <3> QED BY <3>1, <3>2
  <2>2. \A a \in Address \ (F \ {c}) : m.next[a] = Mark(M \ {c}, a)
    BY <1>0, <1>2, <1>4 DEF Described, Listed, Mark
  <2> QED BY <2>1, <2>2, <1>0 DEF Listed
<1>7. Tiled(m, B \ {c}, end)
  <2>0. Tiled(h, B, end) /\ end \in Nat
    BY Parts
  <2>1. 0 \in B \ {c} /\ B \ {c} \subseteq 0 .. end - 1
    <3>1. c # 0 /\ 0 \in B /\ B \subseteq 0 .. end - 1
      BY <1>0, <1>2, <2>0 DEF Tiled
    <3> QED BY <3>1
  <2>2. ASSUME NEW d \in B \ {c}
        PROVE  /\ m.size[d] > 0 /\ d + m.size[d] \in (B \ {c}) \cup {end}
               /\ Aligned(d) /\ Aligned(m.size[d])
    <3>1. CASE d = b
      <4>1. /\ c + h.size[c] \in B \cup {end} /\ h.size[c] > 0 /\ h.size[b] > 0
            /\ Aligned(b) /\ Aligned(h.size[b]) /\ Aligned(h.size[c])
        BY <1>0, <1>2, <2>0 DEF Tiled
      <4>2. h.size[b] \in Nat /\ h.size[c] \in Nat
        BY <1>0, <1>1, <1>2
      <4>3. b + m.size[b] = c + h.size[c] /\ c + h.size[c] # c /\ m.size[b] > 0
        BY <1>2, <1>0, <1>4, <4>1, <4>2
      <4>4. Aligned(m.size[b])
        BY <4>1, <4>2, <1>4, AlignedParts
      <4> QED BY <3>1, <4>1, <4>3, <4>4
    <3>2. CASE d # b
      <4>1. /\ m.size[d] = h.size[d] /\ h.size[d] \in Nat /\ d \in Nat
            /\ h.size[d] > 0 /\ d + h.size[d] \in B \cup {end}
            /\ Aligned(d) /\ Aligned(h.size[d])
        BY <3>2, <1>0, <1>1, <1>4, <2>0 DEF Tiled
      <4>2. d < b => d + h.size[d] <= b
        BY <1>0, <2>0 DEF Tiled
      <4>3. b < d => c <= d
        BY <1>0, <1>2, <2>0 DEF Tiled
      <4>4. d + h.size[d] # c
        BY <4>1, <4>2, <4>3, <3>2, <1>0, <1>2
      <4> QED BY <4>1, <4>4
    <3> QED BY <3>1, <3>2
  <2>3. ASSUME NEW d \in B \ {c}, NEW e \in B \ {c}, d < e
        PROVE  d + m.size[d] <= e
    <3>0. d + h.size[d] <= e /\ d \in Nat /\ e \in Nat
      BY <2>3, <2>0, <1>0 DEF Tiled
    <3>1. CASE d = b
      <4>1. c < e
        BY <3>0, <3>1, <2>3, <1>2
      <4>2. c + h.size[c] <= e
        BY <4>1, <2>0, <1>2 DEF Tiled
      <4>3. h.size[b] \in Nat /\ h.size[c] \in Nat
        BY <1>0, <1>1, <1>2
      <4> QED BY <3>1, <4>2, <4>3, <1>0, <1>2, <1>4
    <3>2. CASE d # b
      BY <3>0, <3>2, <1>0, <1>4
    <3> QED BY <3>1, <3>2
  <2> QED BY <2>0, <2>1, <2>2, <2>3 DEF Tiled
<1>8. F \ {c} \subseteq B \ {c}
  BY <1>0
<1>9. \A d \in B \ {b, c} : m.size[d] = h.size[d]
  BY <1>0, <1>4
<1> QED BY <1>2, <1>4, <1>5, <1>6, <1>7, <1>8, <1>9 DEF Merged, Described, LinkAt

(* The block b after p gives its first n bytes away, and gets a mark.      *)
Allotted(h, p, b, n, mark) == [Carve(h, p, b, n) EXCEPT !.next[b] = mark]
Remark(M, b, mark) == IF mark = MAGIC THEN M \cup {b} ELSE M \ {b}

Carving(h, F, M, B, end, p, b, n, mark) ==
    /\ Described(h, F, M, B, end)
    /\ b \in F /\ p \in F \cup {NULL}
    /\ n \in Nat \ {0} /\ Aligned(n) /\ n <= h.size[b]
    /\ mark \in {NULL, MAGIC}

(* A block that fits exactly leaves the list.                              *)
Taken(r, h, F, M, B, end, b, mark) ==
    /\ Described(r, F \ {b}, Remark(M, b, mark), B, end)
    /\ r.size = h.size

LEMMA TakeKeeps ==
  ASSUME NEW h, NEW F, NEW M, NEW B, NEW end, NEW p, NEW b, NEW n, NEW mark,
         Carving(h, F, M, B, end, p, b, n, mark), LinkAt(h, p) = b,
         n = h.size[b],
         NEW r, r = Allotted(h, p, b, n, mark)
  PROVE  Taken(r, h, F, M, B, end, b, mark)
<1> /\ Described(h, F, M, B, end)
    /\ b \in F /\ p \in F \cup {NULL} /\ mark \in {NULL, MAGIC}
  BY DEF Carving
<1>0. /\ F \subseteq Address /\ F \subseteq Nat /\ b \in Nat /\ b \in Address
      /\ NULL = -1 /\ NULL \notin Address
      /\ MAGIC = -2 /\ mark \in {NULL, MAGIC}
  BY Addresses, Parts
<1>1. /\ h.next \in [Address -> Address \cup {NULL, MAGIC}]
      /\ h.first \in Address \cup {NULL}
      /\ h.size \in [Address -> Nat]
      /\ h = [size |-> h.size, next |-> h.next, first |-> h.first]
  BY DEF HeapRecords, Described
<1>2. /\ p < b /\ \A c \in F : c <= p \/ b <= c
      /\ Follows(F, b, h.next[b])
      /\ p \in Int
      /\ h.next[b] \in Address \cup {NULL}
  <2>1. Follows(F, p, b) /\ Follows(F, b, h.next[b])
    BY <1>0 DEF Described, Listed, LinkAt
  <2>2. h.next[b] \in F \cup {NULL} /\ p \in Int /\ b # NULL
    <3>1. h.next[b] \in F \cup {NULL}
      BY <2>1 DEF Follows
    <3>2. p \in Int /\ b # NULL
      BY <1>0
    <3> QED BY <3>1, <3>2
  <2>3. p < b /\ \A c \in F : c <= p \/ b <= c
    BY <2>1, <2>2 DEF Follows
  <2> QED BY <2>1, <2>2, <2>3, <1>0
<1> DEFINE V == Address \cup {NULL, MAGIC}
<1>v. h.next \in [Address -> V] /\ mark \in V /\ h.next[b] \in V
  BY <1>0, <1>1, <1>2
<1> HIDE DEF V
<1>3. /\ r.size = h.size
      /\ r \in HeapRecords
      /\ r.next[b] = mark
      /\ LinkAt(r, p) = h.next[b]
      /\ \A q \in (Address \cup {NULL}) \ {p, b} : LinkAt(r, q) = LinkAt(h, q)
  <2>1. CASE p = NULL
    <3>1. r = [size |-> h.size, next |-> [h.next EXCEPT ![b] = mark],
               first |-> h.next[b]]
      BY <1>0, <1>1, <2>1 DEF Allotted, Carve, SetNext
    <3>2. /\ r.size = h.size /\ r.first = h.next[b] /\ r.next[b] = mark
          /\ r.next \in [Address -> V]
          /\ \A a \in Address \ {b} : r.next[a] = h.next[a]
      BY <3>1, <1>0, <1>v
    <3> QED BY <2>1, <3>1, <3>2, <1>0, <1>1, <1>2 DEF LinkAt, HeapRecords, V
  <2>2. CASE p # NULL
    <3>1. r = [size |-> h.size,
               next |-> [[h.next EXCEPT ![p] = h.next[b]] EXCEPT ![b] = mark],
               first |-> h.first]
      BY <1>0, <1>1, <2>2 DEF Allotted, Carve, SetNext
    <3>2. /\ r.size = h.size /\ r.first = h.first /\ r.next[b] = mark
          /\ r.next[p] = h.next[b]
          /\ r.next \in [Address -> V]
          /\ \A a \in Address \ {b, p} : r.next[a] = h.next[a]
      BY <3>1, <1>0, <1>2, <1>v, <2>2
    <3> QED BY <2>2, <3>1, <3>2, <1>0, <1>1 DEF LinkAt, HeapRecords, V
  <2> QED BY <2>1, <2>2
<1>4. Listed(r, F \ {b}, Remark(M, b, mark))
  <2>1. ASSUME NEW q \in (F \ {b}) \cup {NULL}
        PROVE  Follows(F \ {b}, q, LinkAt(r, q))
    <3>1. CASE q = p
      <4>1. LinkAt(r, q) = h.next[b]
        BY <3>1, <1>3
      <4>2. \A c \in F \ {b} : c \in Nat /\ (c <= p \/ b < c)
        BY <1>0, <1>2
      <4>3. CASE h.next[b] = NULL
        BY <4>1, <4>2, <4>3, <3>1, <1>0, <1>2 DEF Follows
      <4>4. CASE h.next[b] # NULL
        <5>1. /\ h.next[b] \in F /\ b < h.next[b] /\ h.next[b] \in Nat
              /\ \A c \in F : c <= b \/ h.next[b] <= c
          BY <1>2, <4>4, <1>0 DEF Follows
        <5>2. ASSUME NEW c \in F \ {b} PROVE c <= p \/ h.next[b] <= c
          <6>1. c <= p \/ (b < c /\ (c <= b \/ h.next[b] <= c))
            BY <4>2, <5>1
          <6>2. c \in Nat
            BY <1>0
          <6> QED BY <6>1, <6>2, <1>0
        <5> QED BY <3>1, <4>1, <4>4, <5>1, <5>2, <1>0, <1>2 DEF Follows
      <4> QED BY <4>3, <4>4
    <3>2. CASE q # p
      <4>1. LinkAt(r, q) = LinkAt(h, q)
        BY <3>2, <1>0, <1>3
      <4>2. Follows(F, q, LinkAt(h, q))
        BY DEF Described, Listed
      <4>3. LinkAt(h, q) # b
        <5>1. q \in Int /\ (q < p \/ b < q)
          <6>1. CASE q = NULL
            BY <3>2, <6>1, <1>0
          <6>2. CASE q # NULL
            <7>1. q \in Nat /\ q # b /\ (q <= p \/ b <= q)
              BY <6>2, <1>0, <1>2
            <7> QED BY <7>1, <3>2, <1>0, <1>2
          <6> QED BY <6>1, <6>2
        <5> QED BY <4>2, <5>1, <1>0, <1>2 DEF Follows
      <4> QED BY <4>1, <4>2, <4>3 DEF Follows
    <3> QED BY <3>1, <3>2
  <2>2. \A a \in Address \ (F \ {b}) : r.next[a] = Mark(Remark(M, b, mark), a)
    <3>1. \A a \in Address \ F : a # p /\ r.next[a] = h.next[a]
      BY <1>0, <1>3 DEF LinkAt
    <3>2. \A a \in Address \ F : r.next[a] = Mark(M, a)
      BY <3>1 DEF Described, Listed
    <3> QED BY <3>2, <1>0, <1>3 DEF Mark, Remark
  <2> QED BY <2>1, <2>2, <1>0 DEF Listed
<1>5. Tiled(r, B, end)
  BY <1>3 DEF Described, Tiled
<1> QED BY <1>3, <1>4, <1>5 DEF Described, Taken

(* A larger block is split, and its upper part takes its place.            *)
Divided(r, h, F, M, B, end, b, n, mark) ==
    /\ b + n \notin B
    /\ Described(r, (F \ {b}) \cup {b + n}, Remark(M, b, mark), B \cup {b + n}, end)
    /\ r.size[b] = n /\ r.size[b + n] = h.size[b] - n
    /\ \A c \in B \ {b} : r.size[c] = h.size[c]

LEMMA SplitKeeps ==
  ASSUME NEW h, NEW F, NEW M, NEW B, NEW end, NEW p, NEW b, NEW n, NEW mark,
         Carving(h, F, M, B, end, p, b, n, mark), LinkAt(h, p) = b,
         n # h.size[b],
         NEW r, r = Allotted(h, p, b, n, mark)
  PROVE  Divided(r, h, F, M, B, end, b, n, mark)
<1> DEFINE u == b + n
<1> /\ Described(h, F, M, B, end)
    /\ b \in F /\ p \in F \cup {NULL} /\ mark \in {NULL, MAGIC}
    /\ n \in Nat \ {0} /\ Aligned(n) /\ n <= h.size[b]
  BY DEF Carving
<1>s. h.size[b] \in Nat /\ n < h.size[b]
  <2>1. h.size[b] \in Nat
    BY Parts
  <2> QED BY <2>1
<1>0. /\ F \subseteq B /\ B \subseteq Address /\ B \subseteq Nat
      /\ F \subseteq Address /\ F \subseteq Nat
      /\ b \in B /\ b \in Nat /\ b \in Address
      /\ NULL = -1 /\ NULL \notin Address
      /\ end \in Nat
  BY Addresses, Parts
<1>t. Tiled(h, B, end) /\ MaxHeap \in Nat
  BY Addresses, Parts
<1>m. MAGIC = -2 /\ mark \in {NULL, MAGIC}
  BY Addresses
<1>1. /\ h.next \in [Address -> Address \cup {NULL, MAGIC}]
      /\ h.first \in Address \cup {NULL}
      /\ h.size \in [Address -> Nat]
      /\ h = [size |-> h.size, next |-> h.next, first |-> h.first]
      /\ h.size[b] \in Nat
  BY <1>0 DEF HeapRecords, Described
<1>2. /\ p < b /\ \A c \in F : c <= p \/ b <= c
      /\ Follows(F, b, h.next[b])
      /\ p \in Int
      /\ h.next[b] \in Address \cup {NULL}
  <2>1. Follows(F, p, b) /\ Follows(F, b, h.next[b])
    BY <1>0 DEF Described, Listed, LinkAt
  <2>2. p < b /\ \A c \in F : c <= p \/ b <= c
    BY <2>1, <1>0 DEF Follows
  <2>3. h.next[b] \in F \cup {NULL}
    BY <2>1 DEF Follows
  <2>4. p \in Int
    BY <1>0
  <2> QED BY <2>1, <2>2, <2>3, <2>4, <1>0
<1>3. /\ u \in Nat /\ b < u /\ u < end /\ u \in Address /\ u \notin B
      /\ u < b + h.size[b]
      /\ \A c \in B : c <= b \/ u < c
  <2>1. u \in Nat /\ b < u /\ u < b + h.size[b]
    BY <1>0, <1>1
  <2>2. b + h.size[b] <= end /\ end <= MaxHeap
    <3>1. b + h.size[b] \in B \cup {end} /\ B \subseteq 0 .. end - 1 /\ end <= MaxHeap
      BY <1>0, <1>t DEF Tiled
    <3>2. \A c \in B \cup {end} : c <= end
      BY <3>1, <1>0
    <3> QED BY <3>1, <3>2
  <2>3. \A c \in B : c <= b \/ u < c
    <3>1. ASSUME NEW c \in B, b < c PROVE u < c
      <4>1. b + h.size[b] <= c /\ c \in Nat
        BY <3>1, <1>0, <1>t DEF Tiled
      <4> HIDE DEF u
      <4> QED BY <4>1, <2>1, <1>0, <1>1
    <3>2. \A c \in B : c \in Nat
      BY <1>0
    <3> HIDE DEF u
    <3> QED BY <3>1, <3>2, <1>0
  <2>4. u < end /\ u < MaxHeap
    <3>1. MaxHeap \in Nat
      BY Addresses
    <3> HIDE DEF u
    <3> QED BY <3>1, <2>1, <2>2, <1>0, <1>1
  <2>5. u \in Address /\ u \notin B
    <3>1. \A a \in Nat : a < MaxHeap => a \in Address
      BY Addresses
    <3>2. u \notin B
      <4>1. u \in B => u <= b \/ u < u
        BY <2>3
      <4> HIDE DEF u
      <4> QED BY <4>1, <2>1, <1>0
    <3> HIDE DEF u
    <3> QED BY <3>1, <3>2, <2>1, <2>4
  <2> QED BY <2>1, <2>3, <2>4, <2>5
<1>4. u # b /\ u # p /\ p # b
  BY <1>0, <1>2, <1>3
<1> DEFINE V == Address \cup {NULL, MAGIC}
<1>v. /\ h.next \in [Address -> V] /\ mark \in V /\ h.next[b] \in V
      /\ u \in V
  BY <1>0, <1>1, <1>2, <1>3, <1>m
<1> HIDE DEF V
<1>5. /\ r.size[b] = n /\ r.size[u] = h.size[b] - n
      /\ \A a \in Address \ {b, u} : r.size[a] = h.size[a]
      /\ r \in HeapRecords
      /\ r.next[b] = mark
      /\ LinkAt(r, p) = u
      /\ LinkAt(r, u) = h.next[b]
      /\ \A q \in (Address \cup {NULL}) \ {p, b, u} : LinkAt(r, q) = LinkAt(h, q)
  <2>0. h.size[b] # n
    BY <1>1
  <2> HIDE DEF u
  <2> DEFINE sizes == [[h.size EXCEPT ![u] = h.size[b] - n] EXCEPT ![b] = n]
  <2>1. /\ sizes \in [Address -> Nat]
        /\ sizes[b] = n /\ sizes[u] = h.size[b] - n
        /\ \A a \in Address \ {b, u} : sizes[a] = h.size[a]
    <3>1. h.size[b] - n \in Nat
      BY <1>1
    <3> QED BY <3>1, <1>0, <1>1, <1>2, <1>3, <1>4
  <2>2. CASE p = NULL
    <3>1. r = [size |-> sizes,
               next |-> [[h.next EXCEPT ![u] = h.next[b]] EXCEPT ![b] = mark],
               first |-> u]
      BY <1>0, <1>1, <1>4, <2>0, <2>2 DEF Allotted, Carve, SetNext, u
    <3> HIDE DEF sizes
    <3>2. /\ r.size = sizes /\ r.first = u /\ r.next[b] = mark
          /\ r.next \in [Address -> V]
          /\ r.next[u] = h.next[b]
          /\ \A a \in Address \ {b, u} : r.next[a] = h.next[a]
      BY <3>1, <1>0, <1>v, <1>3, <1>4
    <3> QED BY <2>1, <2>2, <3>1, <3>2, <1>0, <1>1, <1>3 DEF LinkAt, HeapRecords, V
  <2>3. CASE p # NULL
    <3>1. r = [size |-> sizes,
               next |-> [[[h.next EXCEPT ![u] = h.next[b]] EXCEPT ![p] = u]
                           EXCEPT ![b] = mark],
               first |-> h.first]
      BY <1>0, <1>1, <1>4, <2>0, <2>3 DEF Allotted, Carve, SetNext, u
    <3> HIDE DEF sizes
    <3>2. /\ r.size = sizes /\ r.first = h.first /\ r.next[b] = mark
          /\ r.next \in [Address -> V]
          /\ r.next[u] = h.next[b] /\ r.next[p] = u
          /\ \A a \in Address \ {b, u, p} : r.next[a] = h.next[a]
      <4>1. p \in Address /\ p # u /\ p # b /\ u # b /\ u \in Address /\ b \in Address
        BY <1>0, <1>3, <1>4, <2>3
      <4> DEFINE next0 == [[[h.next EXCEPT ![u] = h.next[b]] EXCEPT ![p] = u]
                             EXCEPT ![b] = mark]
      <4>2. /\ next0 \in [Address -> V] /\ next0[b] = mark /\ next0[u] = h.next[b]
            /\ next0[p] = u /\ \A a \in Address \ {b, u, p} : next0[a] = h.next[a]
        BY <4>1, <1>v
      <4> HIDE DEF next0
      <4>3. r = [size |-> sizes, next |-> next0, first |-> h.first]
        BY <3>1 DEF next0
      <4> QED BY <4>2, <4>3
    <3> QED BY <2>1, <2>3, <3>1, <3>2, <1>0, <1>1, <1>3 DEF LinkAt, HeapRecords, V
  <2> QED BY <2>2, <2>3
<1>6. Listed(r, (F \ {b}) \cup {u}, Remark(M, b, mark))
  <2> HIDE DEF u
  <2>0. ASSUME NEW c \in F \ {b} PROVE c \in Nat /\ (c <= p \/ u < c) /\ c # u
    <3>1. c \in Nat /\ c \in B /\ c # b
      BY <1>0
    <3>2. (c <= p \/ b <= c) /\ (c <= b \/ u < c)
      BY <3>1, <1>2, <1>3
    <3>3. c # u
      BY <3>1, <1>3
    <3> QED BY <3>1, <3>2, <3>3, <1>0
  <2>1. ASSUME NEW q \in (F \ {b}) \cup {u, NULL}
        PROVE  Follows((F \ {b}) \cup {u}, q, LinkAt(r, q))
    <3>1. CASE q = p
      BY <3>1, <2>0, <1>0, <1>2, <1>3, <1>5 DEF Follows
    <3>2. CASE q = u
      <4>1. LinkAt(r, q) = h.next[b]
        BY <3>2, <1>5
      <4>2. CASE h.next[b] = NULL
        <5>1. \A c \in (F \ {b}) \cup {u} : c <= u
          BY <4>2, <1>0, <1>2, <1>3 DEF Follows
        <5> QED BY <3>2, <4>1, <4>2, <5>1 DEF Follows
      <4>3. CASE h.next[b] # NULL
        <5>1. /\ h.next[b] \in F /\ b < h.next[b] /\ h.next[b] \in Nat
              /\ \A c \in F : c <= b \/ h.next[b] <= c
          BY <1>2, <4>3, <1>0 DEF Follows
        <5>2. u < h.next[b] /\ h.next[b] # b
          BY <5>1, <1>0, <1>3
        <5>3. \A c \in (F \ {b}) \cup {u} : c <= u \/ h.next[b] <= c
          BY <5>1, <1>0, <1>3
        <5> QED BY <3>2, <4>1, <4>3, <5>1, <5>2, <5>3 DEF Follows
      <4> QED BY <4>2, <4>3
    <3>3. CASE q # p /\ q # u
      <4>1. LinkAt(r, q) = LinkAt(h, q) /\ q \in (F \ {b}) \cup {NULL}
        BY <3>3, <1>0, <1>5
      <4>2. Follows(F, q, LinkAt(h, q))
        BY <4>1 DEF Described, Listed
      <4>3. q \in Int /\ (q < p \/ u < q)
        BY <3>3, <4>1, <2>0, <1>0, <1>2
      <4>4. LinkAt(h, q) # b
        BY <4>2, <4>3, <1>0, <1>2, <1>3 DEF Follows
      <4>5. CASE u < q
        BY <4>1, <4>2, <4>4, <4>5, <4>3, <1>3 DEF Follows
      <4>6. CASE q < p
        <5>0. p \in F
          BY <4>1, <4>6, <1>0
        <5>1. /\ LinkAt(h, q) \in F /\ LinkAt(h, q) <= p /\ q < LinkAt(h, q)
              /\ LinkAt(h, q) # NULL
          <6>1. LinkAt(h, q) # NULL
            BY <5>0, <4>2, <4>3, <4>6, <1>0 DEF Follows
          <6>2. /\ LinkAt(h, q) \in F /\ q < LinkAt(h, q)
                /\ p <= q \/ LinkAt(h, q) <= p
            BY <5>0, <6>1, <4>2 DEF Follows
          <6> QED BY <6>1, <6>2, <4>3, <4>6, <5>0, <1>0
        <5>2. LinkAt(h, q) <= u /\ LinkAt(h, q) # NULL
          <6>1. LinkAt(h, q) \in Nat /\ p \in Nat
            BY <5>0, <5>1, <1>0
          <6> QED BY <6>1, <5>1, <1>0, <1>2, <1>3
        <5> QED BY <4>1, <4>2, <4>4, <5>1, <5>2 DEF Follows
      <4> QED BY <4>3, <4>5, <4>6
    <3> QED BY <3>1, <3>2, <3>3
  <2>2. ASSUME NEW a \in Address \ ((F \ {b}) \cup {u})
        PROVE  r.next[a] = Mark(Remark(M, b, mark), a)
    <3>1. CASE a = b
      BY <3>1, <1>0, <1>5, <1>m DEF Mark, Remark
    <3>2. CASE a # b
      <4>1. a \in Address \ F /\ a # u /\ a # p /\ r.next[a] = h.next[a]
        BY <3>2, <1>0, <1>5 DEF LinkAt
      <4>2. r.next[a] = Mark(M, a)
        BY <4>1 DEF Described, Listed
      <4> QED BY <4>2, <3>2 DEF Mark, Remark
    <3> QED BY <3>1, <3>2
  <2> QED BY <2>1, <2>2, <1>0, <1>3 DEF Listed
<1>7. Tiled(r, B \cup {u}, end)
  <2> HIDE DEF u
  <2>1. 0 \in B \cup {u} /\ B \cup {u} \subseteq 0 .. end - 1
        /\ end \in 0 .. MaxHeap
    <3>1. 0 \in B /\ B \subseteq 0 .. end - 1 /\ end \in 0 .. MaxHeap
      BY <1>t DEF Tiled
    <3>2. u \in 0 .. end - 1
      BY <1>0, <1>3
    <3> QED BY <3>1, <3>2
  <2>2. ASSUME NEW d \in B \cup {u}
        PROVE  /\ r.size[d] > 0 /\ d + r.size[d] \in B \cup {u} \cup {end}
               /\ Aligned(d) /\ Aligned(r.size[d])
    <3>0. Aligned(b) /\ Aligned(h.size[b]) /\ Aligned(n)
      BY <1>0, <1>t DEF Tiled
    <3>1. CASE d = b
      BY <3>0, <3>1, <1>5 DEF u
    <3>2. CASE d = u
      <4>1. u + r.size[u] = b + h.size[b] /\ r.size[u] > 0
        BY <1>0, <1>1, <1>5 DEF u
      <4>2. b + h.size[b] \in B \cup {end}
        BY <1>0, <1>t DEF Tiled
      <4>3. Aligned(u) /\ Aligned(r.size[u])
        <5>1. Aligned(b + n) /\ Aligned(h.size[b] - n)
          BY <3>0, <1>0, <1>1, AlignedParts
        <5> QED BY <5>1, <1>5 DEF u
      <4> QED BY <3>2, <4>1, <4>2, <4>3
    <3>3. CASE d # b /\ d # u
      <4>1. r.size[d] = h.size[d] /\ d \in B
        BY <3>3, <1>0, <1>5
      <4> QED BY <4>1, <1>0, <1>t DEF Tiled
    <3> QED BY <3>1, <3>2, <3>3
  <2>3. ASSUME NEW d \in B \cup {u}, NEW e \in B \cup {u}, d < e
        PROVE  d + r.size[d] <= e
    <3>1. CASE d = b
      <4>1. b + n = u /\ (e = u \/ u < e) /\ e \in Nat
        <5>1. e # u => e \in Nat /\ (e <= b \/ u < e)
          BY <1>0, <1>3
        <5>2. b + n = u
          BY DEF u
        <5> QED BY <5>1, <5>2, <2>3, <3>1, <1>0, <1>3
      <4> QED BY <3>1, <4>1, <1>3, <1>5
    <3>2. CASE d = u
      <4>1. e \in B /\ b < e
        <5>1. u < e /\ u # e
          BY <2>3, <3>2, <1>3
        <5>2. e \in B /\ e \in Nat
          BY <5>1, <1>0
        <5> QED BY <5>1, <5>2, <1>0, <1>3
      <4>2. b + h.size[b] <= e
        BY <4>1, <1>0, <1>t DEF Tiled
      <4> QED BY <3>2, <4>2, <1>0, <1>1, <1>5 DEF u
    <3>3. CASE d # b /\ d # u
      <4>1. r.size[d] = h.size[d] /\ d \in B /\ d \in Nat /\ h.size[d] \in Nat
        BY <3>3, <1>0, <1>1, <1>5
      <4>2. CASE e = u
        <5>1. d < b
          BY <2>3, <3>3, <4>1, <4>2, <1>0, <1>3
        <5>2. d + h.size[d] <= b
          BY <4>1, <5>1, <1>0, <1>t DEF Tiled
        <5> QED BY <4>1, <4>2, <5>2, <1>0, <1>3
      <4>3. CASE e # u
        BY <2>3, <4>1, <4>3, <1>0, <1>t DEF Tiled
      <4> QED BY <4>2, <4>3
    <3> QED BY <3>1, <3>2, <3>3
  <2> QED BY <2>1, <2>2, <2>3, <1>t DEF Tiled
<1>8. \A c \in B \ {b} : r.size[c] = h.size[c]
  BY <1>0, <1>3, <1>5
<1>9. (F \ {b}) \cup {u} \subseteq B \cup {u}
  BY <1>0
<1> QED BY <1>3, <1>5, <1>6, <1>7, <1>8, <1>9 DEF Described, Divided

-----------------------------------------------------------------------------
(* Where free blocks may meet: at a multiple of HEAP_SIZE, or in E.        *)
Ends(h, b) == b + h.size[b]
Apart(h, F, E) == \A b \in F : Ends(h, b) \in F \ E => Ends(h, b) % HEAP_SIZE = 0

(* A block of the heap that is not on the list is linked in after p.       *)
Inserting(h, F, M, B, end, a, p, n) ==
    /\ Described(h, F, M, B, end) /\ Apart(h, F, {})
    /\ a \in B \ F /\ p \in F \cup {NULL} /\ p < a
    /\ n = LinkAt(h, p) /\ (n = NULL \/ a <= n)
Inserted(i, h, F, M, B, end, a, p, n) ==
    /\ Described(i, F \cup {a}, M \ {a}, B, end)
    /\ Apart(i, F \cup {a}, {a, n})
    /\ LinkAt(i, p) = a /\ LinkAt(i, a) = n
    /\ i.size = h.size

LEMMA InsertStep ==
  ASSUME NEW h, NEW F, NEW M, NEW B, NEW end, NEW a, NEW p, NEW n,
         Inserting(h, F, M, B, end, a, p, n),
         NEW i, i = SetNext([h EXCEPT !.next[a] = n], p, a)
  PROVE  Inserted(i, h, F, M, B, end, a, p, n)
<1>i. /\ Described(h, F, M, B, end) /\ Apart(h, F, {})
      /\ a \in B \ F /\ p \in F \cup {NULL} /\ p < a
      /\ n = LinkAt(h, p) /\ (n = NULL \/ a <= n)
  BY DEF Inserting
<1>0. /\ F \subseteq B /\ B \subseteq Address /\ B \subseteq Nat
      /\ Tiled(h, B, end) /\ Listed(h, F, M) /\ h \in HeapRecords
      /\ \A b \in B : h.size[b] \in Nat /\ h.size[b] > 0
      /\ NULL = -1 /\ a \in Nat /\ a \in Address
  BY <1>i, Addresses, Parts
<1>1. Follows(F, p, n)
  BY <1>0, <1>i DEF Listed
<1>2. n = NULL \/ (n \in F /\ a < n)
  BY <1>0, <1>1, <1>i DEF Follows
<1>3. /\ i \in HeapRecords /\ i.size = h.size
      /\ Listed(i, F \cup {a}, M \ {a})
      /\ LinkAt(i, p) = a /\ LinkAt(i, a) = n
  <2>1. a \in Address \ F /\ (n = NULL \/ a < n)
    BY <1>0, <1>2, <1>i
  <2>2. h \in HeapRecords /\ Listed(h, F, M)
    BY <1>0
  <2> QED BY <2>1, <2>2, <1>i, InsertKeeps
<1>4. Described(i, F \cup {a}, M \ {a}, B, end)
  <2>1. Tiled(i, B, end)
    BY <1>0, <1>3 DEF Tiled
  <2> QED BY <2>1, <1>0, <1>3, <1>i DEF Described
<1>5. ASSUME NEW q \in F \cup {a}, Ends(i, q) \in (F \cup {a}) \ {a, n}
      PROVE  Ends(i, q) % HEAP_SIZE = 0
  <2>1. Ends(i, q) = Ends(h, q) /\ Ends(h, q) \in F /\ Ends(h, q) # n
    BY <1>3, <1>5 DEF Ends
  <2>2. CASE q \in F
    BY <2>1, <2>2, <1>i DEF Apart
  <2>3. CASE q = a
    <3> DEFINE e == Ends(h, a)
    <3>1. e \in F /\ e \in Nat /\ e \in B /\ a < e /\ e # n
      <4>1. a \in B /\ h.size[a] \in Nat /\ h.size[a] > 0
        BY <1>0, <1>i
      <4>2. e \in F /\ e # n
        BY <2>1, <2>3
      <4>3. a < a + h.size[a]
        BY <4>1, <1>0
      <4> QED BY <4>2, <4>3, <1>0 DEF Ends
    <3>2. n # NULL /\ n \in F /\ n <= e
      <4>1. ~(e <= p)
        BY <3>1, <1>0, <1>i
      <4>2. n # NULL
        BY <1>1, <3>1, <4>1 DEF Follows
      <4>3. e <= p \/ n <= e
        BY <1>1, <4>2, <3>1 DEF Follows
      <4> QED BY <4>1, <4>2, <4>3, <1>2
    <3>3. e <= n
      BY <3>2, <1>0, <1>2, <1>i DEF Tiled, Ends
    <3> HIDE DEF e
    <3> QED BY <3>1, <3>2, <3>3, <1>0
  <2> QED BY <2>2, <2>3
<1>6. Apart(i, F \cup {a}, {a, n})
  BY <1>5 DEF Apart
<1> QED BY <1>3, <1>4, <1>6 DEF Inserted

(* The attempt to merge what is at a place of the list with what follows:  *)
(* afterwards no free block ends where the other began.                    *)
Merging(h, F, M, B, end, b, c, E) ==
    /\ Described(h, F, M, B, end) /\ Apart(h, F, E \cup {c})
    /\ b \in F \cup {NULL} /\ c = LinkAt(h, b)
Tried(m, h, F, M, B, end, b, c, E, G) ==
    /\ Described(m, F \ G, M \ G, B \ G, end)
    /\ Apart(m, F \ G, E)
    /\ G \subseteq F
    /\ \A d \in B \ ({b} \cup G) : m.size[d] = h.size[d]
    /\ b \notin G
    /\ LinkAt(m, b) = IF G = {} THEN c ELSE LinkAt(h, c)
    /\ \A q \in (F \cup {NULL}) \ ({b} \cup G) : LinkAt(m, q) = LinkAt(h, q)
Swallowed(h, b, c) == IF Touches(h, b, c) THEN {c} ELSE {}

LEMMA MergeStep ==
  ASSUME NEW h, NEW F, NEW M, NEW B, NEW end, NEW b, NEW c, NEW E,
         Merging(h, F, M, B, end, b, c, E)
  PROVE  Tried(Merge(h, b, c), h, F, M, B, end, b, c, E, Swallowed(h, b, c))
<1> DEFINE m == Merge(h, b, c)
           G == Swallowed(h, b, c)
<1>i. /\ Described(h, F, M, B, end) /\ Apart(h, F, E \cup {c})
      /\ b \in F \cup {NULL} /\ c = LinkAt(h, b)
      /\ m = Merge(h, b, c)
      /\ G = IF Touches(h, b, c) THEN {c} ELSE {}
  BY DEF Merging, Swallowed
<1> HIDE DEF m, G
<1>0. /\ F \subseteq B /\ B \subseteq Address /\ B \subseteq Nat /\ F \subseteq Nat
      /\ Tiled(h, B, end) /\ Listed(h, F, M) /\ h \in HeapRecords
      /\ \A d \in B : h.size[d] \in Nat /\ h.size[d] > 0
      /\ NULL = -1
  BY <1>i, Addresses, Parts
<1>1. Follows(F, b, c) /\ c \in F \cup {NULL}
  BY <1>0, <1>i DEF Listed, Follows
<1>2. \A d, e \in B : d < e => Ends(h, d) <= e
  BY <1>0 DEF Tiled, Ends
<1>3. ASSUME NEW d \in B
      PROVE  Ends(h, d) \in Nat /\ d < Ends(h, d)
  <2>1. d \in Nat /\ h.size[d] \in Nat /\ h.size[d] > 0
    BY <1>0
  <2> QED BY <2>1 DEF Ends
<1>4. ASSUME NEW q \in F, Ends(h, q) = c PROVE q = b
  <2>1. c \in F /\ q < c /\ q \in Nat /\ c \in Nat
    BY <1>0, <1>1, <1>3, <1>4
  <2>2. q <= b
    BY <2>1, <1>0, <1>1, <1>i DEF Follows
  <2>3. b \in F /\ b \in B /\ b < c
    BY <2>1, <2>2, <1>0, <1>1, <1>i DEF Follows
  <2>4. q < b => c <= b
    BY <2>3, <1>0, <1>2, <1>4
  <2> QED BY <2>1, <2>2, <2>3, <2>4, <1>0
<1>5. CASE Touches(h, b, c)
  <2>1. G = {c} /\ b \in F /\ c \in F /\ b # NULL /\ Ends(h, b) = c /\ c = h.next[b]
    BY <1>1, <1>5, <1>0, <1>i DEF Touches, LinkAt, Ends
  <2>2. Merged(h, m, F, M, B, end, b, c)
    BY <2>1, <1>5, <1>i, MergeKeeps
  <2>3. b < c /\ b # c /\ b \in B /\ c \in B /\ c # NULL
    BY <2>1, <1>0, <1>3
  <2>4. \A q \in (F \cup {NULL}) \ {b, c} : LinkAt(m, q) = LinkAt(h, q)
    <3>1. m = [h EXCEPT !.size[b] = @ + h.size[c], !.next[b] = h.next[c],
                        !.size[c] = 0,             !.next[c] = NULL]
      BY <1>5, <1>i DEF Merge
    <3>2. h.next \in [Address -> Address \cup {NULL, MAGIC}]
      BY <1>0 DEF HeapRecords
    <3>3. /\ m.first = h.first
          /\ \A q \in Address \ {b, c} : m.next[q] = h.next[q]
      BY <3>1, <3>2, <1>0 DEF HeapRecords
    <3> QED BY <3>3, <1>0 DEF LinkAt
  <2>5. LinkAt(m, b) = LinkAt(h, c)
    BY <2>1, <2>2, <2>3 DEF Merged, LinkAt
  <2>6. ASSUME NEW q \in F \ {c}, Ends(m, q) \in (F \ {c}) \ E
        PROVE  Ends(m, q) % HEAP_SIZE = 0
    <3>1. CASE q = b
      <4>1. Ends(m, b) = Ends(h, c)
        BY <2>1, <2>2, <2>3, <1>0 DEF Merged, Ends
      <4> QED BY <4>1, <3>1, <2>6, <2>1, <1>i DEF Apart
    <3>2. CASE q # b
      <4>1. Ends(m, q) = Ends(h, q)
        BY <3>2, <2>2, <1>0 DEF Merged, Ends
      <4> QED BY <4>1, <2>6, <1>i DEF Apart
    <3> QED BY <3>1, <3>2
  <2>7. Apart(m, F \ G, E)
    BY <2>1, <2>6 DEF Apart
  <2>8. /\ Described(m, F \ G, M \ G, B \ G, end)
        /\ \A d \in B \ ({b} \cup G) : m.size[d] = h.size[d]
    BY <2>1, <2>2 DEF Merged
  <2>9. Tried(m, h, F, M, B, end, b, c, E, G)
    BY <2>1, <2>3, <2>4, <2>5, <2>7, <2>8 DEF Tried
  <2> QED BY <2>9 DEF m, G
<1>6. CASE ~Touches(h, b, c)
  <2>1. G = {} /\ m = h
    BY <1>6, <1>i DEF Merge
  <2>2. \A q \in F : Ends(h, q) # c
    <3> SUFFICES ASSUME NEW q \in F, Ends(h, q) = c PROVE FALSE
      OBVIOUS
    <3>1. q = b /\ b \in F /\ b # NULL /\ c # NULL
      BY <1>4, <1>0, <1>1, <1>3, <1>i
    <3> QED BY <3>1, <1>6 DEF Touches, Ends
  <2>3. Apart(h, F, E)
    BY <2>2, <1>i DEF Apart
  <2>4. Tried(m, h, F, M, B, end, b, c, E, G)
    BY <2>1, <2>3, <1>i DEF Tried
  <2> QED BY <2>4 DEF m, G
<1> QED BY <1>5, <1>6

(* Linked in and merged both ways, in either order: the block a is free,   *)
(* the blocks in use are as they were, and free blocks are apart.          *)
Rejoined(h, m, F, M, B, end, a, base) ==
    \E F1, B1 : /\ Described(m, F1, M \ {a}, B1, end)
                /\ Apart(m, F1, {})
                /\ F1 \cap (B \ F) \subseteq {a}
                /\ B1 \ F1 = (B \ F) \ {a}
                /\ \A d \in (B \ F) \ {a} : m.size[d] = h.size[d]
                /\ base \in F1

LEMMA FreedKeeps ==
  ASSUME NEW h, NEW F, NEW M, NEW B, NEW end, Described(h, F, M, B, end),
         Apart(h, F, {}), M \cap F = {}, NEW a \in B \ F, NEW s, Lists(h, F, s)
  PROVE  Rejoined(h, Freed(h, a, s), F, M, B, end, a, FreedBase(h, a, s))
<1> DEFINE p == At(s, Place(s, a) - 1)
           n == At(s, Place(s, a))
           i == Insert(h, a, s)
           k == Merge(i, p, a)
           b == FreedBase(h, a, s)
           m == Freed(h, a, s)
           G == Swallowed(i, p, a)
           K == Swallowed(k, b, n)
           F1 == F \cup {a}
<1>0. /\ F \subseteq B /\ B \subseteq Nat /\ F \subseteq Nat /\ a \in Nat
      /\ Listed(h, F, M) /\ NULL = -1
  BY Addresses, Parts
<1>1. /\ p \in F \cup {NULL} /\ p < a /\ n = LinkAt(h, p) /\ (n = NULL \/ a <= n)
      /\ n \in F \cup {NULL}
  <2>1. Placed(h, F, s, a, Place(s, a))
    BY <1>0, PlaceIs
  <2> QED BY <2>1 DEF Placed
<1>2. i = SetNext([h EXCEPT !.next[a] = n], p, a)
  BY DEF Insert
<1>3. /\ b = IF Touches(h, p, a) THEN p ELSE a
      /\ m = Merge(k, b, n)
  BY DEF FreedBase, Freed
<1> HIDE DEF p, n, i, b, m
<1>4. /\ Described(i, F1, M \ {a}, B, end)
      /\ Apart(i, F1, {n} \cup {a})
      /\ LinkAt(i, p) = a /\ LinkAt(i, a) = n
      /\ i.size = h.size
  <2>1. {n} \cup {a} = {a, n}
    OBVIOUS
  <2>2. Inserting(h, F, M, B, end, a, p, n)
    BY <1>1 DEF Inserting
  <2>3. Inserted(i, h, F, M, B, end, a, p, n)
    BY <1>2, <2>2, InsertStep
  <2> QED BY <2>1, <2>3 DEF Inserted
<1>5. Touches(i, p, a) <=> Touches(h, p, a)
  BY <1>4 DEF Touches
<1> HIDE DEF G, K, F1, k
<1>6. /\ Described(k, F1 \ G, (M \ {a}) \ G, B \ G, end)
      /\ Apart(k, F1 \ G, {n})
      /\ G \subseteq F1 /\ p \notin G
      /\ \A d \in B \ ({p} \cup G) : k.size[d] = i.size[d]
      /\ LinkAt(k, p) = IF G = {} THEN a ELSE LinkAt(i, a)
      /\ \A q \in (F1 \cup {NULL}) \ ({p} \cup G) : LinkAt(k, q) = LinkAt(i, q)
  <2>1. Merging(i, F1, M \ {a}, B, end, p, a, {n})
    <3>1. p \in F1 \cup {NULL}
      BY <1>1 DEF F1
    <3> QED BY <3>1, <1>4 DEF Merging
  <2>2. Tried(Merge(i, p, a), i, F1, M \ {a}, B, end, p, a, {n}, Swallowed(i, p, a))
    BY <2>1, MergeStep
  <2> QED BY <2>2 DEF Tried, k, G
<1>7. b \in F1 \ G /\ LinkAt(k, b) = n
  <2>1. CASE Touches(h, p, a)
    <3>1. G = {a} /\ b = p /\ p # NULL /\ p # a
      BY <2>1, <1>0, <1>1, <1>3, <1>5 DEF G, Touches, Swallowed
    <3> QED BY <3>1, <1>1, <1>4, <1>6 DEF F1
  <2>2. CASE ~Touches(h, p, a)
    <3>1. G = {} /\ b = a /\ p # a
      BY <2>2, <1>0, <1>1, <1>3, <1>5 DEF G, Swallowed
    <3> QED BY <3>1, <1>4, <1>6 DEF F1
  <2> QED BY <2>1, <2>2
<1>8. /\ Described(m, (F1 \ G) \ K, ((M \ {a}) \ G) \ K, (B \ G) \ K, end)
      /\ Apart(m, (F1 \ G) \ K, {})
      /\ K \subseteq F1 \ G /\ b \notin K
      /\ \A d \in (B \ G) \ ({b} \cup K) : m.size[d] = k.size[d]
  <2>1. Merging(k, F1 \ G, (M \ {a}) \ G, B \ G, end, b, n, {})
    BY <1>6, <1>7 DEF Merging
  <2>2. Tried(Merge(k, b, n), k, F1 \ G, (M \ {a}) \ G, B \ G, end, b, n, {}, Swallowed(k, b, n))
    BY <2>1, MergeStep
  <2> QED BY <2>2, <1>3 DEF Tried, K
<1>9. ((M \ {a}) \ G) \ K = M \ {a}
  BY <1>6, <1>8 DEF F1
<1>10. /\ ((B \ G) \ K) \ ((F1 \ G) \ K) = (B \ F) \ {a}
       /\ ((F1 \ G) \ K) \cap (B \ F) \subseteq {a}
       /\ b \in (F1 \ G) \ K
  BY <1>6, <1>7, <1>8 DEF F1
<1>11. \A d \in (B \ F) \ {a} : m.size[d] = h.size[d]
  BY <1>0, <1>1, <1>4, <1>6, <1>7, <1>8 DEF F1
<1> QED BY <1>8, <1>9, <1>10, <1>11 DEF Rejoined, m, b

LEMMA SolutionFreedKeeps ==
  ASSUME NEW h, NEW F, NEW M, NEW B, NEW end, Described(h, F, M, B, end),
         Apart(h, F, {}), M \cap F = {}, NEW a \in B \ F, NEW s, Lists(h, F, s)
  PROVE  \E base : Rejoined(h, SolutionFreed(h, a, s), F, M, B, end, a, base)
<1> DEFINE p == At(s, Place(s, a) - 1)
           n == At(s, Place(s, a))
           i == Insert(h, a, s)
           k == Merge(i, a, n)
           m == SolutionFreed(h, a, s)
           G == Swallowed(i, a, n)
           K == Swallowed(k, p, a)
           F1 == F \cup {a}
<1>0. /\ F \subseteq B /\ B \subseteq Nat /\ F \subseteq Nat /\ a \in Nat
      /\ Listed(h, F, M) /\ NULL = -1
  BY Addresses, Parts
<1>1. /\ p \in F \cup {NULL} /\ p < a /\ n = LinkAt(h, p) /\ (n = NULL \/ a <= n)
      /\ n \in F \cup {NULL}
  <2>1. Placed(h, F, s, a, Place(s, a))
    BY <1>0, PlaceIs
  <2> QED BY <2>1 DEF Placed
<1>2. i = SetNext([h EXCEPT !.next[a] = n], p, a)
  BY DEF Insert
<1>3. m = Merge(k, p, a)
  BY DEF SolutionFreed
<1> HIDE DEF p, n, i, m
<1>4. /\ Described(i, F1, M \ {a}, B, end)
      /\ Apart(i, F1, {a} \cup {n})
      /\ LinkAt(i, p) = a /\ LinkAt(i, a) = n
      /\ i.size = h.size
  <2>1. {a} \cup {n} = {a, n}
    OBVIOUS
  <2>2. Inserting(h, F, M, B, end, a, p, n)
    BY <1>1 DEF Inserting
  <2>3. Inserted(i, h, F, M, B, end, a, p, n)
    BY <1>2, <2>2, InsertStep
  <2> QED BY <2>1, <2>3 DEF Inserted
<1> HIDE DEF G, K, F1, k
<1>5. /\ Described(k, F1 \ G, (M \ {a}) \ G, B \ G, end)
      /\ Apart(k, F1 \ G, {a})
      /\ G \subseteq F1 /\ a \notin G
      /\ \A d \in B \ ({a} \cup G) : k.size[d] = i.size[d]
      /\ \A q \in (F1 \cup {NULL}) \ ({a} \cup G) : LinkAt(k, q) = LinkAt(i, q)
  <2>1. Merging(i, F1, M \ {a}, B, end, a, n, {a})
    <3>1. a \in F1 \cup {NULL}
      BY DEF F1
    <3> QED BY <3>1, <1>4 DEF Merging
  <2>2. Tried(Merge(i, a, n), i, F1, M \ {a}, B, end, a, n, {a}, Swallowed(i, a, n))
    BY <2>1, MergeStep
  <2> QED BY <2>2 DEF Tried, k, G
<1>6. p \in (F1 \ G) \cup {NULL} /\ LinkAt(k, p) = a
  <2>1. p \notin G /\ p # a
    <3>1. p \in Int /\ p < a
      BY <1>0, <1>1
    <3>2. n # NULL => p < n
      <4>1. n # NULL => n \in Nat /\ a <= n
        BY <1>0, <1>1
      <4> QED BY <4>1, <3>1, <1>0
    <3>3. G = {} \/ (G = {n} /\ n # NULL)
      BY DEF G, Swallowed, Touches
    <3>4. p # a
      BY <3>1, <1>0
    <3>5. n # NULL => p # n
      BY <3>1, <3>2, <1>0
    <3> QED BY <3>3, <3>4, <3>5
  <2> QED BY <2>1, <1>1, <1>4, <1>5 DEF F1
<1>7. /\ Described(m, (F1 \ G) \ K, ((M \ {a}) \ G) \ K, (B \ G) \ K, end)
      /\ Apart(m, (F1 \ G) \ K, {})
      /\ K \subseteq F1 \ G /\ p \notin K
      /\ \A d \in (B \ G) \ ({p} \cup K) : m.size[d] = k.size[d]
  <2>1. Merging(k, F1 \ G, (M \ {a}) \ G, B \ G, end, p, a, {})
    BY <1>5, <1>6 DEF Merging
  <2>2. Tried(Merge(k, p, a), k, F1 \ G, (M \ {a}) \ G, B \ G, end, p, a, {}, Swallowed(k, p, a))
    BY <2>1, MergeStep
  <2> QED BY <2>2, <1>3 DEF Tried, K
<1>8. ((M \ {a}) \ G) \ K = M \ {a}
  BY <1>5, <1>7 DEF F1
<1>9. /\ ((B \ G) \ K) \ ((F1 \ G) \ K) = (B \ F) \ {a}
      /\ ((F1 \ G) \ K) \cap (B \ F) \subseteq {a}
      /\ \E base : base \in (F1 \ G) \ K
  <2>1. /\ ((B \ G) \ K) \ ((F1 \ G) \ K) = (B \ F) \ {a}
        /\ ((F1 \ G) \ K) \cap (B \ F) \subseteq {a}
    BY <1>5, <1>7 DEF F1
  <2>2. CASE K = {}
    BY <2>1, <2>2, <1>5 DEF F1
  <2>3. CASE K # {}
    <3>1. p # NULL /\ p \in F
      BY <2>3, <1>1 DEF K, Touches, Swallowed
    <3> QED BY <3>1, <2>1, <1>6, <1>7 DEF F1
  <2> QED BY <2>2, <2>3
<1>10. \A d \in (B \ F) \ {a} : m.size[d] = h.size[d]
  BY <1>0, <1>1, <1>4, <1>5, <1>7 DEF F1
<1> QED BY <1>7, <1>8, <1>9, <1>10 DEF Rejoined, m

(* An allocation in the free block b: the free blocks stay listed and      *)
(* apart, and the blocks in use are as they were.                          *)
Carved(r, h, F, M, B, end, p, b, n, mark) ==
    \E F1, B1 : /\ Described(r, F1, Remark(M, b, mark), B1, end)
                /\ Apart(r, F1, {})
                /\ B1 \ F1 = (B \ F) \cup {b}
                /\ p \in F1 \cup {NULL}

LEMMA CarveStep ==
  ASSUME NEW h, NEW F, NEW M, NEW B, NEW end, NEW p, NEW b, NEW n, NEW mark,
         Carving(h, F, M, B, end, p, b, n, mark), Apart(h, F, {}),
         LinkAt(h, p) = b,
         NEW r, r = Allotted(h, p, b, n, mark)
  PROVE  Carved(r, h, F, M, B, end, p, b, n, mark)
<1>i. /\ Described(h, F, M, B, end)
      /\ b \in F /\ p \in F \cup {NULL}
      /\ n \in Nat \ {0} /\ Aligned(n) /\ n <= h.size[b]
      /\ mark \in {NULL, MAGIC}
  BY DEF Carving
<1>0. /\ F \subseteq B /\ B \subseteq Nat /\ F \subseteq Nat
      /\ Tiled(h, B, end) /\ Listed(h, F, M) /\ end \in Nat
      /\ \A d \in B : h.size[d] \in Nat /\ h.size[d] > 0
      /\ NULL = -1
  BY <1>i, Addresses, Parts
<1>1. p # b
  <2>1. Follows(F, p, b) /\ b # NULL
    BY <1>0, <1>i DEF Listed
  <2>2. p < b /\ p \in Int /\ b \in Nat
    BY <2>1, <1>0, <1>i DEF Follows
  <2> QED BY <2>2
<1>2. CASE n = h.size[b]
  <2>1. Described(r, F \ {b}, Remark(M, b, mark), B, end) /\ r.size = h.size
    <3>1. Taken(r, h, F, M, B, end, b, mark)
      BY <1>2, TakeKeeps
    <3> QED BY <3>1 DEF Taken
  <2>2. Apart(r, F \ {b}, {})
    BY <2>1 DEF Apart, Ends
  <2>3. B \ (F \ {b}) = (B \ F) \cup {b} /\ p \in (F \ {b}) \cup {NULL}
    BY <1>0, <1>1, <1>i
  <2> QED BY <2>1, <2>2, <2>3 DEF Carved
<1>3. CASE n # h.size[b]
  <2> DEFINE u == b + n
             F1 == (F \ {b}) \cup {u}
             B1 == B \cup {u}
  <2>2. /\ u \notin B
        /\ Described(r, F1, Remark(M, b, mark), B1, end)
        /\ r.size[b] = n /\ r.size[u] = h.size[b] - n
        /\ \A c \in B \ {b} : r.size[c] = h.size[c]
    <3>1. Divided(r, h, F, M, B, end, b, n, mark)
      BY <1>3, SplitKeeps
    <3> QED BY <3>1 DEF Divided
  <2>3. u + r.size[u] = b + h.size[b]
    <3>1. h.size[b] \in Nat /\ b \in Nat
      BY <1>0, <1>i
    <3> QED BY <3>1, <2>2, <1>i
  <2>4. u # end
    <3>1. Tiled(r, B1, end)
      BY <2>2 DEF Described
    <3>2. u \in 0 .. end - 1
      BY <3>1 DEF Tiled
    <3> HIDE DEF u
    <3> QED BY <3>2, <1>0
  <2> HIDE DEF u
  <2>5. ASSUME NEW q \in F1, Ends(r, q) \in F1 \ {}
        PROVE  Ends(r, q) % HEAP_SIZE = 0
    <3>1. CASE q = u
      <4>1. Ends(r, q) = Ends(h, b)
        BY <2>3, <3>1 DEF Ends
      <4>2. Ends(h, b) \in B \cup {end}
        BY <1>0, <1>i DEF Tiled, Ends
      <4>3. Ends(h, b) # u
        BY <2>2, <2>4, <4>2
      <4> QED BY <2>5, <4>1, <4>3, <1>i DEF Apart
    <3>2. CASE q # u
      <4>1. q \in F \ {b} /\ q \in B
        BY <3>2, <1>0
      <4>2. Ends(r, q) = Ends(h, q)
        BY <2>2, <4>1, <1>0 DEF Ends
      <4>3. Ends(h, q) \in B \cup {end}
        BY <4>1, <1>0 DEF Tiled, Ends
      <4>4. Ends(h, q) # u
        BY <2>2, <2>4, <4>3
      <4> QED BY <2>5, <4>1, <4>2, <4>4 DEF Apart
    <3> QED BY <3>1, <3>2
  <2>6. Apart(r, F1, {})
    BY <2>5 DEF Apart
  <2>7. B1 \ F1 = (B \ F) \cup {b} /\ p \in F1 \cup {NULL}
    BY <2>2, <1>0, <1>1, <1>i
  <2> QED BY <2>2, <2>6, <2>7 DEF Carved
<1> QED BY <1>2, <1>3

(* The sizes do not depend on the pointer that is written.                 *)
CarvedSizes(r, h, B, p, b, n, mark) ==
    /\ r \in HeapRecords
    /\ r.size[b] = n
    /\ \A c \in B \ {b} : r.size[c] = h.size[c]
    /\ mark = NULL => LinkAt(r, p) \in Address \cup {NULL}

LEMMA CarveSizes ==
  ASSUME NEW h, NEW F, NEW M, NEW B, NEW end, NEW p, NEW b, NEW n, NEW mark,
         Carving(h, F, M, B, end, p, b, n, mark),
         NEW r, r = Allotted(h, p, b, n, mark)
  PROVE  CarvedSizes(r, h, B, p, b, n, mark)
<1>i. /\ Described(h, F, M, B, end)
      /\ b \in F /\ p \in F \cup {NULL}
      /\ n \in Nat \ {0} /\ n <= h.size[b]
      /\ mark \in {NULL, MAGIC}
  BY DEF Carving
<1>0. /\ F \subseteq B /\ B \subseteq Nat /\ F \subseteq Address
      /\ B \subseteq Address
      /\ Tiled(h, B, end) /\ Listed(h, F, M) /\ end \in Nat /\ end <= MaxHeap
      /\ \A d \in B : h.size[d] \in Nat /\ h.size[d] > 0 /\ d < end
      /\ NULL = -1 /\ MAGIC = -2 /\ NULL \notin Address /\ MaxHeap \in Nat
      /\ \A a \in Nat : a < MaxHeap => a \in Address
  BY <1>i, Addresses, Parts
<1> DEFINE V == Address \cup {NULL, MAGIC}
           W == Address \cup {NULL}
           u == b + n
<1>1. /\ h.next \in [Address -> V] /\ h.first \in W /\ h.size \in [Address -> Nat]
      /\ h = [size |-> h.size, next |-> h.next, first |-> h.first]
  BY <1>i DEF HeapRecords, Described
<1>2. b \in Address /\ b \in B /\ b \in Nat /\ mark \in V
  BY <1>0, <1>i
<1>3. h.next[b] \in W /\ h.next[b] \in V
  <2>1. Follows(F, b, LinkAt(h, b)) /\ b # NULL
    BY <1>0, <1>2, <1>i DEF Listed
  <2> QED BY <2>1, <1>0 DEF Follows, LinkAt
<1>4. CASE n = h.size[b]
  <2>1. CASE p = NULL
    <3>1. r = [size |-> h.size, next |-> [h.next EXCEPT ![b] = mark],
               first |-> h.next[b]]
      BY <1>1, <1>2, <1>4, <2>1 DEF Allotted, Carve, SetNext
    <3> HIDE DEF V, W
    <3>2. [h.next EXCEPT ![b] = mark] \in [Address -> V]
      BY <1>1, <1>2
    <3>3. r \in HeapRecords
      BY <3>1, <3>2, <1>1, <1>3 DEF HeapRecords, V, W
    <3>4. LinkAt(r, p) \in W
      BY <3>1, <2>1, <1>3 DEF LinkAt
    <3> QED BY <3>1, <3>3, <3>4, <1>4 DEF CarvedSizes, W
  <2>2. CASE p # NULL
    <3>0. p \in Address
      BY <2>2, <1>0, <1>i
    <3> DEFINE next0 == [[h.next EXCEPT ![p] = h.next[b]] EXCEPT ![b] = mark]
    <3>1. r = [size |-> h.size, next |-> next0, first |-> h.first]
      BY <1>1, <1>2, <1>4, <2>2, <3>0 DEF Allotted, Carve, SetNext
    <3> HIDE DEF V, W
    <3>2. /\ next0 \in [Address -> V]
          /\ p = b => next0[p] = mark
          /\ p # b => next0[p] = h.next[b]
      BY <1>1, <1>2, <1>3, <3>0
    <3> HIDE DEF next0
    <3>3. r \in HeapRecords
      BY <3>1, <3>2, <1>1, <1>3 DEF HeapRecords, V, W
    <3>4. mark = NULL => LinkAt(r, p) \in W
      BY <3>1, <3>2, <2>2, <1>3 DEF LinkAt, W
    <3> QED BY <3>1, <3>3, <3>4, <1>4 DEF CarvedSizes, W
  <2> QED BY <2>1, <2>2
<1>5. CASE n # h.size[b]
  <2>1. /\ u \in Nat /\ b < u /\ u < b + h.size[b] /\ h.size[b] - n \in Nat
        /\ u # b
    BY <1>0, <1>2, <1>5, <1>i
  <2>2. b + h.size[b] <= end
    <3> DEFINE e == b + h.size[b]
    <3>1. e \in B \cup {end}
      BY <1>0, <1>2 DEF Tiled
    <3>2. \A d \in B : d \in Nat /\ d < end
      BY <1>0
    <3> HIDE DEF e
    <3>3. e <= end
      BY <3>1, <3>2, <1>0
    <3> QED BY <3>3 DEF e
  <2>3. ASSUME NEW c \in B \ {b} PROVE c # u
    <3>1. c \in Nat /\ c # b
      BY <1>0
    <3>2. b < c => b + h.size[b] <= c
      BY <1>0, <1>2 DEF Tiled
    <3>3. b + h.size[b] \in Nat
      BY <1>0, <1>2
    <3> HIDE DEF u
    <3>4. CASE b < c
      <4>1. b + h.size[b] <= c
        BY <3>2, <3>4
      <4> QED BY <4>1, <3>1, <3>3, <2>1
    <3>5. CASE c < b
      BY <3>1, <3>5, <2>1, <1>2
    <3> QED BY <3>1, <3>4, <3>5, <1>2
  <2>4. u \in Address
    <3> HIDE DEF u
    <3>1. u < MaxHeap
      BY <2>1, <2>2, <1>0, <1>2
    <3> QED BY <3>1, <2>1, <1>0
  <2> HIDE DEF u
  <2> DEFINE sizes == [[h.size EXCEPT ![u] = h.size[b] - n] EXCEPT ![b] = n]
  <2>5. /\ sizes \in [Address -> Nat] /\ sizes[b] = n
        /\ \A c \in Address \ {b, u} : sizes[c] = h.size[c]
    BY <2>1, <2>4, <1>1, <1>2, <1>i
  <2>6. \A c \in B \ {b} : sizes[c] = h.size[c]
    BY <2>3, <2>5, <1>0
  <2>7. u \in V /\ u \in W
    BY <2>4
  <2>8. CASE p = NULL
    <3> DEFINE next0 == [[h.next EXCEPT ![u] = h.next[b]] EXCEPT ![b] = mark]
    <3>1. r = [size |-> sizes, next |-> next0, first |-> u]
      BY <1>1, <1>2, <1>5, <2>1, <2>4, <2>8 DEF Allotted, Carve, SetNext, u
    <3> HIDE DEF V, W, sizes
    <3>2. next0 \in [Address -> V]
      BY <1>1, <1>2, <1>3, <2>4
    <3> HIDE DEF next0
    <3>3. r \in HeapRecords
      BY <3>1, <3>2, <2>5, <2>7 DEF HeapRecords, V, W
    <3>4. LinkAt(r, p) \in W
      BY <3>1, <2>7, <2>8 DEF LinkAt
    <3> QED BY <3>1, <3>3, <3>4, <2>5, <2>6 DEF CarvedSizes, W
  <2>9. CASE p # NULL
    <3>0. p \in Address
      BY <2>9, <1>0, <1>i
    <3> DEFINE next0 == [[[h.next EXCEPT ![u] = h.next[b]] EXCEPT ![p] = u]
                           EXCEPT ![b] = mark]
    <3>1. r = [size |-> sizes, next |-> next0, first |-> h.first]
      BY <1>1, <1>2, <1>5, <2>1, <2>4, <2>9, <3>0 DEF Allotted, Carve, SetNext, u
    <3> HIDE DEF V, W, sizes
    <3>2. /\ next0 \in [Address -> V]
          /\ p = b => next0[p] = mark
          /\ p # b => next0[p] = u
      BY <1>1, <1>2, <1>3, <2>4, <2>7, <3>0
    <3> HIDE DEF next0
    <3>3. r \in HeapRecords
      BY <3>1, <3>2, <2>5, <1>1 DEF HeapRecords, V, W
    <3>4. mark = NULL => LinkAt(r, p) \in W
      BY <3>1, <3>2, <2>7, <2>9 DEF LinkAt, W
    <3> QED BY <3>1, <3>3, <3>4, <2>5, <2>6 DEF CarvedSizes, W
  <2> QED BY <2>8, <2>9
<1> QED BY <1>4, <1>5

(* The heap grows: the new memory becomes the last block of the list.      *)
Appending(h, F, M, B, end, p) ==
    /\ Described(h, F, M, B, end) /\ Apart(h, F, {})
    /\ p \in F \cup {NULL} /\ LinkAt(h, p) = NULL
    /\ Aligned(end) /\ end % HEAP_SIZE = 0 /\ end + HEAP_SIZE <= MaxHeap
Grown(h, end) == [h EXCEPT !.size[end] = HEAP_SIZE]
Appended(i, h, F, M, B, end, p) ==
    /\ Described(i, F \cup {end}, M \ {end}, B \cup {end}, end + HEAP_SIZE)
    /\ Apart(i, F \cup {end}, {})
    /\ LinkAt(i, p) = end /\ end \notin B
    /\ i.size[end] = HEAP_SIZE
    /\ \A d \in B : i.size[d] = h.size[d]

LEMMA AppendStep ==
  ASSUME NEW h, NEW F, NEW M, NEW B, NEW end, NEW p,
         Appending(h, F, M, B, end, p),
         NEW i, i = SetNext([Grown(h, end) EXCEPT !.next[end] = NULL], p, end)
  PROVE  Appended(i, h, F, M, B, end, p)
<1>i. /\ Described(h, F, M, B, end) /\ Apart(h, F, {})
      /\ p \in F \cup {NULL} /\ LinkAt(h, p) = NULL
      /\ Aligned(end) /\ end % HEAP_SIZE = 0 /\ end + HEAP_SIZE <= MaxHeap
  BY DEF Appending
<1>0. /\ F \subseteq B /\ B \subseteq Nat /\ F \subseteq Nat
      /\ B \subseteq Address /\ F \subseteq Address
      /\ Tiled(h, B, end) /\ Listed(h, F, M) /\ end \in Nat /\ h \in HeapRecords
      /\ \A d \in B : h.size[d] \in Nat /\ h.size[d] > 0 /\ d < end
  BY <1>i, Parts
<1>1. /\ NULL = -1 /\ HEAP_SIZE \in Nat /\ HEAP_SIZE > 0 /\ MaxHeap \in Nat
      /\ Aligned(HEAP_SIZE) /\ end \in Address /\ end \notin B /\ end \notin F
  <2>1. HEAP_SIZE \in Nat \ {0} /\ MaxHeap \in Nat /\ Aligned(HEAP_SIZE)
    BY HeapAssumption
  <2>2. end \in Address
    <3>1. end < MaxHeap
      BY <2>1, <1>0, <1>i
    <3> QED BY <3>1, <1>0, Addresses
  <2>3. end \notin B
    <3>1. end \in B => end < end
      BY <1>0
    <3> QED BY <3>1, <1>0
  <2>4. HEAP_SIZE > 0
    BY <2>1
  <2> QED BY <2>1, <2>2, <2>3, <2>4, <1>0, Addresses
<1> DEFINE g == Grown(h, end)
           B1 == B \cup {end}
           end1 == end + HEAP_SIZE
<1>2. /\ g.next = h.next /\ g.first = h.first /\ g \in HeapRecords
      /\ g.size[end] = HEAP_SIZE /\ \A d \in B : g.size[d] = h.size[d]
  <2>1. /\ h.size \in [Address -> Nat]
        /\ h.next \in [Address -> Address \cup {NULL, MAGIC}]
        /\ h.first \in Address \cup {NULL}
        /\ h = [size |-> h.size, next |-> h.next, first |-> h.first]
    BY <1>0 DEF HeapRecords
  <2> DEFINE sizes == [h.size EXCEPT ![end] = HEAP_SIZE]
  <2>2. /\ sizes \in [Address -> Nat] /\ sizes[end] = HEAP_SIZE
        /\ \A d \in B : sizes[d] = h.size[d]
    BY <2>1, <1>0, <1>1
  <2>3. g = [size |-> sizes, next |-> h.next, first |-> h.first]
    BY <2>1 DEF Grown
  <2> HIDE DEF sizes, g
  <2> QED BY <2>1, <2>2, <2>3 DEF HeapRecords
<1> HIDE DEF g
<1>3. Listed(g, F, M)
  <2>1. \A q : LinkAt(g, q) = LinkAt(h, q)
    BY <1>2 DEF LinkAt
  <2> QED BY <2>1, <1>0, <1>2 DEF Listed
<1>4. Tiled(g, B1, end1)
  <2>1. /\ 0 \in B /\ B \subseteq 0 .. end - 1
        /\ \A b \in B : /\ h.size[b] > 0 /\ b + h.size[b] \in B \cup {end}
                        /\ Aligned(b) /\ Aligned(h.size[b])
        /\ \A b, c \in B : b < c => b + h.size[b] <= c
    BY <1>0 DEF Tiled
  <2>2. end1 \in 0 .. MaxHeap /\ 0 \in B1 /\ B1 \subseteq 0 .. end1 - 1
    <3>1. end1 \in Nat /\ end < end1 /\ end1 <= MaxHeap
      BY <1>0, <1>1, <1>i
    <3> HIDE DEF end1
    <3> QED BY <3>1, <2>1, <1>0, <1>1
  <2>3. ASSUME NEW b \in B1
        PROVE  /\ g.size[b] > 0 /\ b + g.size[b] \in B1 \cup {end1}
               /\ Aligned(b) /\ Aligned(g.size[b])
    <3>1. CASE b = end
      BY <3>1, <1>1, <1>2, <1>i
    <3>2. CASE b # end
      BY <3>2, <2>1, <1>2
    <3> QED BY <3>1, <3>2
  <2>4. ASSUME NEW b \in B1, NEW c \in B1, b < c
        PROVE  b + g.size[b] <= c
    <3>1. b \in B
      <4>1. b = end => c \in B /\ c < end /\ c \in Nat
        BY <2>4, <1>0
      <4> QED BY <4>1, <2>4, <1>0
    <3>2. CASE c \in B
      BY <3>1, <3>2, <2>1, <2>4, <1>2
    <3>3. CASE c = end
      <4> DEFINE e == b + h.size[b]
      <4>1. e \in B \cup {end} /\ b + g.size[b] = e
        BY <3>1, <2>1, <1>2
      <4>2. \A d \in B : d < end /\ d \in Nat
        BY <1>0
      <4> HIDE DEF e
      <4>3. e <= end
        BY <4>1, <4>2, <1>0
      <4> QED BY <4>1, <4>3, <3>3
    <3> QED BY <3>2, <3>3
  <2> QED BY <2>2, <2>3, <2>4 DEF Tiled
<1>5. Described(g, F, M, B1, end1)
  BY <1>0, <1>2, <1>3, <1>4 DEF Described
<1>6. Apart(g, F, {})
  <2>1. \A b \in F : Ends(g, b) = Ends(h, b)
    BY <1>0, <1>2 DEF Ends
  <2> QED BY <2>1, <1>i DEF Apart
<1>7. Inserting(g, F, M, B1, end1, end, p, NULL)
  <2>1. p < end
    <3>1. p \in F => p \in B
      BY <1>0
    <3> QED BY <3>1, <1>0, <1>1, <1>i
  <2>2. LinkAt(g, p) = NULL
    BY <1>2, <1>i DEF LinkAt
  <2> QED BY <2>1, <2>2, <1>1, <1>5, <1>6, <1>i DEF Inserting
<1>8. Inserted(i, g, F, M, B1, end1, end, p, NULL)
  <2>1. i = SetNext([g EXCEPT !.next[end] = NULL], p, end)
    BY DEF g
  <2> QED BY <2>1, <1>7, InsertStep
<1>9. /\ Described(i, F \cup {end}, M \ {end}, B1, end1)
      /\ Apart(i, F \cup {end}, {end, NULL})
      /\ LinkAt(i, p) = end /\ i.size = g.size
  BY <1>8 DEF Inserted
<1>10. Apart(i, F \cup {end}, {})
  <2> SUFFICES ASSUME NEW q \in F \cup {end}, Ends(i, q) \in F \cup {end}
               PROVE  Ends(i, q) % HEAP_SIZE = 0
    BY DEF Apart
  <2>1. CASE Ends(i, q) = end
    BY <2>1, <1>i
  <2>2. CASE Ends(i, q) # end
    <3>1. Ends(i, q) # NULL
      <4>1. Ends(i, q) \in Nat
        BY <1>0
      <4> QED BY <4>1, <1>1
    <3> QED BY <3>1, <2>2, <1>9 DEF Apart
  <2> QED BY <2>1, <2>2
<1> QED BY <1>1, <1>2, <1>9, <1>10 DEF Appended

-----------------------------------------------------------------------------
(* The search settles on the first of the best blocks that are large       *)
(* enough, and on none only if there are none.                             *)
Settled(s, h, list, n, k, i) ==
    /\ i \in 0 .. k
    /\ i = 0 => \A j \in 1 .. k : ~(h.size[list[j]] >= n)
    /\ i # 0 => /\ h.size[list[i]] >= n
                /\ \A j \in 1 .. k : h.size[list[j]] >= n =>
                      /\ j < i => Better(s, h.size[list[i]], h.size[list[j]])
                      /\ i < j => ~Better(s, h.size[list[j]], h.size[list[i]])

LEMMA BetterIs ==
  ASSUME NEW s, NEW x \in Nat, NEW y \in Nat, NEW z \in Nat
  PROVE  /\ Better(s, x, y) /\ Better(s, y, z) => Better(s, x, z)
         /\ Better(s, x, y) /\ ~Better(s, z, y) => Better(s, x, z)
<1>1. CASE s = "bestfit"
  <2>1. \A a, b \in Nat : Better(s, a, b) = (a < b)
    BY <1>1 DEF Better
  <2> QED BY <2>1
<1>2. CASE s = "worstfit"
  <2>1. \A a, b \in Nat : Better(s, a, b) = (a > b)
    BY <1>2 DEF Better
  <2> QED BY <2>1
<1>3. CASE s # "bestfit" /\ s # "worstfit"
  <2>1. \A a, b \in Nat : Better(s, a, b) = FALSE
    BY <1>3 DEF Better
  <2> QED BY <2>1
<1> QED BY <1>1, <1>2, <1>3

SearchLoop(s, h, list, n, f) ==
    f = [i \in 0 .. Len(list) |->
           IF i = 0 THEN 0
           ELSE IF /\ h.size[list[i]] >= n
                   /\ \/ f[i - 1] = 0
                      \/ Better(s, h.size[list[i]], h.size[list[f[i - 1]]])
                  THEN i ELSE f[i - 1]]

LEMMA SearchExists ==
  ASSUME NEW s, NEW h, NEW list, Len(list) \in Nat, NEW n
  PROVE  \E f : SearchLoop(s, h, list, n, f)
<1> DEFINE N == Len(list)
           S == 0 .. N
           takes(i, b) == /\ h.size[list[i]] >= n
                          /\ b = 0 \/ Better(s, h.size[list[i]], h.size[list[b]])
           step == [x \in (1 .. N) \X S |-> IF takes(x[1], x[2]) THEN x[1] ELSE x[2]]
<1>1. N \in Nat
  OBVIOUS
<1> HIDE DEF N, takes
<1>2. Looping(N, S, 0, step)
  <2>1. \A x \in (1 .. N) \X S : x[1] \in S /\ x[2] \in S
    BY <1>1
  <2>2. step \in [(1 .. N) \X S -> S]
    BY <2>1
  <2> HIDE DEF step
  <2> QED BY <1>1, <2>2 DEF Looping
<1>3. PICK f \in [0 .. N -> S] : /\ f[0] = 0
                                 /\ \A i \in 1 .. N : f[i] = step[<<i, f[i - 1]>>]
  <2> HIDE DEF step, S
  <2> QED BY <1>2, LoopExists DEF Loops
<1> DEFINE Value(i) == IF i = 0 THEN 0 ELSE IF takes(i, f[i - 1]) THEN i ELSE f[i - 1]
<1>4. ASSUME NEW i \in 0 .. N PROVE f[i] = Value(i)
  <2>1. CASE i = 0
    BY <2>1, <1>3
  <2>2. CASE i # 0
    <3>1. i \in 1 .. N /\ i - 1 \in 0 .. N
      BY <2>2, <1>1
    <3>2. step[<<i, f[i - 1]>>] = IF takes(i, f[i - 1]) THEN i ELSE f[i - 1]
      BY <3>1
    <3> HIDE DEF step
    <3> QED BY <2>2, <3>1, <3>2, <1>3
  <2> QED BY <2>1, <2>2
<1>5. f = [i \in 0 .. N |-> Value(i)]
  <2>1. f = [i \in 0 .. N |-> f[i]]
    OBVIOUS
  <2> HIDE DEF Value
  <2> QED BY <1>4, <2>1, Zenon
<1> QED BY <1>5, Zenon DEF N, takes, SearchLoop

LEMMA ChosenSearch ==
  ASSUME NEW s, NEW h, NEW list, NEW n,
         \E f : SearchLoop(s, h, list, n, f)
  PROVE  \E f : SearchLoop(s, h, list, n, f) /\ Search(s, h, list, n) = f[Len(list)]
BY ZenonT(60) DEF Search, SearchLoop

LEMMA SearchIs ==
  ASSUME NEW s, NEW h, NEW list, Len(list) \in Nat, NEW n \in Nat,
         \A i \in 1 .. Len(list) : h.size[list[i]] \in Nat
  PROVE  Settled(s, h, list, n, Len(list), Search(s, h, list, n))
<1> DEFINE N == Len(list)
           z(i) == h.size[list[i]]
<1>0. N \in Nat /\ \A i \in 1 .. N : z(i) \in Nat
  OBVIOUS
<1>1. PICK f : SearchLoop(s, h, list, n, f) /\ Search(s, h, list, n) = f[Len(list)]
  <2>1. \E f : SearchLoop(s, h, list, n, f)
    BY SearchExists
  <2> QED BY <2>1, ChosenSearch
<1> DEFINE Value(i) == IF i = 0 THEN 0
                       ELSE IF z(i) >= n /\ (f[i - 1] = 0 \/ Better(s, z(i), z(f[i - 1])))
                              THEN i ELSE f[i - 1]
<1>2. /\ f[0] = 0
      /\ \A i \in 1 .. N :
            f[i] = IF z(i) >= n /\ (f[i - 1] = 0 \/ Better(s, z(i), z(f[i - 1])))
                     THEN i ELSE f[i - 1]
  <2>1. f = [i \in 0 .. N |-> Value(i)]
    BY <1>1, Zenon DEF SearchLoop
  <2>2. \A i \in 0 .. N : f[i] = Value(i)
    <3> HIDE DEF Value, N
    <3> QED BY <2>1
  <2>3. 0 \in 0 .. N /\ \A i \in 1 .. N : i \in 0 .. N /\ i # 0
    BY <1>0
  <2> HIDE DEF z, N
  <2> QED BY <2>2, <2>3
<1> DEFINE S == {k \in 0 .. N : Settled(s, h, list, n, k, f[k])}
<1>3. 0 \in S
  BY <1>2 DEF Settled
<1>4. ASSUME NEW k \in 1 .. N, k - 1 \in S
      PROVE  k \in S
  <2> DEFINE b == f[k - 1]
             i == f[k]
  <2>1. /\ i = IF z(k) >= n /\ (b = 0 \/ Better(s, z(k), z(b))) THEN k ELSE b
        /\ z(k) \in Nat
    BY <1>0, <1>2
  <2>2. /\ b \in 0 .. k - 1
        /\ b = 0 => \A j \in 1 .. k - 1 : ~(z(j) >= n)
        /\ b # 0 => /\ z(b) >= n
                    /\ \A j \in 1 .. k - 1 : z(j) >= n =>
                          /\ j < b => Better(s, z(b), z(j))
                          /\ b < j => ~Better(s, z(j), z(b))
    BY <1>4 DEF Settled
  <2> HIDE DEF b, i, z
  <2>3. \A j \in 1 .. k : j = k \/ j \in 1 .. k - 1
    OBVIOUS
  <2>4. \A j \in 1 .. k : z(j) \in Nat /\ j \in Nat
    BY <1>0
  <2>5. CASE z(k) >= n /\ b = 0
    <3>1. i = k /\ \A j \in 1 .. k : z(j) >= n => j = k
      BY <2>1, <2>2, <2>3, <2>5
    <3> QED BY <3>1, <2>5 DEF Settled, z, i
  <2>6. CASE z(k) >= n /\ b # 0 /\ Better(s, z(k), z(b))
    <3>1. i = k /\ b \in 1 .. k - 1
      BY <2>1, <2>2, <2>6
    <3>2. ASSUME NEW j \in 1 .. k - 1, z(j) >= n
          PROVE  Better(s, z(k), z(j))
      <4>1. /\ j < b => Better(s, z(b), z(j))
            /\ b < j => ~Better(s, z(j), z(b))
        BY <2>2, <2>6, <3>2
      <4>2. z(j) \in Nat /\ z(b) \in Nat /\ z(k) \in Nat
        BY <3>1, <2>4
      <4>3. CASE j < b
        BY <4>1, <4>2, <4>3, <2>6, BetterIs
      <4>4. CASE b < j
        BY <4>1, <4>2, <4>4, <2>6, BetterIs
      <4>5. CASE j = b
        BY <4>5, <2>6
      <4> QED BY <4>3, <4>4, <4>5, <3>1
    <3>3. \A j \in 1 .. k : z(j) >= n =>
             /\ j < i => Better(s, z(i), z(j))
             /\ i < j => ~Better(s, z(j), z(i))
      BY <3>1, <3>2, <2>3
    <3> QED BY <3>1, <3>3, <2>6 DEF Settled, z, i
  <2>7. CASE ~(z(k) >= n) \/ (b # 0 /\ ~Better(s, z(k), z(b)))
    <3>1. i = b
      BY <2>1, <2>7
    <3>2. b = 0 => \A j \in 1 .. k : ~(z(j) >= n)
      BY <2>2, <2>3, <2>7
    <3>3. b # 0 => \A j \in 1 .. k : z(j) >= n =>
             /\ j < b => Better(s, z(b), z(j))
             /\ b < j => ~Better(s, z(j), z(b))
      <4> SUFFICES ASSUME b # 0, NEW j \in 1 .. k, z(j) >= n
                   PROVE  /\ j < b => Better(s, z(b), z(j))
                          /\ b < j => ~Better(s, z(j), z(b))
        OBVIOUS
      <4>1. CASE j = k
        BY <4>1, <2>2, <2>7
      <4>2. CASE j # k
        BY <4>2, <2>2, <2>3
      <4> QED BY <4>1, <4>2
    <3>4. b \in 0 .. k /\ (b # 0 => z(b) >= n)
      BY <2>2
    <3> QED BY <3>1, <3>2, <3>3, <3>4 DEF Settled, z, i
  <2> QED BY <2>5, <2>6, <2>7
<1>5. 0 .. N \subseteq S
  <2> HIDE DEF S, N
  <2> QED BY <1>0, <1>3, <1>4, Upward
<1>6. Settled(s, h, list, n, N, f[N])
  <2>1. N \in S
    <3> HIDE DEF S, N
    <3> QED BY <1>0, <1>5
  <2> HIDE DEF N
  <2> QED BY <2>1
<1>7. Search(s, h, list, n) = f[N]
  BY <1>1
<1> QED BY <1>6, <1>7

-----------------------------------------------------------------------------
(* The inductive invariant.  While the program runs, the memory is as      *)
(* described by the blocks in use; the heap ends at a multiple of          *)
(* HEAP_SIZE and, in the first program, is extended once at most, since    *)
(* allocHeap adds up what it should replace; a call that waits for its     *)
(* second try asks for what fits in a machine word.                        *)
Marked(L, e) == IF e = "solution" THEN DOMAIN L ELSE {}

Whole(h, L, e, end) ==
    LET B == BlocksOf(h, end)
    IN  /\ Described(h, B \ DOMAIN L, Marked(L, e), B, end)
        /\ Apart(h, B \ DOMAIN L, {})
        /\ DOMAIN L \subseteq B
        /\ \A b \in DOMAIN L : h.size[b] >= HEADER_SIZE + L[b]

Extent ==
    /\ heapSize % HEAP_SIZE = 0 /\ Aligned(heapSize)
    /\ edition = "solution" =>
          heapSize = reserved /\ reserved = brk /\ strategy = "bestfit"
    /\ edition # "solution" =>
          \/ heapSize = HEAP_SIZE /\ reserved = HEAP_SIZE /\ brk = HEAP_SIZE
          \/ heapSize = 2 * HEAP_SIZE /\ reserved = 3 * HEAP_SIZE /\ brk = 2 * HEAP_SIZE

Waiting == pending # NoCall => /\ edition # "solution"
                               /\ pending.ask \in Requests
                               /\ pending.size \in pending.ask .. HEAP_SIZE

CursorAt == strategy = "nextfit" => cursor \in (Blocks \ DOMAIN live) \cup {NULL}

IInv == /\ TypeOK
        /\ StopsOnlyIf
        /\ status = "running" => /\ Whole(heap, live, edition, heapSize)
                                 /\ Extent /\ Waiting /\ CursorAt

LEMMA Known ==
  ASSUME IInv, status = "running", NEW F, F = Blocks \ DOMAIN live
  PROVE  /\ Described(heap, F, Marked(live, edition), Blocks, heapSize)
         /\ Apart(heap, F, {})
         /\ Marked(live, edition) \cap F = {}
         /\ Lists(heap, F, FreeList(heap))
         /\ DOMAIN live \subseteq Blocks /\ Blocks \ F = DOMAIN live
         /\ \A b \in DOMAIN live : heap.size[b] >= HEADER_SIZE + live[b]
         /\ Extent /\ Waiting /\ CursorAt
<1>1. /\ Described(heap, F, Marked(live, edition), Blocks, heapSize)
      /\ Apart(heap, F, {})
      /\ DOMAIN live \subseteq Blocks
      /\ \A b \in DOMAIN live : heap.size[b] >= HEADER_SIZE + live[b]
      /\ Extent /\ Waiting /\ CursorAt
  BY DEF IInv, Whole, Blocks
<1>2. Marked(live, edition) \subseteq DOMAIN live
  BY DEF Marked
<1>3. Lists(heap, F, FreeList(heap))
  <2>1. heap \in HeapRecords /\ Listed(heap, F, Marked(live, edition))
    BY <1>1 DEF Described
  <2> QED BY <2>1, ListIs
<1> QED BY <1>1, <1>2, <1>3

(* Blocks and sizes are not as large as the heap, so the remainders by its *)
(* size are these.                                                         *)
LEMMA OneRemainder ==
  ASSUME NEW n \in Nat \ {0}, NEW x \in Int, NEW q \in Int,
         NEW r \in 0 .. n - 1, x = n * q + r
  PROVE  x % n = r
<1> DEFINE p == x \div n
           s == x % n
<1>1. p \in Int /\ s \in 0 .. n - 1 /\ x = n * p + s
  OBVIOUS
<1> HIDE DEF p, s
<1>2. n * (p - q) = r - s
  BY <1>1
<1>3. CASE p > q
  <2>1. n * (p - q) >= n
    BY <1>1, <1>3
  <2> QED BY <1>1, <1>2, <2>1
<1>4. CASE p < q
  <2>1. n * (q - p) >= n
    BY <1>1, <1>4
  <2> QED BY <1>1, <1>2, <2>1
<1>5. CASE p = q
  BY <1>1, <1>5 DEF s
<1> QED BY <1>1, <1>3, <1>4, <1>5

LEMMA ModIs ==
  ASSUME NEW n \in Nat \ {0}, NEW x \in Int
  PROVE  /\ 0 <= x /\ x < n => x % n = x
         /\ 0 <= x + n /\ x < 0 => x % n = x + n
         /\ n % n = 0
         /\ x % n = 0 => (x + n) % n = 0
<1>1. 0 <= x /\ x < n => x % n = x
  OBVIOUS
<1>2. 0 <= x + n /\ x < 0 => x % n = x + n
  OBVIOUS
<1>3. n % n = 0
  OBVIOUS
<1>4. ASSUME x % n = 0 PROVE (x + n) % n = 0
  <2> DEFINE p == x \div n
  <2>1. p \in Int /\ x = n * p
    BY <1>4
  <2> HIDE DEF p
  <2>2. x + n = n * (p + 1) + 0 /\ p + 1 \in Int /\ x + n \in Int /\ 0 \in 0 .. n - 1
    BY <2>1
  <2> QED BY <2>2, OneRemainder
<1> QED BY <1>1, <1>2, <1>3, <1>4


(* What the search looks at: every free block once, by address or, under   *)
(* next fit, by the distance from where it begins.                         *)
Beginning == IF cursor = NULL THEN heap.first ELSE cursor
Turn(x) == IF strategy = "nextfit" THEN (x - Beginning) % heapSize ELSE x

Round(V, F) == /\ Len(V) \in Nat /\ DOMAIN V = 1 .. Len(V)
               /\ \A i \in 1 .. Len(V) : V[i] \in F
               /\ \A c \in F : \E i \in 1 .. Len(V) : V[i] = c
               /\ \A i, j \in 1 .. Len(V) : i < j => Turn(V[i]) < Turn(V[j])

LEMMA VisitedIs ==
  ASSUME IInv, status = "running", NEW F, F = Blocks \ DOMAIN live
  PROVE  /\ Round(Visited, F)
         /\ Visited = <<>> => heap.first = NULL
<1> DEFINE s == FreeList(heap)
<1>0. /\ Lists(heap, F, s) /\ CursorAt /\ F \subseteq Nat /\ NULL = -1
      /\ Listed(heap, F, Marked(live, edition)) /\ heap \in HeapRecords
      /\ \A b \in F : b < heapSize /\ heapSize \in Nat
      /\ Described(heap, F, Marked(live, edition), Blocks, heapSize)
  <2>1. Described(heap, F, Marked(live, edition), Blocks, heapSize) /\ CursorAt
        /\ Lists(heap, F, s)
    BY Known
  <2> HIDE DEF s
  <2> QED BY <2>1, Parts, Addresses
<1> HIDE DEF s
<1>s. /\ s \in Seq(F) /\ Len(s) \in Nat /\ DOMAIN s = 1 .. Len(s)
      /\ \A i \in 1 .. Len(s) : s[i] \in F
      /\ \A i, j \in 1 .. Len(s) : i < j => s[i] < s[j]
      /\ \A c \in F : \E i \in 1 .. Len(s) : s[i] = c
  BY <1>0 DEF Lists
<1>f. heap.first \in F \cup {NULL} /\ (F # {} => heap.first # NULL)
  <2>1. Follows(F, NULL, heap.first)
    BY <1>0 DEF Listed, LinkAt
  <2>2. heap.first \in F \cup {NULL}
    BY <2>1 DEF Follows
  <2>3. heap.first = NULL => F = {}
    <3>1. heap.first = NULL => \A c \in F : c <= NULL
      BY <2>1 DEF Follows
    <3> QED BY <3>1, <1>0
  <2> QED BY <2>2, <2>3
<1>1. CASE strategy # "nextfit"
  <2>1. Visited = s
    BY <1>1 DEF Visited, s
  <2>2. \A x : Turn(x) = x
    BY <1>1 DEF Turn
  <2>3. Round(Visited, F)
    BY <2>1, <2>2, <1>s DEF Round
  <2>4. s = <<>> => heap.first = NULL
    <3>1. ASSUME s = <<>> PROVE F = {}
      <4>1. \A i \in 1 .. Len(s) : FALSE
        BY <3>1
      <4> QED BY <4>1, <1>s
    <3>2. heap.first \notin F => heap.first = NULL
      BY <1>f
    <3> QED BY <3>1, <3>2
  <2> QED BY <2>1, <2>3, <2>4
<1>2. CASE strategy = "nextfit"
  <2> DEFINE from == Beginning
             m == Place(s, from)
             t == From(heap, from)
             u == SubSeq(s, 1, m - 1)
  <2>1. Visited = t \o u
    BY <1>2 DEF Visited, NextFitRound, Beginning, s
  <2>2. from \in F \cup {NULL} /\ (F # {} => from # NULL)
    BY <1>0, <1>2, <1>f DEF Beginning, CursorAt
  <2>3. CASE F = {}
    <3>1. from = NULL /\ heap.first = NULL
      BY <2>2, <2>3, <1>f
    <3>2. t = <<>>
      BY <3>1 DEF From
    <3>3. s = <<>>
      BY <2>3, <1>s
    <3>4. m = 1
      <4>1. DOMAIN <<>> = {} /\ Len(<<>>) + 1 = 1
        OBVIOUS
      <4>2. m = Min({1})
        <5>1. {i \in DOMAIN <<>> : <<>>[i] >= from} = {}
          BY <4>1
        <5> QED BY <3>3, <4>1, <5>1 DEF Place
      <4> QED BY <4>2 DEF Min
    <3>5. u = <<>>
      BY <3>3, <3>4
    <3>6. Visited = <<>>
      BY <2>1, <3>2, <3>5
    <3>7. \A i \in 1 .. Len(Visited) : FALSE
      BY <3>6
    <3>8. Len(Visited) \in Nat /\ DOMAIN Visited = 1 .. Len(Visited)
      BY <3>6
    <3>9. Round(Visited, F)
      BY <2>3, <3>7, <3>8 DEF Round
    <3> QED BY <3>1, <3>9
  <2>4. CASE F # {}
    <3>1. from \in F /\ from \in Nat
      BY <2>2, <2>4, <1>0
    <3>2. Chained(heap, F, t, from)
      <4> HIDE DEF from
      <4> QED BY <3>1, <1>0, ChainIs
    <3>3. Placed(heap, F, s, from, m)
      <4> HIDE DEF from
      <4> QED BY <3>1, <1>0, PlaceIs
    <3> HIDE DEF from, m, t
    <3>4. /\ t \in Seq(F) /\ Len(t) >= 1 /\ t[1] = from /\ Len(t) \in Nat
          /\ \A i, j \in 1 .. Len(t) : i < j => t[i] < t[j]
          /\ \A c \in F : from <= c => \E i \in 1 .. Len(t) : t[i] = c
          /\ \A i \in 1 .. Len(t) : t[i] \in F
      <4>1. /\ t \in Seq(F) /\ Len(t) >= 1 /\ t[1] = from
            /\ \A i, j \in 1 .. Len(t) : i < j => t[i] < t[j]
            /\ \A c \in F : from <= c => \E i \in 1 .. Len(t) : t[i] = c
        BY <3>2 DEF Chained
      <4>2. Len(t) \in Nat /\ \A i \in 1 .. Len(t) : t[i] \in F
        BY <4>1
      <4> QED BY <4>1, <4>2
    <3>5. /\ m \in 1 .. Len(s) + 1
          /\ \A i \in 1 .. Len(s) : i < m <=> s[i] < from
      BY <3>3 DEF Placed
    <3>6. /\ u \in Seq(F) /\ Len(u) = m - 1
          /\ \A i \in 1 .. m - 1 : u[i] = s[i]
      BY <3>5, <1>s
    <3> HIDE DEF u
    <3> DEFINE V == t \o u
               n == Len(t)
    <3>7. /\ Len(V) = n + m - 1 /\ DOMAIN V = 1 .. Len(V)
          /\ \A i \in 1 .. n : V[i] = t[i]
          /\ \A i \in n + 1 .. n + m - 1 : V[i] = u[i - n]
      <4>1. /\ Len(V) = Len(t) + Len(u) /\ DOMAIN V = 1 .. Len(t) + Len(u)
            /\ \A i \in 1 .. Len(t) : V[i] = t[i]
            /\ \A i \in Len(t) + 1 .. Len(t) + Len(u) : V[i] = u[i - Len(t)]
        BY <3>4, <3>6
      <4>2. Len(t) + Len(u) = n + m - 1
        BY <3>4, <3>5, <3>6
      <4> HIDE DEF V
      <4> QED BY <4>1, <4>2
    <3> HIDE DEF V
    <3>8. ASSUME NEW i \in 1 .. n
          PROVE  /\ V[i] \in F /\ from <= V[i] /\ V[i] \in Nat
                 /\ Turn(V[i]) = V[i] - from
      <4>1. V[i] \in F /\ V[i] \in Nat /\ V[i] < heapSize /\ heapSize \in Nat
        BY <3>4, <3>7, <1>0
      <4>2. from <= V[i]
        <5>1. i = 1 \/ 1 < i
          BY <3>4
        <5>2. 1 < i => t[1] < t[i]
          BY <3>4
        <5> QED BY <5>1, <5>2, <3>1, <3>4, <3>7, <4>1
      <4>3. V[i] - from \in Int /\ 0 <= V[i] - from /\ V[i] - from < heapSize
        BY <4>1, <4>2, <3>1
      <4>4. (V[i] - from) % heapSize = V[i] - from
        BY <4>1, <4>3, ModIs
      <4> QED BY <4>1, <4>2, <4>4, <1>2 DEF Turn, from
    <3>9. ASSUME NEW i \in n + 1 .. n + m - 1
          PROVE  /\ i - n \in 1 .. Len(s) /\ V[i] = s[i - n]
                 /\ V[i] \in F /\ V[i] < from /\ V[i] \in Nat
                 /\ Turn(V[i]) = V[i] - from + heapSize
      <4>0. i - n \in 1 .. m - 1 /\ i - n \in 1 .. Len(s) /\ i - n < m
        BY <3>4, <3>5
      <4>1. V[i] = s[i - n]
        BY <4>0, <3>6, <3>7
      <4>2. V[i] \in F /\ V[i] < from /\ V[i] \in Nat
        BY <4>0, <4>1, <3>5, <1>s, <1>0
      <4>3. from < heapSize /\ heapSize \in Nat
        BY <3>1, <1>0
      <4>4. V[i] - from \in Int /\ V[i] - from < 0 /\ 0 <= V[i] - from + heapSize
            /\ heapSize \in Nat \ {0}
        BY <4>2, <4>3, <3>1
      <4>5. (V[i] - from) % heapSize = V[i] - from + heapSize
        BY <4>4, ModIs
      <4> QED BY <4>0, <4>1, <4>2, <4>5, <1>2 DEF Turn, from
    <3>10. /\ Len(V) \in Nat
           /\ \A i \in 1 .. Len(V) : i \in 1 .. n \/ i \in n + 1 .. n + m - 1
      BY <3>4, <3>5, <3>7
    <3>11. \A i \in 1 .. Len(V) : V[i] \in F
      BY <3>8, <3>9, <3>10
    <3>12. ASSUME NEW c \in F PROVE \E i \in 1 .. Len(V) : V[i] = c
      <4>1. CASE from <= c
        <5>1. PICK i \in 1 .. n : t[i] = c
          BY <3>4, <4>1
        <5>2. i \in 1 .. Len(V)
          BY <3>4, <3>5, <3>7
        <5> QED BY <5>1, <5>2, <3>7
      <4>2. CASE ~(from <= c)
        <5>1. PICK k \in 1 .. Len(s) : s[k] = c
          BY <1>s
        <5>2. c < from
          BY <4>2, <3>1, <1>0
        <5>3. k < m
          BY <5>1, <5>2, <3>5
        <5>4. k + n \in n + 1 .. n + m - 1 /\ k + n - n = k /\ k + n \in 1 .. Len(V)
          BY <5>3, <3>4, <3>5, <3>7
        <5>5. V[k + n] = s[k + n - n]
          BY <5>4, <3>9
        <5> QED BY <5>1, <5>4, <5>5
      <4> QED BY <4>1, <4>2
    <3>13. ASSUME NEW i \in 1 .. Len(V), NEW j \in 1 .. Len(V), i < j
           PROVE  Turn(V[i]) < Turn(V[j])
      <4>0. heapSize \in Nat /\ V[i] \in Nat /\ V[i] < heapSize /\ V[j] \in Nat
        BY <3>11, <1>0
      <4>1. CASE j \in 1 .. n
        <5>1. i \in 1 .. n
          BY <3>13, <4>1, <3>4
        <5>2. t[i] < t[j]
          BY <5>1, <4>1, <3>4, <3>13
        <5> QED BY <5>1, <5>2, <4>0, <4>1, <3>1, <3>7, <3>8
      <4>2. CASE i \in 1 .. n /\ j \in n + 1 .. n + m - 1
        <5>1. Turn(V[i]) = V[i] - from /\ Turn(V[j]) = V[j] - from + heapSize
          BY <4>2, <3>8, <3>9
        <5> QED BY <5>1, <4>0, <3>1
      <4>3. CASE i \in n + 1 .. n + m - 1 /\ j \in n + 1 .. n + m - 1
        <5>1. /\ Turn(V[i]) = V[i] - from + heapSize /\ V[i] = s[i - n]
              /\ Turn(V[j]) = V[j] - from + heapSize /\ V[j] = s[j - n]
              /\ i - n \in 1 .. Len(s) /\ j - n \in 1 .. Len(s)
          BY <4>3, <3>9
        <5>2. i - n < j - n
          BY <3>13, <3>4
        <5>3. s[i - n] < s[j - n]
          BY <5>1, <5>2, <1>s
        <5>4. V[i] < V[j] /\ from \in Nat
          BY <5>1, <5>3, <3>1
        <5>5. V[i] - from + heapSize < V[j] - from + heapSize
          BY <5>4, <4>0
        <5>6. Turn(V[i]) = V[i] - from + heapSize /\ Turn(V[j]) = V[j] - from + heapSize
          BY <5>1
        <5> QED BY <5>5, <5>6
      <4>4. i \in 1 .. n \/ j \in n + 1 .. n + m - 1
        BY <3>10, <3>13, <3>4, <3>5
      <4> QED BY <4>1, <4>2, <4>3, <4>4, <3>10
    <3>14. Round(V, F)
      BY <3>7, <3>10, <3>11, <3>12, <3>13 DEF Round
    <3>15. V # <<>>
      BY <3>4, <3>5, <3>7
    <3> QED BY <2>1, <3>14, <3>15 DEF V
  <2> QED BY <2>3, <2>4
<1> QED BY <1>1, <1>2

(* A call asks for a block that is a multiple of the header size and has   *)
(* room for the header and the request.                                    *)
Asked(q) == /\ q.ask \in Requests
            /\ q.size \in Nat \ {0} /\ Aligned(q.size)
            /\ q.size >= HEADER_SIZE + q.ask

LEMMA CallsAre ==
  ASSUME Waiting, NEW q \in Calls
  PROVE  /\ Asked(q)
         /\ q \in [ask : Requests, size : Nat]
         /\ pending # NoCall => edition # "solution"
<1>0. /\ HEADER_SIZE \in Nat \ {0} /\ HEAP_SIZE \in Nat /\ WORD \in Nat
      /\ HEAP_SIZE + 2 * HEADER_SIZE <= WORD
      /\ Requests \subseteq 0 .. (WORD - 2 * HEADER_SIZE)
  BY HeaderAssumption, WordAssumption, HeapAssumption, RequestAssumption
<1>1. CASE pending = NoCall
  <2>1. PICK r \in Requests : q = [ask |-> r, size |-> BlockSize(r)]
    BY <1>1 DEF Calls
  <2>2. r \in 0 .. (WORD - 2 * HEADER_SIZE)
    BY <1>0
  <2>3. /\ BlockSize(r) \in Nat /\ BlockSize(r) >= HEADER_SIZE + r
        /\ Aligned(BlockSize(r))
    BY <2>2, BlockSizeIs
  <2>4. BlockSize(r) # 0
    BY <2>2, <2>3, <1>0
  <2> QED BY <2>1, <2>3, <2>4, <1>1 DEF Asked
<1>2. CASE pending # NoCall
  <2>1. /\ pending.ask \in Requests
        /\ pending.size \in pending.ask .. HEAP_SIZE
        /\ edition # "solution"
    BY <1>2 DEF Waiting
  <2>2. q = [ask |-> pending.ask, size |-> BlockSize(pending.size)]
    BY <1>2 DEF Calls
  <2>3. /\ pending.ask \in Nat /\ pending.size \in Nat
        /\ pending.ask <= pending.size
        /\ pending.size \in 0 .. (WORD - 2 * HEADER_SIZE)
    <3>1. pending.ask \in Nat
      <4>1. pending.ask \in 0 .. (WORD - 2 * HEADER_SIZE)
        BY <2>1, <1>0
      <4> QED BY <4>1
    <3>2. /\ pending.size \in Nat /\ pending.ask <= pending.size
          /\ pending.size <= HEAP_SIZE
      BY <2>1, <3>1, <1>0
    <3>3. pending.size <= WORD - 2 * HEADER_SIZE
      BY <3>2, <1>0
    <3> QED BY <3>1, <3>2, <3>3, <1>0
  <2>4. /\ BlockSize(pending.size) \in Nat
        /\ BlockSize(pending.size) >= HEADER_SIZE + pending.size
        /\ Aligned(BlockSize(pending.size))
    BY <2>3, BlockSizeIs
  <2>5. /\ BlockSize(pending.size) # 0
        /\ BlockSize(pending.size) >= HEADER_SIZE + pending.ask
    BY <2>3, <2>4, <1>0
  <2> QED BY <2>1, <2>2, <2>4, <2>5 DEF Asked
<1> QED BY <1>1, <1>2

(* The block that a search settles on, and what leads to it.               *)
Chosen(q, V, F, i) ==
    /\ i \in 1 .. Len(V) /\ V[i] \in F
    /\ At(V, i - 1) \in F \cup {NULL}
    /\ q.size <= heap.size[V[i]]
    /\ \A c \in F : heap.size[c] >= q.size =>
          \/ c = V[i]
          \/ Turn(c) < Turn(V[i]) /\ Better(strategy, heap.size[V[i]], heap.size[c])
          \/ Turn(V[i]) < Turn(c) /\ ~Better(strategy, heap.size[c], heap.size[V[i]])

LEMMA ChosenIs ==
  ASSUME IInv, status = "running", NEW F, F = Blocks \ DOMAIN live,
         NEW q, Asked(q), NEW V, Round(V, F),
         NEW i, i = Search(strategy, heap, V, q.size), i # 0
  PROVE  Chosen(q, V, F, i)
<1>0. /\ Len(V) \in Nat /\ DOMAIN V = 1 .. Len(V)
      /\ \A j \in 1 .. Len(V) : V[j] \in F
      /\ \A c \in F : \E j \in 1 .. Len(V) : V[j] = c
      /\ \A k, j \in 1 .. Len(V) : k < j => Turn(V[k]) < Turn(V[j])
  BY DEF Round
<1>1. \A b \in F : heap.size[b] \in Nat
  <2>1. Described(heap, F, Marked(live, edition), Blocks, heapSize)
    BY Known
  <2> QED BY <2>1, Parts
<1>2. Settled(strategy, heap, V, q.size, Len(V), i)
  <2>1. \A j \in 1 .. Len(V) : heap.size[V[j]] \in Nat
    BY <1>0, <1>1
  <2>2. q.size \in Nat
    BY DEF Asked
  <2> QED BY <2>1, <2>2, <1>0, SearchIs
<1>3. /\ i \in 1 .. Len(V) /\ heap.size[V[i]] >= q.size
      /\ \A j \in 1 .. Len(V) : heap.size[V[j]] >= q.size =>
            /\ j < i => Better(strategy, heap.size[V[i]], heap.size[V[j]])
            /\ i < j => ~Better(strategy, heap.size[V[j]], heap.size[V[i]])
  BY <1>2, <1>0 DEF Settled
<1>4. At(V, i - 1) \in F \cup {NULL}
  BY <1>0 DEF At
<1>5. ASSUME NEW c \in F, heap.size[c] >= q.size
      PROVE  \/ c = V[i]
             \/ Turn(c) < Turn(V[i]) /\ Better(strategy, heap.size[V[i]], heap.size[c])
             \/ Turn(V[i]) < Turn(c) /\ ~Better(strategy, heap.size[c], heap.size[V[i]])
  <2>1. PICK j \in 1 .. Len(V) : V[j] = c
    BY <1>0
  <2>2. j = i \/ j < i \/ i < j
    BY <2>1, <1>3
  <2>3. CASE j = i
    BY <2>1, <2>3
  <2>4. CASE j < i
    BY <2>1, <2>4, <1>0, <1>3, <1>5
  <2>5. CASE i < j
    BY <2>1, <2>5, <1>0, <1>3, <1>5
  <2> QED BY <2>2, <2>3, <2>4, <2>5
<1>6. q.size <= heap.size[V[i]]
  BY <1>0, <1>1, <1>3 DEF Asked
<1> QED BY <1>0, <1>3, <1>4, <1>5, <1>6 DEF Chosen

-----------------------------------------------------------------------------
(* The invariant is re-established from a description of the memory.       *)
LEMMA WholeIs ==
  ASSUME NEW h, NEW F, NEW B, NEW end, NEW L, NEW e,
         Described(h, F, Marked(L, e), B, end), Apart(h, F, {}),
         B \ F = DOMAIN L,
         \A b \in DOMAIN L : h.size[b] >= HEADER_SIZE + L[b]
  PROVE  /\ BlocksOf(h, end) = B /\ B \ DOMAIN L = F
         /\ Whole(h, L, e, end)
<1>1. F \subseteq B /\ Tiled(h, B, end) /\ h \in HeapRecords
  BY Parts
<1>2. BlocksOf(h, end) = B
  BY <1>1, BlocksAre
<1>3. B \ DOMAIN L = F /\ DOMAIN L \subseteq B
  BY <1>1
<1> QED BY <1>2, <1>3 DEF Whole

(* A block b is taken for the call q.                                      *)
Holding(q, b) == live' = [c \in DOMAIN live \cup {b} |->
                            IF c = b THEN q.ask ELSE live[c]]

LEMMA HoldingIs ==
  ASSUME TypeOK, NEW q, Asked(q), NEW b, Holding(q, b)
  PROVE  /\ DOMAIN live' = DOMAIN live \cup {b}
         /\ live'[b] = q.ask
         /\ \A c \in DOMAIN live \ {b} : live'[c] = live[c]
         /\ live' \in [DOMAIN live' -> Requests]
<1>1. live \in [DOMAIN live -> Requests] /\ q.ask \in Requests
  BY DEF TypeOK, Asked
<1>2. /\ DOMAIN live' = DOMAIN live \cup {b}
      /\ live'[b] = q.ask
      /\ \A c \in DOMAIN live \ {b} : live'[c] = live[c]
  BY DEF Holding
<1>3. \A c \in DOMAIN live' : live'[c] \in Requests
  BY <1>1, <1>2
<1>4. live' = [c \in DOMAIN live' |-> live'[c]]
  BY DEF Holding
<1> QED BY <1>2, <1>3, <1>4

(* Where the block comes from and what becomes of it.                      *)
Allocated(q, b) == /\ b \in Blocks \ DOMAIN live
                   /\ q.size <= heap.size[b]
                   /\ Holding(q, b)
                   /\ heap' \in HeapRecords
                   /\ heap'.size[b] = q.size
                   /\ \A c \in DOMAIN live : heap'.size[c] = heap.size[c]

LEMMA RemarkIs ==
  ASSUME NEW L, NEW e, NEW b, NEW L1, DOMAIN L1 = DOMAIN L \cup {b},
         b \notin DOMAIN L
  PROVE  Remark(Marked(L, e), b, IF e = "solution" THEN MAGIC ELSE NULL) = Marked(L1, e)
<1>1. NULL # MAGIC
  BY Addresses
<1> QED BY <1>1 DEF Remark, Marked

(* An allocation in the free block b, that the place p leads to or, when   *)
(* next fit goes astray, may not lead to.                                  *)
Answered(q, p, b, mark) ==
    /\ Allocated(q, b)
    /\ mark = NULL => LinkAt(heap', p) \in Address \cup {NULL}
    /\ LinkAt(heap, p) = b =>
         \E F1 : /\ Whole(heap', live', edition, heapSize)
                 /\ F1 = BlocksOf(heap', heapSize) \ DOMAIN live'
                 /\ p \in F1 \cup {NULL}
                 /\ Listed(heap', F1, Marked(live', edition))

LEMMA AllocationIs ==
  ASSUME IInv, status = "running", NEW F, F = Blocks \ DOMAIN live,
         NEW q, Asked(q), NEW b \in F, q.size <= heap.size[b],
         NEW p \in F \cup {NULL}, NEW mark,
         mark = IF edition = "solution" THEN MAGIC ELSE NULL,
         heap' = Allotted(heap, p, b, q.size, mark), Holding(q, b)
  PROVE  Answered(q, p, b, mark)
<1> DEFINE M == Marked(live, edition)
           B == Blocks
           end == heapSize
           n == q.size
           r == heap'
<1>0. /\ Described(heap, F, M, B, end) /\ Apart(heap, F, {})
      /\ DOMAIN live \subseteq B /\ B \ F = DOMAIN live
      /\ \A c \in DOMAIN live : heap.size[c] >= HEADER_SIZE + live[c]
      /\ b \notin DOMAIN live /\ F \subseteq B /\ b \in B
  <2>1. /\ Described(heap, F, M, B, end) /\ Apart(heap, F, {})
        /\ DOMAIN live \subseteq B /\ B \ F = DOMAIN live
        /\ \A c \in DOMAIN live : heap.size[c] >= HEADER_SIZE + live[c]
    BY Known
  <2> QED BY <2>1
<1>1. /\ DOMAIN live' = DOMAIN live \cup {b}
      /\ live'[b] = q.ask
      /\ \A c \in DOMAIN live : live'[c] = live[c]
  <2>1. TypeOK
    BY DEF IInv
  <2>2. /\ DOMAIN live' = DOMAIN live \cup {b}
        /\ live'[b] = q.ask
        /\ \A c \in DOMAIN live \ {b} : live'[c] = live[c]
    BY <2>1, HoldingIs
  <2> QED BY <2>2, <1>0
<1> HIDE DEF M, B, end, r
<1>2. Carving(heap, F, M, B, end, p, b, n, mark)
  <2>1. mark \in {NULL, MAGIC}
    OBVIOUS
  <2> QED BY <2>1, <1>0 DEF Carving, Asked
<1>3. CarvedSizes(r, heap, B, p, b, n, mark)
  <2>1. r = Allotted(heap, p, b, n, mark)
    BY DEF r
  <2> QED BY <2>1, <1>2, CarveSizes
<1>4. /\ r \in HeapRecords /\ r.size[b] = n
      /\ \A c \in DOMAIN live : r.size[c] = heap.size[c]
      /\ mark = NULL => LinkAt(r, p) \in Address \cup {NULL}
  BY <1>0, <1>3 DEF CarvedSizes
<1>5. Allocated(q, b)
  BY <1>0, <1>4 DEF Allocated, r, B
<1>6. ASSUME LinkAt(heap, p) = b
      PROVE  \E F1 : /\ Whole(r, live', edition, end)
                     /\ F1 = BlocksOf(r, end) \ DOMAIN live'
                     /\ p \in F1 \cup {NULL}
                     /\ Listed(r, F1, Marked(live', edition))
  <2>1. Carved(r, heap, F, M, B, end, p, b, n, mark)
    <3>1. r = Allotted(heap, p, b, n, mark)
      BY DEF r
    <3> QED BY <3>1, <1>0, <1>2, <1>6, CarveStep
  <2>2. PICK F1, B1 : /\ Described(r, F1, Remark(M, b, mark), B1, end)
                      /\ Apart(r, F1, {})
                      /\ B1 \ F1 = (B \ F) \cup {b}
                      /\ p \in F1 \cup {NULL}
    BY <2>1 DEF Carved
  <2>3. Remark(M, b, mark) = Marked(live', edition)
    BY <1>0, <1>1, RemarkIs DEF M
  <2>4. B1 \ F1 = DOMAIN live'
    BY <2>2, <1>0, <1>1
  <2>5. ASSUME NEW c \in DOMAIN live' PROVE r.size[c] >= HEADER_SIZE + live'[c]
    BY <1>0, <1>1, <1>4 DEF Asked
  <2>6. Described(r, F1, Marked(live', edition), B1, end)
    BY <2>2, <2>3
  <2>7. /\ BlocksOf(r, end) = B1 /\ B1 \ DOMAIN live' = F1
        /\ Whole(r, live', edition, end)
    BY <2>2, <2>4, <2>5, <2>6, WholeIs
  <2>8. Listed(r, F1, Marked(live', edition))
    BY <2>6 DEF Described
  <2> QED BY <2>2, <2>7, <2>8
<1> QED BY <1>4, <1>5, <1>6 DEF r, end, Answered

-----------------------------------------------------------------------------
(* my_malloc in the memory that the program has.                           *)
LEMMA MallocIs ==
  ASSUME IInv, NEW q \in Calls, Malloc(q)
  PROVE  /\ \E i : /\ Chosen(q, Visited, Blocks \ DOMAIN live, i)
                   /\ Allocated(q, Visited[i])
         /\ IInv'
<1> DEFINE F == Blocks \ DOMAIN live
           V == Visited
           i == Pick(q.size)
           p == At(V, i - 1)
           b == V[i]
           link == IF p = NULL THEN heap.first ELSE heap.next[p]
<1>0. /\ edition = "strategies" /\ status = "running" /\ edition # "solution"
      /\ TypeOK /\ Waiting /\ Extent
      /\ \A G : G = Blocks \ DOMAIN live =>
            /\ Round(Visited, G) /\ Lists(heap, G, FreeList(heap))
  <2>1. edition = "strategies" /\ status = "running"
    BY DEF Malloc, Running
  <2>2. Waiting /\ Extent
    BY <2>1, Known
  <2>3. \A G : G = Blocks \ DOMAIN live =>
            /\ Round(Visited, G) /\ Lists(heap, G, FreeList(heap))
    BY <2>1, Known, VisitedIs
  <2> QED BY <2>1, <2>2, <2>3 DEF IInv
<1>m. /\ i # 0
      /\ heap' = Allotted(heap, p, b, q.size, NULL)
      /\ Holding(q, b)
      /\ cursor' = CursorAfter(p)
      /\ status' = IF link = b THEN status ELSE "astray"
      /\ pending' = NoCall
      /\ UNCHANGED <<edition, strategy, heapSize, reserved, brk>>
  BY DEF Malloc, AllocateBlock, Allotted, Holding
<1>1. Asked(q)
  BY <1>0, CallsAre
<1>2. Round(V, F) /\ Lists(heap, F, FreeList(heap))
  BY <1>0
<1>3. i = Search(strategy, heap, V, q.size)
  BY DEF Pick
<1>v. strategy # "nextfit" => V = FreeList(heap)
  BY DEF Visited
<1> HIDE DEF F, V, i, p, b
<1>4. Chosen(q, V, F, i)
  BY <1>0, <1>1, <1>2, <1>3, <1>m, ChosenIs DEF F
<1>5. b \in F /\ p \in F \cup {NULL} /\ q.size <= heap.size[b] /\ i \in 1 .. Len(V)
  BY <1>4 DEF Chosen, b, p
<1>6. link = LinkAt(heap, p)
  BY DEF LinkAt
<1>7. /\ Allocated(q, b)
      /\ LinkAt(heap', p) \in Address \cup {NULL}
      /\ LinkAt(heap, p) = b =>
           \E F1 : /\ Whole(heap', live', edition, heapSize)
                   /\ F1 = BlocksOf(heap', heapSize) \ DOMAIN live'
                   /\ p \in F1 \cup {NULL}
                   /\ Listed(heap', F1, Marked(live', edition))
  <2>1. NULL = IF edition = "solution" THEN MAGIC ELSE NULL
    BY <1>0
  <2>2. F = Blocks \ DOMAIN live /\ status = "running"
    BY <1>0 DEF F
  <2>3. Answered(q, p, b, NULL)
    BY <2>1, <2>2, <1>1, <1>5, <1>m, AllocationIs
  <2> QED BY <2>3 DEF Answered
<1>8. heap' \in HeapRecords /\ heap'.first \in Address \cup {NULL}
  BY <1>7 DEF Allocated, HeapRecords
<1>9. cursor' = IF strategy # "nextfit" THEN cursor
                ELSE IF LinkAt(heap', p) # NULL THEN LinkAt(heap', p) ELSE heap'.first
  BY <1>m DEF CursorAfter, LinkAt
<1>10. TypeOK'
  <2>1. live' \in [DOMAIN live' -> Requests]
    BY <1>0, <1>1, <1>m, HoldingIs
  <2>2. cursor' \in Address \cup {NULL}
    BY <1>0, <1>7, <1>8, <1>9 DEF TypeOK
  <2>3. pending' \in [ask : Requests \cup {NULL}, size : Nat]
    BY <1>m DEF NoCall
  <2>4. status' \in {"running", "killed", "astray"}
    BY <1>0, <1>m
  <2> QED BY <2>1, <2>2, <2>3, <2>4, <1>0, <1>8, <1>m DEF TypeOK, HeapRecords
<1>11. strategy # "nextfit" => link = b
  <2> SUFFICES ASSUME strategy # "nextfit" PROVE LinkAt(heap, p) = b
    BY <1>6
  <2>1. /\ Len(V) \in Nat /\ DOMAIN V = 1 .. Len(V)
        /\ \A j \in 1 .. Len(V) + 1 : LinkAt(heap, At(V, j - 1)) = At(V, j)
    BY <1>2, <1>v DEF Lists
  <2>2. LinkAt(heap, p) = At(V, i) /\ At(V, i) = b
    BY <2>1, <1>5 DEF At, p, b
  <2> QED BY <2>2
<1>12. StopsOnlyIf'
  BY <1>0, <1>m, <1>11 DEF StopsOnlyIf
<1>13. ASSUME status' = "running"
       PROVE  Whole(heap', live', edition', heapSize') /\ Extent' /\ Waiting' /\ CursorAt'
  <2>1. LinkAt(heap, p) = b
    BY <1>13, <1>6, <1>m
  <2>2. PICK F1 : /\ Whole(heap', live', edition, heapSize)
                  /\ F1 = BlocksOf(heap', heapSize) \ DOMAIN live'
                  /\ p \in F1 \cup {NULL}
                  /\ Listed(heap', F1, Marked(live', edition))
    BY <2>1, <1>7
  <2>3. Extent' /\ Waiting'
    BY <1>0, <1>m DEF Extent, Waiting
  <2>4. LinkAt(heap', p) \in F1 \cup {NULL} /\ heap'.first \in F1 \cup {NULL}
    <3>1. Follows(F1, p, LinkAt(heap', p)) /\ Follows(F1, NULL, LinkAt(heap', NULL))
      BY <2>2 DEF Listed
    <3>2. LinkAt(heap', NULL) = heap'.first
      BY DEF LinkAt
    <3> QED BY <3>1, <3>2 DEF Follows
  <2>5. CursorAt'
    BY <2>2, <2>4, <1>9, <1>m DEF CursorAt, Blocks
  <2> QED BY <2>2, <2>3, <2>5, <1>m
<1>14. IInv'
  BY <1>10, <1>12, <1>13 DEF IInv
<1> QED BY <1>4, <1>7, <1>14 DEF F, V, b

LEMMA RefuseKeeps ==
  ASSUME IInv, NEW q \in Calls, Refuse(q)
  PROVE  IInv'
<1>1. /\ pending' = NoCall
      /\ UNCHANGED <<edition, heap, strategy, cursor, heapSize, reserved, brk,
                     live, status>>
  BY DEF Refuse
<1>2. TypeOK' /\ StopsOnlyIf'
  BY <1>1 DEF IInv, TypeOK, StopsOnlyIf, NoCall
<1>3. Waiting'
  BY <1>1 DEF Waiting
<1>4. status = "running" => Extent' /\ CursorAt' /\ Whole(heap', live', edition', heapSize')
  BY <1>1 DEF IInv, Extent, CursorAt, Blocks
<1> QED BY <1>1, <1>2, <1>3, <1>4 DEF IInv

LEMMA NextFitFaultKeeps ==
  ASSUME IInv, NEW q \in Calls, NextFitFault(q)
  PROVE  IInv'
<1>1. /\ status = "running" /\ strategy = "nextfit" /\ Visited = <<>>
      /\ status' = "killed"
      /\ UNCHANGED <<edition, heap, strategy, cursor, heapSize, reserved, brk,
                     pending, live>>
  BY DEF NextFitFault, Running
<1>2. heap.first = NULL
  BY <1>1, VisitedIs
<1>3. TypeOK' /\ StopsOnlyIf'
  BY <1>1, <1>2 DEF IInv, TypeOK, StopsOnlyIf
<1> QED BY <1>1, <1>3 DEF IInv

LEMMA SetKeeps ==
  ASSUME IInv, NEW s \in Strategies, SetAllocationStrategy(s)
  PROVE  IInv'
<1>1. /\ edition = "strategies" /\ status = "running"
      /\ strategy' = s
      /\ cursor' = IF s = "nextfit" THEN heap.first ELSE cursor
      /\ UNCHANGED <<edition, heap, heapSize, reserved, brk, pending, live, status>>
  BY DEF SetAllocationStrategy, Running
<1>2. TypeOK'
  BY <1>1, StrategyAssumption DEF IInv, TypeOK
<1>3. StopsOnlyIf'
  BY <1>1 DEF StopsOnlyIf
<1> DEFINE F == Blocks \ DOMAIN live
<1>4. heap.first \in F \cup {NULL}
  <2>1. Described(heap, F, Marked(live, edition), Blocks, heapSize)
    BY <1>1, Known
  <2>2. Follows(F, NULL, LinkAt(heap, NULL))
    BY <2>1 DEF Described, Listed
  <2> QED BY <2>2 DEF Follows, LinkAt
<1>5. CursorAt'
  BY <1>1, <1>4 DEF CursorAt, Blocks
<1>6. Extent' /\ Waiting' /\ Whole(heap', live', edition', heapSize')
  BY <1>1 DEF IInv, Extent, Waiting
<1> QED BY <1>2, <1>3, <1>5, <1>6 DEF IInv

(* A call that extends the heap, or that finds that it cannot: the blocks  *)
(* in use stay, and so does the memory that the program has.               *)
Kept == /\ UNCHANGED live
        /\ \A b \in DOMAIN live : heap'.size[b] = heap.size[b]
        /\ brk \in Nat /\ brk' \in Nat /\ brk' >= brk

LEMMA ExtendKeeps ==
  ASSUME IInv, NEW q \in Calls, Extend(q)
  PROVE  IInv' /\ Kept
<1> DEFINE F == Blocks \ DOMAIN live
           M == Marked(live, edition)
           B == Blocks
           end == heapSize
           s == FreeList(heap)
           i == Place(s, end)
           p == At(s, i - 1)
<1>m. /\ edition = "strategies" /\ status = "running"
      /\ q.size <= HEAP_SIZE
      /\ AllocHeap(heapSize + HEAP_SIZE)
      /\ heapSize' = heapSize + HEAP_SIZE
      /\ heapSize >= brk' => status' = "killed" /\ UNCHANGED <<heap, cursor, pending>>
      /\ ~(heapSize >= brk') =>
            /\ heap' = Insert(Grown(heap, end), end, s)
            /\ cursor' = IF strategy = "nextfit" THEN heap'.first ELSE cursor
            /\ pending' = q
            /\ status' = status
      /\ UNCHANGED <<edition, strategy, live>>
  BY DEF Extend, Running, Grown
<1>0. /\ TypeOK /\ Waiting /\ Extent /\ CursorAt
      /\ Described(heap, F, M, B, end) /\ Apart(heap, F, {})
      /\ Lists(heap, F, s)
      /\ DOMAIN live \subseteq B /\ B \ F = DOMAIN live
      /\ \A b \in DOMAIN live : heap.size[b] >= HEADER_SIZE + live[b]
  BY <1>m, Known DEF IInv
<1>h. HEAP_SIZE \in Nat \ {0} /\ Aligned(HEAP_SIZE) /\ MaxHeap \in Nat
      /\ MaxHeap >= 2 * HEAP_SIZE /\ NULL = -1
  BY HeapAssumption, Addresses
<1>1. /\ heapSize \in Nat /\ reserved \in Nat /\ brk \in Nat
      /\ \/ heapSize = HEAP_SIZE /\ reserved = HEAP_SIZE /\ brk = HEAP_SIZE
         \/ heapSize = 2 * HEAP_SIZE /\ reserved = 3 * HEAP_SIZE /\ brk = 2 * HEAP_SIZE
  BY <1>0, <1>m DEF TypeOK, Extent
<1>2. /\ brk' = brk + (heapSize + HEAP_SIZE - reserved) \/ brk' = brk
      /\ reserved' = reserved + (heapSize + HEAP_SIZE)
  <2>1. AllocHeap(heapSize + HEAP_SIZE)
    BY <1>m
  <2> QED BY <2>1, <1>1, <1>h DEF AllocHeap
<1>3. /\ brk' \in Nat /\ brk' >= brk /\ reserved' \in Nat /\ heapSize' \in Nat
      /\ brk' < reserved'
      /\ ~(heapSize >= brk') =>
            /\ heapSize = HEAP_SIZE /\ heapSize' = 2 * HEAP_SIZE
            /\ reserved' = 3 * HEAP_SIZE /\ brk' = 2 * HEAP_SIZE
  <2>1. CASE heapSize = HEAP_SIZE /\ reserved = HEAP_SIZE /\ brk = HEAP_SIZE
    <3>1. /\ brk' = 2 * HEAP_SIZE \/ brk' = HEAP_SIZE
          /\ reserved' = 3 * HEAP_SIZE /\ heapSize' = 2 * HEAP_SIZE
      BY <2>1, <1>2, <1>m, <1>h
    <3> QED BY <3>1, <2>1, <1>h
  <2>2. CASE heapSize = 2 * HEAP_SIZE /\ reserved = 3 * HEAP_SIZE /\ brk = 2 * HEAP_SIZE
    <3>1. /\ brk' = 2 * HEAP_SIZE
          /\ reserved' = 6 * HEAP_SIZE /\ heapSize' = 3 * HEAP_SIZE
      BY <2>2, <1>2, <1>m, <1>h
    <3> QED BY <3>1, <2>2, <1>h
  <2> QED BY <2>1, <2>2, <1>1
<1>4. Asked(q) /\ q \in [ask : Requests, size : Nat]
  BY <1>0, CallsAre
<1> HIDE DEF F, M, B, s, i, p
<1>5. CASE heapSize >= brk'
  <2>1. TypeOK'
    BY <1>0, <1>3, <1>5, <1>m DEF TypeOK
  <2>2. StopsOnlyIf' /\ status' # "running"
    BY <1>3, <1>5, <1>m DEF StopsOnlyIf
  <2>3. Kept
    BY <1>1, <1>3, <1>5, <1>m DEF Kept
  <2> QED BY <2>1, <2>2, <2>3 DEF IInv
<1>6. CASE ~(heapSize >= brk')
  <2>0. /\ F \subseteq B /\ F \subseteq Nat /\ \A b \in F : b < end
        /\ B \subseteq Nat /\ end \in Nat
    BY <1>0, Parts
  <2>1. /\ p \in F \cup {NULL} /\ LinkAt(heap, p) = NULL
        /\ At(s, i) = NULL
    <3>1. Placed(heap, F, s, end, i)
      BY <2>0, <1>0, <1>1, PlaceIs DEF i
    <3>2. /\ p \in F \cup {NULL} /\ At(s, i) = LinkAt(heap, p)
          /\ At(s, i) \in F \cup {NULL} /\ (At(s, i) = NULL \/ end <= At(s, i))
      BY <3>1 DEF Placed, p
    <3>3. At(s, i) \in F => ~(end <= At(s, i))
      <4>1. ASSUME NEW b \in F PROVE ~(end <= b)
        <5>1. b \in Nat /\ b < end /\ end \in Nat
          BY <2>0
        <5> QED BY <5>1
      <4> QED BY <4>1
    <3> QED BY <3>2, <3>3
  <2>2. heap' = SetNext([Grown(heap, end) EXCEPT !.next[end] = NULL], p, end)
    BY <2>1, <1>6, <1>m DEF Insert, i, p
  <2>3. Appending(heap, F, M, B, end, p)
    <3>1. Aligned(end) /\ end % HEAP_SIZE = 0
      BY <1>0 DEF Extent
    <3>2. end + HEAP_SIZE <= MaxHeap
      BY <1>3, <1>6, <1>h
    <3> QED BY <2>1, <3>1, <3>2, <1>0 DEF Appending
  <2>4. /\ Described(heap', F \cup {end}, M \ {end}, B \cup {end}, heapSize')
        /\ Apart(heap', F \cup {end}, {}) /\ end \notin B
        /\ \A d \in B : heap'.size[d] = heap.size[d]
    <3>1. Appended(heap', heap, F, M, B, end, p)
      BY <2>2, <2>3, AppendStep
    <3> QED BY <3>1, <1>m DEF Appended
  <2> DEFINE F1 == F \cup {end}
             B1 == B \cup {end}
  <2>5. /\ M \ {end} = Marked(live', edition')
        /\ B1 \ F1 = DOMAIN live'
    <3>1. M \subseteq DOMAIN live
      BY DEF M, Marked
    <3>2. M = Marked(live', edition')
      BY <1>m DEF M
    <3> QED BY <3>1, <3>2, <2>4, <1>0, <1>m
  <2>6. \A b \in DOMAIN live' : heap'.size[b] >= HEADER_SIZE + live'[b]
    BY <2>4, <1>0, <1>m
  <2>7. /\ BlocksOf(heap', heapSize') = B1 /\ B1 \ DOMAIN live' = F1
        /\ Whole(heap', live', edition', heapSize')
    <3> HIDE DEF F1, B1
    <3>1. Described(heap', F1, Marked(live', edition'), B1, heapSize')
      BY <2>4, <2>5 DEF F1, B1
    <3>2. Apart(heap', F1, {})
      BY <2>4 DEF F1
    <3> QED BY <3>1, <3>2, <2>5, <2>6, WholeIs
  <2>8. heap'.first \in F1 \cup {NULL} /\ heap' \in HeapRecords
    <3>1. Follows(F1, NULL, LinkAt(heap', NULL)) /\ heap' \in HeapRecords
      BY <2>4 DEF Described, Listed
    <3> QED BY <3>1 DEF Follows, LinkAt
  <2>9. TypeOK'
    <3>1. heap'.first \in Address \cup {NULL}
      BY <2>8 DEF HeapRecords
    <3>2. cursor' \in Address \cup {NULL}
      BY <3>1, <1>0, <1>6, <1>m DEF TypeOK
    <3>3. pending' \in [ask : Requests \cup {NULL}, size : Nat]
      BY <1>4, <1>6, <1>m
    <3> QED BY <2>8, <3>2, <3>3, <1>0, <1>3, <1>6, <1>m DEF TypeOK, HeapRecords
  <2>10. StopsOnlyIf' /\ status' = "running"
    BY <1>6, <1>m DEF StopsOnlyIf
  <2>11. Extent'
    <3>1. heapSize' % HEAP_SIZE = 0 /\ Aligned(heapSize')
      <4>1. end % HEAP_SIZE = 0 /\ Aligned(end)
        BY <1>0 DEF Extent
      <4> QED BY <4>1, <1>1, <1>h, <1>m, ModIs, AlignedParts
    <3> QED BY <3>1, <1>3, <1>6, <1>m DEF Extent
  <2>12. Waiting'
    <3>1. q.size \in q.ask .. HEAP_SIZE /\ q.ask \in Requests
      <4>1. /\ q.ask \in Requests /\ q.size \in Nat
            /\ q.size >= HEADER_SIZE + q.ask
        BY <1>4 DEF Asked
      <4>2. q.ask \in Int /\ HEADER_SIZE \in Nat
        <5>1. WORD - 2 * HEADER_SIZE \in Int /\ HEADER_SIZE \in Nat
          BY HeaderAssumption, WordAssumption
        <5>2. q.ask \in 0 .. (WORD - 2 * HEADER_SIZE)
          BY <4>1, RequestAssumption
        <5> QED BY <5>1, <5>2
      <4> QED BY <4>1, <4>2, <1>h, <1>m
    <3> QED BY <3>1, <1>6, <1>m DEF Waiting
  <2>13. CursorAt'
    <3>1. cursor' = IF strategy = "nextfit" THEN heap'.first ELSE cursor
      BY <1>6, <1>m
    <3> QED BY <3>1, <2>7, <2>8, <1>m DEF CursorAt, Blocks
  <2>14. Kept
    BY <2>4, <1>0, <1>1, <1>3, <1>m DEF Kept
  <2> QED BY <2>7, <2>9, <2>10, <2>11, <2>12, <2>13, <2>14 DEF IInv
<1> QED BY <1>5, <1>6

(* my_free, of either program.                                             *)
Released(a) == /\ a \in DOMAIN live
               /\ live' = [b \in DOMAIN live \ {a} |-> live[b]]
               /\ \A b \in DOMAIN live \ {a} : heap'.size[b] = heap.size[b]
               /\ UNCHANGED brk

LEMMA ReleaseIs ==
  ASSUME IInv, status = "running", NEW F, F = Blocks \ DOMAIN live,
         NEW a \in DOMAIN live, NEW base,
         Rejoined(heap, heap', F, Marked(live, edition), Blocks, heapSize, a, base),
         live' = [b \in DOMAIN live \ {a} |-> live[b]]
  PROVE  /\ heap' \in HeapRecords
         /\ \A b \in DOMAIN live \ {a} : heap'.size[b] = heap.size[b]
         /\ Whole(heap', live', edition, heapSize)
         /\ base \in BlocksOf(heap', heapSize) \ DOMAIN live'
         /\ base \in Address /\ heap'.first \in Address \cup {NULL}
         /\ live' \in [DOMAIN live' -> Requests]
<1>1. /\ Blocks \ F = DOMAIN live
      /\ \A b \in DOMAIN live : heap.size[b] >= HEADER_SIZE + live[b]
      /\ live \in [DOMAIN live -> Requests]
  BY Known DEF IInv, TypeOK
<1>2. PICK F1, B1 :
         /\ Described(heap', F1, Marked(live, edition) \ {a}, B1, heapSize)
         /\ Apart(heap', F1, {})
         /\ B1 \ F1 = (Blocks \ F) \ {a}
         /\ \A d \in (Blocks \ F) \ {a} : heap'.size[d] = heap.size[d]
         /\ base \in F1
  BY DEF Rejoined
<1>3. Marked(live, edition) \ {a} = Marked(live', edition)
  BY DEF Marked
<1>4. B1 \ F1 = DOMAIN live'
  BY <1>1, <1>2
<1>5. \A b \in DOMAIN live' : heap'.size[b] >= HEADER_SIZE + live'[b]
  BY <1>1, <1>2
<1>6. /\ BlocksOf(heap', heapSize) = B1 /\ B1 \ DOMAIN live' = F1
      /\ Whole(heap', live', edition, heapSize)
  <2>1. Described(heap', F1, Marked(live', edition), B1, heapSize)
    BY <1>2, <1>3
  <2>2. Apart(heap', F1, {})
    BY <1>2
  <2> QED BY ONLY <2>1, <2>2, <1>4, <1>5, WholeIs
<1>7. /\ heap' \in HeapRecords /\ base \in Address
      /\ heap'.first \in Address \cup {NULL}
  <2>1. F1 \subseteq Address /\ heap' \in HeapRecords
    BY <1>2, Parts
  <2> QED BY <2>1, <1>2 DEF HeapRecords
<1> QED BY <1>1, <1>2, <1>6, <1>7

LEMMA FreeKeeps ==
  ASSUME IInv, NEW a \in DOMAIN live, Free(a)
  PROVE  IInv' /\ Released(a)
<1> DEFINE F == Blocks \ DOMAIN live
           M == Marked(live, edition)
           s == FreeList(heap)
           base == FreedBase(heap, a, s)
<1>m. /\ edition = "strategies" /\ status = "running" /\ pending = NoCall
      /\ heap' = Freed(heap, a, s)
      /\ live' = [b \in DOMAIN live \ {a} |-> live[b]]
      /\ cursor' = IF strategy = "nextfit" THEN base ELSE cursor
      /\ UNCHANGED <<edition, strategy, heapSize, reserved, brk, pending, status>>
  BY DEF Free, Running
<1> HIDE DEF s, base, F, M
<1>0. /\ Described(heap, F, M, Blocks, heapSize) /\ Apart(heap, F, {})
      /\ M \cap F = {} /\ Lists(heap, F, s)
      /\ DOMAIN live \subseteq Blocks /\ Blocks \ F = DOMAIN live
      /\ Extent /\ Waiting /\ CursorAt
  BY <1>m, Known DEF F, M, s
<1>1. Rejoined(heap, heap', F, M, Blocks, heapSize, a, base)
  <2>1. a \in Blocks \ F
    BY <1>0
  <2> QED BY <2>1, <1>0, <1>m, FreedKeeps DEF base
<1>2. /\ heap' \in HeapRecords
      /\ \A b \in DOMAIN live \ {a} : heap'.size[b] = heap.size[b]
      /\ Whole(heap', live', edition, heapSize)
      /\ base \in BlocksOf(heap', heapSize) \ DOMAIN live'
      /\ base \in Address
      /\ live' \in [DOMAIN live' -> Requests]
  BY <1>1, <1>m, ReleaseIs DEF F, M
<1>3. TypeOK'
  BY <1>2, <1>m DEF IInv, TypeOK, HeapRecords
<1>4. StopsOnlyIf'
  BY <1>m DEF StopsOnlyIf
<1>5. CursorAt'
  BY <1>0, <1>2, <1>m DEF CursorAt, Blocks
<1>6. Extent' /\ Waiting' /\ Whole(heap', live', edition', heapSize')
  BY <1>0, <1>2, <1>m DEF Extent, Waiting
<1>7. Released(a)
  BY <1>2, <1>m DEF Released
<1> QED BY <1>3, <1>4, <1>5, <1>6, <1>7 DEF IInv

-----------------------------------------------------------------------------
(* The calls of the second solution.                                       *)
LEMMA SolutionMallocIs ==
  ASSUME IInv, NEW q \in Calls, SolutionMalloc(q)
  PROVE  /\ \E i : /\ Chosen(q, Visited, Blocks \ DOMAIN live, i)
                   /\ Allocated(q, Visited[i])
         /\ IInv'
<1> DEFINE F == Blocks \ DOMAIN live
           V == Visited
           s == FreeList(heap)
           i == Search("bestfit", heap, s, q.size)
           p == At(s, i - 1)
           b == s[i]
<1>m. /\ edition = "solution" /\ status = "running"
      /\ i # 0
      /\ heap' = Allotted(heap, p, b, q.size, MAGIC)
      /\ Holding(q, b)
      /\ UNCHANGED <<edition, strategy, cursor, heapSize, reserved, brk, pending,
                     status>>
  BY DEF SolutionMalloc, Running, SolutionAllocate, Allotted, Holding
<1>0. /\ TypeOK /\ Waiting /\ Extent /\ CursorAt /\ strategy = "bestfit"
      /\ Round(V, F) /\ Lists(heap, F, s)
  <2>1. Waiting /\ Extent /\ CursorAt /\ Lists(heap, F, s)
    BY <1>m, Known
  <2>2. Round(V, F)
    BY <1>m, VisitedIs
  <2> QED BY <2>1, <2>2, <1>m DEF IInv, Extent
<1>1. Asked(q)
  BY <1>0, CallsAre
<1>2. V = s
  BY <1>0 DEF Visited
<1>3. i = Search(strategy, heap, V, q.size)
  BY <1>0, <1>2
<1>f. F = Blocks \ DOMAIN live
  OBVIOUS
<1> HIDE DEF F, V, i, p, b, s
<1>4. Chosen(q, V, F, i)
  BY <1>0, <1>1, <1>3, <1>f, <1>m, ChosenIs
<1>5. b \in F /\ p \in F \cup {NULL} /\ q.size <= heap.size[b] /\ i \in 1 .. Len(V)
  BY <1>2, <1>4 DEF Chosen, b, p
<1>6. LinkAt(heap, p) = b
  <2>1. /\ Len(s) \in Nat /\ DOMAIN s = 1 .. Len(s)
        /\ \A j \in 1 .. Len(s) + 1 : LinkAt(heap, At(s, j - 1)) = At(s, j)
    BY <1>0 DEF Lists
  <2> QED BY <2>1, <1>2, <1>5 DEF At, p, b
<1>7. Answered(q, p, b, MAGIC)
  <2>1. MAGIC = IF edition = "solution" THEN MAGIC ELSE NULL
    BY <1>m
  <2> QED BY <2>1, <1>f, <1>1, <1>5, <1>m, AllocationIs
<1>8. /\ Allocated(q, b) /\ Whole(heap', live', edition, heapSize)
      /\ heap' \in HeapRecords
  BY <1>6, <1>7 DEF Answered, Allocated
<1>9. TypeOK'
  <2>1. live' \in [DOMAIN live' -> Requests]
    BY <1>0, <1>1, <1>m, HoldingIs
  <2> QED BY <2>1, <1>0, <1>8, <1>m DEF TypeOK, HeapRecords
<1>10. StopsOnlyIf'
  BY <1>m DEF StopsOnlyIf
<1>11. Extent' /\ Waiting' /\ CursorAt' /\ Whole(heap', live', edition', heapSize')
  BY <1>0, <1>8, <1>m DEF Extent, Waiting, CursorAt
<1>12. IInv'
  BY <1>9, <1>10, <1>11 DEF IInv
<1>13. b = V[i]
  BY <1>2 DEF b
<1> QED BY <1>4, <1>8, <1>12, <1>13 DEF F, V

(* The memory that the heap is extended by: its first part is handed out.  *)
Enlarged(q) == /\ Holding(q, heapSize) /\ heapSize \notin DOMAIN live
               /\ heap'.size[heapSize] = q.size
               /\ \A c \in DOMAIN live : heap'.size[c] = heap.size[c]
               /\ brk' = heapSize + HEAP_SIZE /\ brk = heapSize
               /\ q.size <= HEAP_SIZE

LEMMA SolutionExtendKeeps ==
  ASSUME IInv, NEW q \in Calls, SolutionExtend(q)
  PROVE  IInv' /\ (Kept \/ Enlarged(q))
<1> DEFINE F == Blocks \ DOMAIN live
           M == Marked(live, edition)
           B == Blocks
           end == heapSize
           s == FreeList(heap)
           p == At(s, Len(s))
           g == SetNext([Grown(heap, end) EXCEPT !.next[end] = NULL], p, end)
           r == heap'
           n == q.size
<1>m. /\ edition = "solution" /\ status = "running"
      /\ n <= HEAP_SIZE - HEADER_SIZE
      /\ heapSize + HEAP_SIZE <= MaxHeap
      /\ SolutionAllocHeap(heapSize + HEAP_SIZE)
      /\ heapSize >= brk' =>
            status' = "killed" /\ UNCHANGED <<heap, heapSize, live>>
      /\ ~(heapSize >= brk') =>
            /\ heap' = Allotted(g, p, end, n, MAGIC)
            /\ Holding(q, end)
            /\ heapSize' = heapSize + HEAP_SIZE
            /\ status' = status
      /\ UNCHANGED <<edition, strategy, cursor, pending>>
  BY DEF SolutionExtend, Running, Grown, SolutionAllocate, Allotted, Holding
<1>0. /\ TypeOK /\ Waiting /\ Extent /\ CursorAt
      /\ Described(heap, F, M, B, end) /\ Apart(heap, F, {})
      /\ Lists(heap, F, s)
      /\ DOMAIN live \subseteq B /\ B \ F = DOMAIN live
      /\ \A b \in DOMAIN live : heap.size[b] >= HEADER_SIZE + live[b]
  BY <1>m, Known DEF IInv
<1>h. HEAP_SIZE \in Nat \ {0} /\ Aligned(HEAP_SIZE) /\ MaxHeap \in Nat
      /\ NULL = -1 /\ HEADER_SIZE \in Nat
  BY HeapAssumption, HeaderAssumption, Addresses
<1>1. /\ heapSize \in Nat /\ reserved = heapSize /\ brk = heapSize
      /\ end % HEAP_SIZE = 0 /\ Aligned(end) /\ strategy = "bestfit"
  BY <1>0, <1>m DEF TypeOK, Extent
<1>2. /\ brk' = brk + (heapSize + HEAP_SIZE - reserved) \/ brk' = brk
      /\ reserved' = heapSize + HEAP_SIZE
  <2>1. SolutionAllocHeap(heapSize + HEAP_SIZE)
    BY <1>m
  <2> QED BY <2>1, <1>1, <1>h DEF SolutionAllocHeap
<1>3. /\ brk' \in Nat /\ brk' >= brk /\ reserved' \in Nat
      /\ heapSize >= brk' => brk' < reserved'
      /\ ~(heapSize >= brk') => brk' = heapSize + HEAP_SIZE
  BY <1>1, <1>2, <1>h
<1>4. Asked(q)
  BY <1>0, CallsAre
<1> HIDE DEF F, M, B, s, p, g, r
<1>5. CASE heapSize >= brk'
  <2>1. TypeOK'
    BY <1>0, <1>3, <1>5, <1>m DEF TypeOK
  <2>2. StopsOnlyIf' /\ status' # "running"
    BY <1>3, <1>5, <1>m DEF StopsOnlyIf
  <2>3. Kept
    BY <1>1, <1>3, <1>5, <1>m DEF Kept
  <2> QED BY <2>1, <2>2, <2>3 DEF IInv
<1>6. CASE ~(heapSize >= brk')
  <2>1. p \in F \cup {NULL} /\ LinkAt(heap, p) = NULL
    <3>1. /\ Len(s) \in Nat /\ DOMAIN s = 1 .. Len(s)
          /\ \A i \in 1 .. Len(s) : s[i] \in F
          /\ \A i \in 1 .. Len(s) + 1 : LinkAt(heap, At(s, i - 1)) = At(s, i)
      BY <1>0 DEF Lists
    <3>2. Len(s) + 1 \in 1 .. Len(s) + 1 /\ Len(s) + 1 - 1 = Len(s)
          /\ Len(s) + 1 \notin DOMAIN s
      BY <3>1
    <3>3. LinkAt(heap, At(s, Len(s) + 1 - 1)) = At(s, Len(s) + 1)
      BY <3>1, <3>2
    <3>4. LinkAt(heap, p) = NULL
      BY <3>2, <3>3 DEF At, p
    <3>5. p \in F \cup {NULL}
      BY <3>1 DEF At, p
    <3> QED BY <3>4, <3>5
  <2>2. Appended(g, heap, F, M, B, end, p)
    <3>1. Appending(heap, F, M, B, end, p)
      BY <2>1, <1>0, <1>1, <1>m DEF Appending
    <3> QED BY <3>1, AppendStep DEF g
  <2> DEFINE F1 == F \cup {end}
             M1 == M \ {end}
             B1 == B \cup {end}
             end1 == end + HEAP_SIZE
  <2>3. /\ Described(g, F1, M1, B1, end1)
        /\ Apart(g, F1, {})
        /\ LinkAt(g, p) = end /\ end \notin B
        /\ g.size[end] = HEAP_SIZE
        /\ \A d \in B : g.size[d] = heap.size[d]
    BY <2>2 DEF Appended
  <2>4. /\ end \in F1 /\ p \in F1 \cup {NULL} /\ end \in B1
        /\ n \in Nat \ {0} /\ Aligned(n) /\ n <= HEAP_SIZE
        /\ r = Allotted(g, p, end, n, MAGIC)
    <3>1. n \in Nat \ {0} /\ Aligned(n)
      BY <1>4 DEF Asked
    <3>2. n <= HEAP_SIZE
      BY <3>1, <1>h, <1>m
    <3>3. r = Allotted(g, p, end, n, MAGIC)
      BY <1>6, <1>m DEF r
    <3> QED BY <2>1, <3>1, <3>2, <3>3
  <2> HIDE DEF F1, M1, B1, end1
  <2>5. Carving(g, F1, M1, B1, end1, p, end, n, MAGIC)
    BY <2>3, <2>4 DEF Carving
  <2>6. CarvedSizes(r, g, B1, p, end, n, MAGIC)
    BY <2>4, <2>5, CarveSizes
  <2>7. Carved(r, g, F1, M1, B1, end1, p, end, n, MAGIC)
    BY <2>3, <2>4, <2>5, CarveStep
  <2>8. PICK F2, B2 : /\ Described(r, F2, Remark(M1, end, MAGIC), B2, end1)
                      /\ Apart(r, F2, {})
                      /\ B2 \ F2 = (B1 \ F1) \cup {end}
    BY <2>7 DEF Carved
  <2>9. /\ DOMAIN live' = DOMAIN live \cup {end}
        /\ live'[end] = q.ask
        /\ \A c \in DOMAIN live \ {end} : live'[c] = live[c]
        /\ live' \in [DOMAIN live' -> Requests]
    BY <1>0, <1>4, <1>6, <1>m, HoldingIs
  <2>10. end \notin DOMAIN live
    BY <2>3, <1>0
  <2>11. Remark(M1, end, MAGIC) = Marked(live', edition')
    BY <2>9, <2>10, <1>m DEF Remark, Marked, M1, M
  <2>12. B2 \ F2 = DOMAIN live'
    BY <2>3, <2>8, <2>9, <1>0 DEF B1, F1
  <2>13. /\ r.size[end] = n /\ r \in HeapRecords
         /\ \A c \in DOMAIN live : r.size[c] = heap.size[c]
    <3>1. ASSUME NEW c \in DOMAIN live PROVE r.size[c] = heap.size[c]
      <4>1. c \in B /\ c \in B1 \ {end}
        BY <2>3, <1>0 DEF B1
      <4> QED BY <4>1, <2>3, <2>6 DEF CarvedSizes
    <3> QED BY <3>1, <2>6 DEF CarvedSizes
  <2>14. ASSUME NEW c \in DOMAIN live' PROVE r.size[c] >= HEADER_SIZE + live'[c]
    <3>1. CASE c = end
      BY <3>1, <2>9, <2>13, <1>4 DEF Asked
    <3>2. CASE c # end
      BY <3>2, <2>9, <2>13, <1>0
    <3> QED BY <3>1, <3>2
  <2>15. Whole(r, live', edition', end1)
    <3>1. Described(r, F2, Marked(live', edition'), B2, end1)
      BY <2>8, <2>11
    <3>2. Apart(r, F2, {})
      BY <2>8
    <3> QED BY <3>1, <3>2, <2>12, <2>14, WholeIs
  <2>16. heapSize' = end1 /\ end1 \in Nat /\ status' = "running"
    BY <1>1, <1>6, <1>h, <1>m DEF end1
  <2>17. TypeOK'
    BY <2>9, <2>13, <2>16, <1>0, <1>3, <1>m DEF TypeOK, HeapRecords, r
  <2>18. StopsOnlyIf'
    BY <2>16 DEF StopsOnlyIf
  <2>19. Extent'
    <3>1. end1 % HEAP_SIZE = 0 /\ Aligned(end1)
      BY <1>1, <1>h, ModIs, AlignedParts DEF end1
    <3> QED BY <3>1, <2>16, <1>1, <1>2, <1>3, <1>6, <1>m DEF Extent, end1
  <2>20. Waiting' /\ CursorAt'
    BY <1>0, <1>1, <1>m DEF Waiting, CursorAt
  <2>21. Enlarged(q)
    BY <2>4, <2>10, <2>13, <1>1, <1>3, <1>6, <1>m DEF Enlarged, r
  <2> QED BY <2>15, <2>16, <2>17, <2>18, <2>19, <2>20, <2>21 DEF IInv, r
<1> QED BY <1>5, <1>6

LEMMA SolutionFreeKeeps ==
  ASSUME IInv, NEW a \in DOMAIN live, SolutionFree(a)
  PROVE  IInv' /\ (Kept \/ Released(a))
<1> DEFINE F == Blocks \ DOMAIN live
           M == Marked(live, edition)
           s == FreeList(heap)
<1>m. /\ edition = "solution" /\ status = "running"
      /\ heap.first = NULL => status' = "killed" /\ UNCHANGED <<heap, live>>
      /\ heap.first # NULL =>
            /\ heap' = SolutionFreed(heap, a, s)
            /\ live' = [b \in DOMAIN live \ {a} |-> live[b]]
            /\ status' = status
      /\ UNCHANGED <<edition, strategy, cursor, heapSize, reserved, brk, pending>>
  BY DEF SolutionFree, Running
<1> HIDE DEF s, F, M
<1>0. /\ Described(heap, F, M, Blocks, heapSize) /\ Apart(heap, F, {})
      /\ M \cap F = {} /\ Lists(heap, F, s)
      /\ DOMAIN live \subseteq Blocks /\ Blocks \ F = DOMAIN live
      /\ TypeOK /\ Extent /\ Waiting /\ CursorAt /\ strategy = "bestfit"
  BY <1>m, Known DEF F, M, s, Extent, IInv
<1>1. CASE heap.first = NULL
  <2>1. TypeOK' /\ StopsOnlyIf' /\ status' # "running"
    BY <1>0, <1>1, <1>m DEF TypeOK, StopsOnlyIf
  <2>2. Kept
    BY <1>0, <1>1, <1>m DEF Kept, TypeOK
  <2> QED BY <2>1, <2>2 DEF IInv
<1>2. CASE heap.first # NULL
  <2>1. PICK base : Rejoined(heap, heap', F, M, Blocks, heapSize, a, base)
    <3>1. a \in Blocks \ F
      BY <1>0
    <3> QED BY <3>1, <1>0, <1>2, <1>m, SolutionFreedKeeps
  <2>2. /\ heap' \in HeapRecords
        /\ \A b \in DOMAIN live \ {a} : heap'.size[b] = heap.size[b]
        /\ Whole(heap', live', edition, heapSize)
        /\ live' \in [DOMAIN live' -> Requests]
    BY <2>1, <1>2, <1>m, ReleaseIs DEF F, M
  <2>3. TypeOK'
    BY <2>2, <1>0, <1>2, <1>m DEF TypeOK, HeapRecords
  <2>4. StopsOnlyIf'
    BY <1>2, <1>m DEF StopsOnlyIf
  <2>5. Extent' /\ Waiting' /\ CursorAt' /\ Whole(heap', live', edition', heapSize')
    BY <2>2, <1>0, <1>m DEF Extent, Waiting, CursorAt
  <2>6. Released(a)
    BY <2>2, <1>2, <1>m DEF Released
  <2> QED BY <2>3, <2>4, <2>5, <2>6 DEF IInv
<1> QED BY <1>1, <1>2

-----------------------------------------------------------------------------
(* Every step keeps the invariant and is one of these for the application: *)
(* the chosen block is taken, new memory is, a block is given back, or     *)
(* nothing is.                                                             *)
Taking(q, i) == /\ Asked(q)
                /\ Chosen(q, Visited, Blocks \ DOMAIN live, i)
                /\ Allocated(q, Visited[i])
                /\ UNCHANGED brk
Outcome == \/ /\ status = "running"
              /\ \/ \E q \in Calls : \E i : Taking(q, i)
                 \/ \E q \in Calls : Asked(q) /\ Enlarged(q)
                 \/ \E a \in DOMAIN live : Released(a)
           \/ Kept

LEMMA InitIs ==
  ASSUME Init
  PROVE  IInv
<1> DEFINE F == {0}
<1>0. /\ HEAP_SIZE \in Nat \ {0} /\ MaxHeap \in Nat /\ MaxHeap >= 2 * HEAP_SIZE
      /\ Aligned(HEAP_SIZE) /\ NULL = -1 /\ NULL \notin Address
      /\ 0 \in Address /\ Address \subseteq Nat
  BY HeapAssumption, Addresses
<1>1. /\ heap.size = [a \in Address |-> IF a = 0 THEN HEAP_SIZE ELSE 0]
      /\ heap.next = [a \in Address |-> NULL]
      /\ heap.first = 0
      /\ heap = [size |-> heap.size, next |-> heap.next, first |-> heap.first]
      /\ strategy = "bestfit" /\ cursor = NULL /\ heapSize = HEAP_SIZE
      /\ reserved = HEAP_SIZE /\ brk = HEAP_SIZE /\ pending = NoCall
      /\ DOMAIN live = {} /\ live = [b \in {} |-> NULL] /\ status = "running"
      /\ edition \in Editions
  BY DEF Init
<1>2. heap \in HeapRecords
  BY <1>0, <1>1 DEF HeapRecords
<1>3. /\ heap.size[0] = HEAP_SIZE /\ heap.next[0] = NULL
      /\ \A a \in Address : heap.next[a] = NULL
  BY <1>0, <1>1
<1>4. Listed(heap, F, {})
  <2>1. Follows(F, NULL, 0) /\ Follows(F, 0, NULL)
    BY <1>0 DEF Follows
  <2>2. LinkAt(heap, NULL) = 0 /\ LinkAt(heap, 0) = NULL
    BY <1>0, <1>1, <1>3 DEF LinkAt
  <2>3. \A a \in Address \ F : heap.next[a] = Mark({}, a)
    BY <1>3 DEF Mark
  <2> QED BY <2>1, <2>2, <2>3, <1>0 DEF Listed
<1>5. Tiled(heap, {0}, HEAP_SIZE)
  <2>1. Aligned(0)
    BY HeaderAssumption DEF Aligned
  <2> QED BY <2>1, <1>0, <1>3 DEF Tiled
<1>6. Marked(live, edition) = {}
  BY <1>1 DEF Marked
<1>7. Described(heap, F, Marked(live, edition), {0}, HEAP_SIZE)
  BY <1>2, <1>4, <1>5, <1>6 DEF Described
<1>8. Apart(heap, F, {})
  BY <1>0, <1>3 DEF Apart, Ends
<1>9. Whole(heap, live, edition, heapSize) /\ Blocks \ DOMAIN live = {0}
  <2>1. {0} \ F = DOMAIN live
    BY <1>1
  <2>2. \A b \in DOMAIN live : heap.size[b] >= HEADER_SIZE + live[b]
    BY <1>1
  <2>3. /\ BlocksOf(heap, HEAP_SIZE) = {0} /\ {0} \ DOMAIN live = F
        /\ Whole(heap, live, edition, HEAP_SIZE)
    BY <2>1, <2>2, <1>7, <1>8, WholeIs
  <2> QED BY <2>3, <1>1 DEF Blocks
<1>10. TypeOK
  <2>1. live \in [DOMAIN live -> Requests]
    BY <1>1
  <2>2. pending \in [ask : Requests \cup {NULL}, size : Nat]
    BY <1>1 DEF NoCall
  <2> QED BY <2>1, <2>2, <1>0, <1>1, <1>2 DEF TypeOK, HeapRecords
<1>11. StopsOnlyIf /\ Waiting /\ CursorAt
  BY <1>1 DEF StopsOnlyIf, Waiting, CursorAt
<1>12. Extent
  <2>1. HEAP_SIZE % HEAP_SIZE = 0
    BY <1>0, ModIs
  <2> QED BY <2>1, <1>0, <1>1 DEF Extent
<1> QED BY <1>9, <1>10, <1>11, <1>12 DEF IInv

LEMMA StepIs ==
  ASSUME IInv, Next
  PROVE  IInv' /\ Outcome
<1>0. brk \in Nat /\ (status = "running" => Waiting)
  BY DEF IInv, TypeOK
<1>1. ASSUME NEW q \in Calls, Malloc(q) PROVE IInv' /\ Outcome
  <2>1. Asked(q) /\ UNCHANGED brk /\ status = "running"
    <3>1. status = "running" /\ UNCHANGED brk
      BY <1>1 DEF Malloc, Running
    <3> QED BY <3>1, <1>0, CallsAre
  <2> QED BY <2>1, <1>1, MallocIs DEF Outcome, Taking
<1>2. ASSUME NEW q \in Calls, SolutionMalloc(q) PROVE IInv' /\ Outcome
  <2>1. Asked(q) /\ UNCHANGED brk /\ status = "running"
    <3>1. status = "running" /\ UNCHANGED brk
      BY <1>2 DEF SolutionMalloc, Running
    <3> QED BY <3>1, <1>0, CallsAre
  <2> QED BY <2>1, <1>2, SolutionMallocIs DEF Outcome, Taking
<1>3. ASSUME NEW q \in Calls, Refuse(q) PROVE IInv' /\ Outcome
  <2>1. Kept
    BY <1>0, <1>3 DEF Refuse, Kept
  <2> QED BY <2>1, <1>3, RefuseKeeps DEF Outcome
<1>4. ASSUME NEW q \in Calls, Extend(q) PROVE IInv' /\ Outcome
  BY <1>4, ExtendKeeps DEF Outcome
<1>5. ASSUME NEW q \in Calls, NextFitFault(q) PROVE IInv' /\ Outcome
  <2>1. Kept
    BY <1>0, <1>5 DEF NextFitFault, Kept
  <2> QED BY <2>1, <1>5, NextFitFaultKeeps DEF Outcome
<1>6. ASSUME NEW q \in Calls, SolutionExtend(q) PROVE IInv' /\ Outcome
  <2>1. Asked(q) /\ status = "running"
    <3>1. status = "running"
      BY <1>6 DEF SolutionExtend, Running
    <3> QED BY <3>1, <1>0, CallsAre
  <2> QED BY <2>1, <1>6, SolutionExtendKeeps DEF Outcome
<1>7. ASSUME NEW a \in DOMAIN live, Free(a) PROVE IInv' /\ Outcome
  <2>1. status = "running"
    BY <1>7 DEF Free, Running
  <2> QED BY <2>1, <1>7, FreeKeeps DEF Outcome
<1>8. ASSUME NEW a \in DOMAIN live, SolutionFree(a) PROVE IInv' /\ Outcome
  <2>1. status = "running"
    BY <1>8 DEF SolutionFree, Running
  <2> QED BY <2>1, <1>8, SolutionFreeKeeps DEF Outcome
<1>9. ASSUME NEW s \in Strategies, SetAllocationStrategy(s) PROVE IInv' /\ Outcome
  <2>1. Kept
    BY <1>0, <1>9 DEF SetAllocationStrategy, Kept
  <2> QED BY <2>1, <1>9, SetKeeps DEF Outcome
<1>10. ASSUME Stopped PROVE IInv' /\ Outcome
  <2>1. Kept
    BY <1>0, <1>10 DEF Stopped, vars, Kept
  <2>2. TypeOK' /\ StopsOnlyIf' /\ status' # "running"
    BY <1>10 DEF IInv, Stopped, vars, TypeOK, StopsOnlyIf
  <2> QED BY <2>1, <2>2 DEF Outcome, IInv
<1> QED BY <1>1, <1>2, <1>3, <1>4, <1>5, <1>6, <1>7, <1>8, <1>9, <1>10 DEF Next

LEMMA UnchangedKeeps ==
  ASSUME IInv, UNCHANGED vars
  PROVE  IInv'
<1>1. TypeOK' /\ StopsOnlyIf'
  BY DEF IInv, vars, TypeOK, StopsOnlyIf
<1>2. status = "running" => /\ Whole(heap', live', edition', heapSize')
                            /\ Extent' /\ Waiting' /\ CursorAt'
  BY DEF IInv, vars, Extent, Waiting, CursorAt, Blocks
<1> QED BY <1>1, <1>2 DEF IInv, vars

LEMMA Inductive == Spec => []IInv
<1>1. Init => IInv
  BY InitIs
<1>2. IInv /\ [Next]_vars => IInv'
  BY StepIs, UnchangedKeeps
<1> QED BY <1>1, <1>2, PTL DEF Spec

-----------------------------------------------------------------------------
(* In every state that runs the list holds exactly the memory that is not  *)
(* in use, in the order of addresses and merged; the blocks have room for  *)
(* their headers; the cursor is on the list; and the programs stop for the *)
(* known reasons only.                                                     *)
LEMMA ListInvIs ==
  ASSUME IInv
  PROVE  ListInv
<1>1. CASE status # "running"
  BY <1>1 DEF IInv, ListInv, FreeListExact, NoFreeNeighbours, HeadersFit, CursorOnList
<1>2. CASE status = "running"
  <2> DEFINE F == Blocks \ DOMAIN live
             s == FreeList(heap)
  <2>1. /\ Described(heap, F, Marked(live, edition), Blocks, heapSize)
        /\ Apart(heap, F, {}) /\ Lists(heap, F, s) /\ CursorAt
    BY <1>2, Known
  <2> HIDE DEF s
  <2>2. ToSet(s) = F
    <3>1. /\ DOMAIN s = 1 .. Len(s)
          /\ \A i \in 1 .. Len(s) : s[i] \in F
          /\ \A c \in F : \E i \in 1 .. Len(s) : s[i] = c
      BY <2>1 DEF Lists
    <3> HIDE DEF F
    <3> QED BY <3>1 DEF ToSet
  <2>3. FreeListExact
    <3>1. \A b \in F : heap.next[b] # NULL => b < heap.next[b]
      <4>1. \A b \in F : Follows(F, b, LinkAt(heap, b)) /\ b # NULL
        BY <2>1, Parts, Addresses DEF Listed
      <4> QED BY <4>1 DEF Follows, LinkAt
    <3> QED BY <3>1, <2>2 DEF FreeListExact, ListsTheFree, s
  <2>4. NoFreeNeighbours
    BY <2>1, <1>2 DEF NoFreeNeighbours, Apart, Ends
  <2>5. HeadersFit
    <3> SUFFICES ASSUME NEW b \in Blocks
                 PROVE  /\ Aligned(b) /\ Aligned(heap.size[b])
                        /\ heap.size[b] >= HEADER_SIZE
      BY DEF HeadersFit
    <3>1. heap.size[b] \in Nat /\ heap.size[b] > 0
      BY <2>1, Parts
    <3>2. Aligned(b) /\ Aligned(heap.size[b])
      BY <2>1 DEF Described, Tiled
    <3>3. heap.size[b] # 0
      BY <3>1
    <3> QED BY <3>1, <3>2, <3>3, AlignedParts
  <2>6. CursorOnList
    BY <2>1, <2>2 DEF CursorOnList, CursorAt, s
  <2> QED BY <2>3, <2>4, <2>5, <2>6 DEF IInv, ListInv
<1> QED BY <1>1, <1>2

(* The list of my_malloc and my_free is the free blocks in order, merged   *)
(* and each with room for its header; next fit's cursor is on it; and the  *)
(* programs stop only for the reasons that StopsOnlyIf names.              *)
THEOREM ListIsRight == Spec => []ListInv
<1>1. IInv => ListInv
  BY ListInvIs
<1> QED BY <1>1, Inductive, PTL

-----------------------------------------------------------------------------
(* The block that a search settles on comes first by the strategy's order. *)
LEMMA ChosenPrecedes ==
  ASSUME IInv, status = "running", NEW F, F = Blocks \ DOMAIN live,
         NEW q, Asked(q), NEW i, Chosen(q, Visited, F, i),
         NEW c \in F, heap.size[c] >= q.size
  PROVE  Precedes(Visited[i], c)
<1> DEFINE b == Visited[i]
<1>1. /\ b \in F
      /\ \/ c = b
         \/ Turn(c) < Turn(b) /\ Better(strategy, heap.size[b], heap.size[c])
         \/ Turn(b) < Turn(c) /\ ~Better(strategy, heap.size[c], heap.size[b])
  BY DEF Chosen
<1> HIDE DEF b
<1>2. /\ b \in Nat /\ c \in Nat
      /\ heap.size[b] \in Nat /\ heap.size[c] \in Nat
      /\ b < heapSize /\ heapSize \in Nat \ {0}
  <2>1. Described(heap, F, Marked(live, edition), Blocks, heapSize)
    BY Known
  <2>2. F \subseteq Address /\ \A d \in F : heap.size[d] \in Nat
    BY <2>1, Parts
  <2>3. /\ F \subseteq Blocks /\ Blocks \subseteq 0 .. heapSize - 1
        /\ heapSize \in 0 .. MaxHeap
    BY <2>1 DEF Described, Tiled
  <2>4. heapSize \in Nat
    BY <2>3, Addresses
  <2>5. b \in 0 .. heapSize - 1 /\ c \in 0 .. heapSize - 1
    BY <2>3, <1>1
  <2> QED BY <2>2, <2>4, <2>5, <1>1
<1>3. strategy \in {"bestfit", "firstfit", "nextfit", "worstfit"}
  BY DEF IInv, TypeOK
<1>4. CASE strategy = "bestfit"
  <2>1. /\ Turn(b) = b /\ Turn(c) = c
        /\ \A x, y : Better(strategy, x, y) <=> x < y
    BY <1>4 DEF Turn, Better
  <2>2. heap.size[b] < heap.size[c] \/ (heap.size[b] = heap.size[c] /\ b <= c)
    BY <2>1, <1>1, <1>2
  <2> QED BY <2>2, <1>4 DEF Precedes, b
<1>5. CASE strategy = "worstfit"
  <2>1. /\ Turn(b) = b /\ Turn(c) = c
        /\ \A x, y : Better(strategy, x, y) <=> x > y
    BY <1>5 DEF Turn, Better
  <2>2. heap.size[b] > heap.size[c] \/ (heap.size[b] = heap.size[c] /\ b <= c)
    BY <2>1, <1>1, <1>2
  <2> QED BY <2>2, <1>5 DEF Precedes, b
<1>6. CASE strategy = "firstfit"
  <2>1. /\ Turn(b) = b /\ Turn(c) = c
        /\ \A x, y : ~Better(strategy, x, y)
    BY <1>6 DEF Turn, Better
  <2>2. b <= c
    BY <2>1, <1>1, <1>2
  <2> QED BY <2>2, <1>6 DEF Precedes, b
<1>7. CASE strategy = "nextfit"
  <2>1. /\ Turn(b) = (b - Beginning) % heapSize
        /\ Turn(c) = (c - Beginning) % heapSize
        /\ \A x, y : ~Better(strategy, x, y)
    BY <1>7 DEF Turn, Better
  <2>2. Beginning \in Int
    <3>1. heap.first \in Address \cup {NULL} /\ cursor \in Address \cup {NULL}
      BY DEF IInv, TypeOK
    <3> QED BY <3>1, Addresses DEF Beginning
  <2>3. (b - Beginning) % heapSize \in Int /\ (c - Beginning) % heapSize \in Int
    BY <2>2, <1>2
  <2>4. (b - Beginning) % heapSize <= (c - Beginning) % heapSize
    BY <2>1, <2>3, <1>1
  <2> QED BY <2>4, <1>7 DEF Precedes, Beginning, b
<1> QED BY <1>3, <1>4, <1>5, <1>6, <1>7

(* Whatever was allocated, freed or extended before, and whatever the      *)
(* strategy was then, a call takes the first of the blocks that the        *)
(* strategy of now prefers.                                                *)
LEMMA TakesItsBlockIs ==
  ASSUME IInv, Outcome
  PROVE  TakesItsBlock
<1> DEFINE F == Blocks \ DOMAIN live
<1>1. ASSUME NEW q \in Calls, NEW i, Taking(q, i), status = "running"
      PROVE  TakesItsBlock
  <2> DEFINE b == Visited[i]
  <2>1. /\ Asked(q) /\ Chosen(q, Visited, F, i) /\ Allocated(q, b)
    BY <1>1 DEF Taking
  <2>2. /\ b \in F /\ heap'.size[b] = q.size
        /\ q.size <= heap.size[b] /\ Holding(q, b)
    BY <2>1 DEF Allocated
  <2>3. DOMAIN live' \ DOMAIN live = {b}
    <3>1. TypeOK
      BY DEF IInv
    <3>2. DOMAIN live' = DOMAIN live \cup {b}
      BY <3>1, <2>1, <2>2, HoldingIs
    <3> QED BY <3>2, <2>2
  <2>4. heap.size[b] \in Nat /\ q.size \in Nat
    <3>1. Described(heap, F, Marked(live, edition), Blocks, heapSize)
      BY <1>1, Known
    <3> QED BY <3>1, <2>1, <2>2, Parts DEF Asked
  <2>5. heap.size[b] >= q.size
    BY <2>2, <2>4
  <2>6. \A c \in F : heap.size[c] >= q.size => Precedes(b, c)
    BY <1>1, <2>1, ChosenPrecedes
  <2> HIDE DEF b
  <2> QED BY <2>2, <2>3, <2>5, <2>6 DEF TakesItsBlock
<1>2. ASSUME NEW q \in Calls, Asked(q), Enlarged(q)
      PROVE  TakesItsBlock
  <2>1. TypeOK /\ Holding(q, heapSize) /\ heapSize \in Nat
    BY <1>2 DEF IInv, TypeOK, Enlarged
  <2>2. DOMAIN live' = DOMAIN live \cup {heapSize}
    BY <2>1, <1>2, HoldingIs
  <2>3. \A b \in DOMAIN live' \ DOMAIN live : ~(b < heapSize)
    BY <2>1, <2>2
  <2> QED BY <2>3 DEF TakesItsBlock
<1>3. ASSUME DOMAIN live' \subseteq DOMAIN live
      PROVE  TakesItsBlock
  BY <1>3 DEF TakesItsBlock
<1>4. ASSUME NEW a \in DOMAIN live, Released(a)
      PROVE  TakesItsBlock
  BY <1>3, <1>4 DEF Released
<1>5. Kept => TakesItsBlock
  BY <1>3 DEF Kept
<1> QED BY <1>1, <1>2, <1>4, <1>5 DEF Outcome

(* Each strategy takes the block that its name says, the first of equals,  *)
(* in every history of calls, extensions and changes of strategy.          *)
THEOREM StrategiesHold == Spec => StrategyHolds
<1>1. IInv /\ [Next]_vars => [TakesItsBlock]_vars
  BY StepIs, TakesItsBlockIs
<1> QED BY <1>1, Inductive, PTL DEF Spec, StrategyHolds

-----------------------------------------------------------------------------
(* A block that is taken apart from those in use is handed out as the      *)
(* abstract service promises.                                              *)
Separate(q, b) == /\ b \in Nat \ DOMAIN live
                  /\ Holding(q, b)
                  /\ heap'.size[b] = q.size
                  /\ \A c \in DOMAIN live : heap'.size[c] = heap.size[c]
                  /\ \A c \in DOMAIN live : \/ b + q.size <= c
                                            \/ c + heap.size[c] <= b
                  /\ b + q.size <= brk' /\ brk' >= brk

LEMMA SeparateServes ==
  ASSUME TypeOK, NEW q, Asked(q), NEW b, Separate(q, b)
  PROVE  Service!Allocate
<1>1. /\ DOMAIN live' = DOMAIN live \cup {b}
      /\ live'[b] = q.ask
      /\ \A c \in DOMAIN live \ {b} : live'[c] = live[c]
  BY HoldingIs DEF Separate
<1>2. /\ DOMAIN Held' = DOMAIN live \cup {b} /\ DOMAIN Held = DOMAIN live
      /\ Held'[b] = [size |-> q.size, ask |-> q.ask]
      /\ \A c \in DOMAIN live : /\ Held'[c] = Held[c]
                                /\ Held'[c].size = heap.size[c]
  <2>1. /\ DOMAIN Held' = DOMAIN live' /\ DOMAIN Held = DOMAIN live
        /\ \A c \in DOMAIN live' : Held'[c] = [size |-> heap'.size[c], ask |-> live'[c]]
        /\ \A c \in DOMAIN live : Held[c] = [size |-> heap.size[c], ask |-> live[c]]
    BY DEF Held
  <2>2. /\ b \notin DOMAIN live /\ heap'.size[b] = q.size
        /\ \A c \in DOMAIN live : heap'.size[c] = heap.size[c]
    BY DEF Separate
  <2>3. \A c \in DOMAIN live : Held'[c] = Held[c]
    BY <1>1, <2>1, <2>2
  <2>4. \A c \in DOMAIN live : Held[c].size = heap.size[c]
    BY <2>1
  <2> QED BY <1>1, <2>1, <2>2, <2>3, <2>4
<1>3. Held'[b].size = q.size /\ Held'[b].ask = q.ask
  BY <1>2
<1>4. b \in DOMAIN Held' \ DOMAIN Held /\ DOMAIN Held' = DOMAIN Held \cup {b}
  BY <1>2 DEF Separate
<1>5. \A c \in DOMAIN Held : Held'[c] = Held[c] /\ Service!Apart(b, c, Held')
  BY <1>2, <1>3 DEF Separate, Service!Apart
<1>6. 0 <= b /\ b + Held'[b].size <= brk' /\ brk' >= brk
  BY <1>3 DEF Separate
<1>7. Held'[b].size >= HEADER_SIZE + Held'[b].ask
  BY <1>3 DEF Asked
<1> QED BY <1>4, <1>5, <1>6, <1>7 DEF Service!Allocate

LEMMA OutcomeServes ==
  ASSUME IInv, Outcome
  PROVE  [Service!Next]_(Service!vars)
<1> DEFINE F == Blocks \ DOMAIN live
<1>0. TypeOK
  BY DEF IInv
<1>r. status = "running" =>
         /\ Blocks \subseteq Nat /\ DOMAIN live \subseteq Blocks /\ Extent
         /\ \A b \in Blocks : heap.size[b] \in Nat /\ b + heap.size[b] <= heapSize
         /\ \A b, c \in Blocks : b < c => b + heap.size[b] <= c
  <2> SUFFICES ASSUME status = "running"
               PROVE  /\ Blocks \subseteq Nat /\ DOMAIN live \subseteq Blocks /\ Extent
                      /\ \A b \in Blocks : /\ heap.size[b] \in Nat
                                           /\ b + heap.size[b] <= heapSize
                      /\ \A b, c \in Blocks : b < c => b + heap.size[b] <= c
    OBVIOUS
  <2>1. /\ Described(heap, F, Marked(live, edition), Blocks, heapSize)
        /\ DOMAIN live \subseteq Blocks /\ Extent
    BY Known
  <2>2. /\ Blocks \subseteq 0 .. heapSize - 1
        /\ \A b \in Blocks : b + heap.size[b] \in Blocks \cup {heapSize}
        /\ \A b, c \in Blocks : b < c => b + heap.size[b] <= c
    BY <2>1 DEF Described, Tiled
  <2>3. heapSize \in Nat /\ \A b \in Blocks : heap.size[b] \in Nat
    BY <2>1, <1>0, Parts DEF TypeOK
  <2>4. \A b \in Blocks : b \in Nat /\ b + heap.size[b] <= heapSize
    BY <2>2, <2>3
  <2> QED BY <2>1, <2>2, <2>3, <2>4
<1>1. ASSUME NEW q \in Calls, NEW i, Taking(q, i), status = "running"
      PROVE  Service!Allocate
  <2> DEFINE b == Visited[i]
  <2>1. Asked(q) /\ Allocated(q, b) /\ brk' = brk
    BY <1>1 DEF Taking
  <2> HIDE DEF b
  <2>2. /\ b \in Blocks /\ b \notin DOMAIN live /\ q.size <= heap.size[b]
        /\ Holding(q, b) /\ heap'.size[b] = q.size
        /\ \A c \in DOMAIN live : heap'.size[c] = heap.size[c]
        /\ q.size \in Nat
    BY <2>1 DEF Allocated, Asked
  <2>3. b \in Nat /\ heap.size[b] \in Nat /\ b + heap.size[b] <= heapSize
    BY <2>2, <1>1, <1>r
  <2>4. heapSize = brk /\ heapSize \in Nat
    <3>1. Extent /\ brk \in Nat /\ heapSize \in Nat
      BY <1>0, <1>1, <1>r DEF TypeOK
    <3> QED BY <3>1 DEF Extent
  <2>5. ASSUME NEW c \in DOMAIN live
        PROVE  b + q.size <= c \/ c + heap.size[c] <= b
    <3>1. c \in Blocks /\ c \in Nat /\ c # b
      BY <2>2, <1>1, <1>r
    <3>2. b < c => b + heap.size[b] <= c
      BY <3>1, <2>2, <1>1, <1>r
    <3>3. c < b => c + heap.size[c] <= b
      BY <3>1, <2>2, <1>1, <1>r
    <3> QED BY <3>1, <3>2, <3>3, <2>2, <2>3
  <2>6. b + q.size <= brk' /\ brk' >= brk
    BY <2>1, <2>2, <2>3, <2>4
  <2>7. Separate(q, b)
    BY <2>2, <2>3, <2>5, <2>6 DEF Separate
  <2> QED BY <2>1, <2>7, <1>0, SeparateServes
<1>2. ASSUME NEW q \in Calls, Asked(q), Enlarged(q), status = "running"
      PROVE  Service!Allocate
  <2>1. /\ Holding(q, heapSize) /\ heapSize \notin DOMAIN live
        /\ heap'.size[heapSize] = q.size
        /\ \A c \in DOMAIN live : heap'.size[c] = heap.size[c]
        /\ brk' = heapSize + HEAP_SIZE /\ brk = heapSize /\ q.size <= HEAP_SIZE
        /\ heapSize \in Nat /\ q.size \in Nat /\ HEAP_SIZE \in Nat
    BY <1>2, <1>0, Addresses DEF Enlarged, TypeOK, Asked
  <2>2. \A c \in DOMAIN live : c + heap.size[c] <= heapSize
    BY <1>2, <1>r
  <2>3. heapSize + q.size <= brk' /\ brk' >= brk
    BY <2>1
  <2>4. Separate(q, heapSize)
    BY <2>1, <2>2, <2>3 DEF Separate
  <2> QED BY <2>4, <1>0, <1>2, SeparateServes
<1>3. ASSUME NEW a \in DOMAIN live, Released(a)
      PROVE  Service!Release
  <2>1. /\ live' = [b \in DOMAIN live \ {a} |-> live[b]]
        /\ \A b \in DOMAIN live \ {a} : heap'.size[b] = heap.size[b]
        /\ UNCHANGED brk
    BY <1>3 DEF Released
  <2>2. /\ DOMAIN Held' = DOMAIN Held \ {a} /\ a \in DOMAIN Held
        /\ \A c \in DOMAIN Held' : Held'[c] = Held[c]
    BY <2>1 DEF Held
  <2>3. Held' = [c \in DOMAIN Held \ {a} |-> Held[c]]
    <3>1. Held' = [c \in DOMAIN Held' |-> Held'[c]]
      BY DEF Held
    <3> QED BY <3>1, <2>2
  <2> QED BY <2>1, <2>2, <2>3 DEF Service!Release
<1>4. ASSUME Kept
      PROVE  Service!Grow \/ UNCHANGED Service!vars
  <2>1. UNCHANGED Held
    BY <1>4 DEF Kept, Held
  <2>2. brk' > brk \/ brk' = brk
    BY <1>4 DEF Kept
  <2> QED BY <2>1, <2>2 DEF Service!Grow, Service!vars
<1> QED BY <1>1, <1>2, <1>3, <1>4 DEF Outcome, Service!Next

(* Both allocators keep the promise of MemoryService, for every size of    *)
(* heap and header and every set of requests: under every strategy and     *)
(* across extensions, what is handed out is apart from all that is in use, *)
(* large enough and in memory the program has, and stays as it is.         *)
THEOREM ListsServeMemory == Spec => ImplementsMemoryService
<1>1. Init => Service!Init
  <2> SUFFICES ASSUME Init PROVE Service!Init
    OBVIOUS
  <2>1. DOMAIN live = {}
    BY DEF Init
  <2> QED BY <2>1 DEF Service!Init, Held
<1>2. IInv /\ [Next]_vars => [Service!Next]_(Service!vars)
  <2>1. CASE UNCHANGED vars
    BY <2>1 DEF vars, Held, Service!vars
  <2> QED BY <2>1, StepIs, OutcomeServes
<1> QED BY <1>1, <1>2, Inductive, PTL DEF Spec, ImplementsMemoryService, Service!Spec

-----------------------------------------------------------------------------
(* The dump of the solution.                                               *)
LEMMA DumpIs ==
  ASSUME IInv
  PROVE  DumpTellsTruth
<1> SUFFICES ASSUME edition = "solution", status = "running"
             PROVE  /\ SolutionDump.inUse = DOMAIN live
                    /\ SolutionDump.listed = Blocks \ SolutionDump.inUse
  BY DEF DumpTellsTruth, Running
<1> DEFINE F == Blocks \ DOMAIN live
           s == FreeList(heap)
<1>1. /\ Described(heap, F, Marked(live, edition), Blocks, heapSize)
      /\ Lists(heap, F, s) /\ DOMAIN live \subseteq Blocks
  BY Known
<1>2. Marked(live, edition) = DOMAIN live
  BY DEF Marked
<1> HIDE DEF s
<1>3. ToSet(s) = F
  <2>1. /\ DOMAIN s = 1 .. Len(s)
        /\ \A i \in 1 .. Len(s) : s[i] \in F
        /\ \A c \in F : \E i \in 1 .. Len(s) : s[i] = c
    BY <1>1 DEF Lists
  <2> HIDE DEF F
  <2> QED BY <2>1 DEF ToSet
<1>4. ASSUME NEW b \in DOMAIN live
      PROVE  heap.next[b] = MAGIC
  <2>1. b \in Address \ F
    BY <1>1, Parts
  <2>2. heap.next[b] = Mark(DOMAIN live, b)
    BY <2>1, <1>1, <1>2 DEF Described, Listed
  <2> QED BY <2>2 DEF Mark
<1>5. ASSUME NEW b \in F
      PROVE  heap.next[b] # MAGIC
  <2>1. Follows(F, b, LinkAt(heap, b)) /\ b # NULL /\ F \subseteq Address
    BY <1>1, Parts, Addresses DEF Listed
  <2>2. heap.next[b] \in Address \cup {NULL}
    BY <2>1 DEF Follows, LinkAt
  <2> QED BY <2>2, Addresses
<1>6. {b \in Blocks : heap.next[b] = MAGIC} = DOMAIN live
  BY <1>1, <1>4, <1>5
<1>7. SolutionDump = [inUse |-> DOMAIN live, listed |-> F]
  BY <1>3, <1>6 DEF SolutionDump, s
<1> QED BY <1>7

-----------------------------------------------------------------------------
(* The loop of getAllocStatistics.                                         *)
Totalling == [nFree : Nat, totalFree : Nat, largestFree : Nat]
Nothing   == [nFree |-> 0, totalFree |-> 0, largestFree |-> 0]
Counting(n, s) ==
    [nFree       |-> s.nFree + 1,
     totalFree   |-> s.totalFree + n,
     largestFree |-> IF n > s.largestFree THEN n ELSE s.largestFree]
TotalsLoop(h, list, f) ==
    f = [i \in 0 .. Len(list) |-> IF i = 0 THEN Nothing
                                  ELSE Counting(h.size[list[i]], f[i - 1])]

LEMMA TotalsExist ==
  ASSUME NEW h, NEW list, Len(list) \in Nat,
         \A i \in 1 .. Len(list) : h.size[list[i]] \in Nat
  PROVE  \E f : TotalsLoop(h, list, f)
<1> DEFINE N == Len(list)
           z(i) == h.size[list[i]]
           step == [x \in (1 .. N) \X Totalling |-> Counting(z(x[1]), x[2])]
<1>1. N \in Nat /\ Nothing \in Totalling /\ \A i \in 1 .. N : z(i) \in Nat
  BY DEF Totalling, Nothing
<1>2. \A n \in Nat : \A s \in Totalling : Counting(n, s) \in Totalling
  BY DEF Totalling, Counting
<1> HIDE DEF N, z
<1>3. Looping(N, Totalling, Nothing, step)
  <2>1. \A x \in (1 .. N) \X Totalling : x[1] \in 1 .. N /\ x[2] \in Totalling
    OBVIOUS
  <2>2. \A x \in (1 .. N) \X Totalling : Counting(z(x[1]), x[2]) \in Totalling
    BY <2>1, <1>1, <1>2
  <2>3. step \in [(1 .. N) \X Totalling -> Totalling]
    BY <2>2
  <2> HIDE DEF step
  <2> QED BY <2>3, <1>1 DEF Looping
<1>4. PICK f \in [0 .. N -> Totalling] :
         f[0] = Nothing /\ \A i \in 1 .. N : f[i] = step[<<i, f[i - 1]>>]
  <2> HIDE DEF step
  <2> QED BY <1>3, LoopExists DEF Loops
<1> DEFINE Value(i) == IF i = 0 THEN Nothing ELSE Counting(z(i), f[i - 1])
<1>5. ASSUME NEW i \in 0 .. N PROVE f[i] = Value(i)
  <2>1. CASE i = 0
    BY <2>1, <1>4
  <2>2. CASE i # 0
    <3>1. i \in 1 .. N /\ i - 1 \in 0 .. N
      BY <2>2, <1>1
    <3>2. step[<<i, f[i - 1]>>] = Counting(z(i), f[i - 1])
      BY <3>1
    <3> HIDE DEF step
    <3> QED BY <2>2, <3>1, <3>2, <1>4
  <2> QED BY <2>1, <2>2
<1>6. f = [i \in 0 .. N |-> Value(i)]
  <2>1. f = [i \in 0 .. N |-> f[i]]
    OBVIOUS
  <2> HIDE DEF Value
  <2> QED BY <1>5, <2>1, Zenon
<1> QED BY <1>6, Zenon DEF N, z, TotalsLoop

LEMMA ChosenTotals ==
  ASSUME NEW h, NEW list, \E f : TotalsLoop(h, list, f)
  PROVE  \E f : TotalsLoop(h, list, f) /\ Totals(h, list) = f[Len(list)]
BY ZenonT(60) DEF Totals, TotalsLoop, Counting, Nothing

(* What the loop has counted after i blocks that lie apart: the blocks,    *)
(* the bytes in them, and the size of the largest.                         *)
Spaced(h, list, end) ==
    /\ Len(list) \in Nat /\ end \in Nat
    /\ \A i \in 1 .. Len(list) : /\ list[i] \in Nat /\ h.size[list[i]] \in Nat
                                 /\ h.size[list[i]] > 0
                                 /\ list[i] + h.size[list[i]] <= end
    /\ \A i, j \in 1 .. Len(list) : i < j => list[i] + h.size[list[i]] <= list[j]
Met(list, i)      == {c \in Nat : \E j \in 1 .. i : list[j] = c}
Bytes(h, list, i) == {x \in Nat : \E j \in 1 .. i : /\ list[j] <= x
                                                    /\ x < list[j] + h.size[list[j]]}
Counted(h, list, i, s) ==
    /\ s \in Totalling
    /\ IsFiniteSet(Met(list, i)) /\ s.nFree = Cardinality(Met(list, i))
    /\ IsFiniteSet(Bytes(h, list, i)) /\ s.totalFree = Cardinality(Bytes(h, list, i))
    /\ \A j \in 1 .. i : h.size[list[j]] <= s.largestFree
    /\ IF i = 0 THEN s.largestFree = 0
                ELSE \E j \in 1 .. i : h.size[list[j]] = s.largestFree

LEMMA CountedOn ==
  ASSUME NEW h, NEW list, NEW end, Spaced(h, list, end),
         NEW i \in 1 .. Len(list), NEW s, Counted(h, list, i - 1, s),
         NEW t, t = Counting(h.size[list[i]], s)
  PROVE  Counted(h, list, i, t)
<1> DEFINE a == list[i]
           n == h.size[list[i]]
           I == a .. a + n - 1
<1>0. /\ Len(list) \in Nat /\ i \in Nat /\ i - 1 \in Nat
      /\ a \in Nat /\ n \in Nat /\ n > 0
      /\ s \in Totalling
      /\ s.nFree \in Nat /\ s.totalFree \in Nat /\ s.largestFree \in Nat
      /\ \A j \in 1 .. i : j = i \/ j \in 1 .. i - 1
      /\ \A j \in 1 .. i - 1 : j \in 1 .. i /\ j \in 1 .. Len(list) /\ j < i
  BY DEF Spaced, Counted, Totalling
<1>1. /\ t.nFree = s.nFree + 1 /\ t.totalFree = s.totalFree + n
      /\ t.largestFree = IF n > s.largestFree THEN n ELSE s.largestFree
      /\ t = [nFree |-> t.nFree, totalFree |-> t.totalFree, largestFree |-> t.largestFree]
  BY DEF Counting
<1>2. ASSUME NEW j \in 1 .. i - 1
      PROVE  /\ list[j] \in Nat /\ h.size[list[j]] \in Nat /\ h.size[list[j]] > 0
             /\ list[j] + h.size[list[j]] <= a
  <2>1. j \in 1 .. Len(list) /\ j < i
    BY <1>0
  <2> QED BY <2>1 DEF Spaced
<1> HIDE DEF a, n
<1>3. Met(list, i) = Met(list, i - 1) \cup {a} /\ a \notin Met(list, i - 1)
  <2>1. \A c : (\E j \in 1 .. i : list[j] = c) <=> c = a \/ \E j \in 1 .. i - 1 : list[j] = c
    BY <1>0 DEF a
  <2>2. ASSUME NEW j \in 1 .. i - 1 PROVE list[j] # a
    BY <1>0, <1>2
  <2> QED BY <2>1, <2>2, <1>0 DEF Met
<1>4. Bytes(h, list, i) = Bytes(h, list, i - 1) \cup I
  <2>1. \A x : (\E j \in 1 .. i : list[j] <= x /\ x < list[j] + h.size[list[j]])
               <=> \/ \E j \in 1 .. i - 1 : list[j] <= x /\ x < list[j] + h.size[list[j]]
                   \/ a <= x /\ x < a + n
    BY <1>0 DEF a, n
  <2>2. \A x \in Nat : x \in I <=> a <= x /\ x < a + n
    BY <1>0
  <2>3. I \subseteq Nat
    BY <1>0
  <2> HIDE DEF I
  <2> QED BY <2>1, <2>2, <2>3 DEF Bytes
<1>5. Bytes(h, list, i - 1) \cap I = {}
  <2> SUFFICES ASSUME NEW x \in Nat, NEW j \in 1 .. i - 1,
                      x < list[j] + h.size[list[j]], x \in I
               PROVE  FALSE
    BY DEF Bytes
  <2>1. a <= x
    BY <1>0
  <2> QED BY <2>1, <1>0, <1>2
<1>6. IsFiniteSet(I) /\ Cardinality(I) = n
  <2>1. a \in Int /\ a + n - 1 \in Int /\ ~(a > a + n - 1) /\ (a + n - 1) - a + 1 = n
    BY <1>0
  <2> DEFINE z == a + n - 1
  <2>2. IsFiniteSet(a .. z) /\ Cardinality(a .. z) = z - a + 1
    <3> HIDE DEF z
    <3>1. a \in Int /\ z \in Int /\ ~(a > z)
      BY <2>1 DEF z
    <3> QED BY <3>1, FS_Interval
  <2> QED BY <2>1, <2>2
<1>7. /\ IsFiniteSet(Met(list, i - 1)) /\ s.nFree = Cardinality(Met(list, i - 1))
      /\ IsFiniteSet(Bytes(h, list, i - 1))
      /\ s.totalFree = Cardinality(Bytes(h, list, i - 1))
      /\ \A j \in 1 .. i - 1 : h.size[list[j]] <= s.largestFree
      /\ i - 1 = 0 => s.largestFree = 0
      /\ i - 1 # 0 => \E j \in 1 .. i - 1 : h.size[list[j]] = s.largestFree
  BY DEF Counted
<1>8. /\ IsFiniteSet(Met(list, i)) /\ t.nFree = Cardinality(Met(list, i))
  BY <1>1, <1>3, <1>7, FS_AddElement
<1>9. /\ IsFiniteSet(Bytes(h, list, i)) /\ t.totalFree = Cardinality(Bytes(h, list, i))
  <2> DEFINE P == Bytes(h, list, i - 1)
  <2> HIDE DEF P, I
  <2>1. /\ IsFiniteSet(P \cup I)
        /\ Cardinality(P \cup I) = Cardinality(P) + Cardinality(I) - Cardinality(P \cap I)
    BY <1>6, <1>7, FS_Union DEF P
  <2>2. Cardinality(P \cap I) = 0
    BY <1>5, FS_EmptySet DEF P
  <2>3. Cardinality(P) = s.totalFree
    BY <1>7 DEF P
  <2> QED BY <2>1, <2>2, <2>3, <1>0, <1>1, <1>4, <1>6 DEF P
<1>10. \A j \in 1 .. i : h.size[list[j]] <= t.largestFree
  <2> SUFFICES ASSUME NEW j \in 1 .. i PROVE h.size[list[j]] <= t.largestFree
    OBVIOUS
  <2>1. CASE j = i
    BY <2>1, <1>0, <1>1 DEF n
  <2>2. CASE j \in 1 .. i - 1
    <3>1. h.size[list[j]] \in Nat /\ h.size[list[j]] <= s.largestFree
      BY <2>2, <1>2, <1>7
    <3>2. /\ t.largestFree \in Nat /\ s.largestFree \in Nat
          /\ s.largestFree <= t.largestFree
      BY <1>0, <1>1
    <3> QED BY ONLY <3>1, <3>2
  <2> QED BY <2>1, <2>2, <1>0
<1>11. \E j \in 1 .. i : h.size[list[j]] = t.largestFree
  <2>1. CASE n > s.largestFree
    BY <2>1, <1>0, <1>1 DEF n
  <2>2. CASE ~(n > s.largestFree)
    <3>1. t.largestFree = s.largestFree /\ s.largestFree # 0
      BY <2>2, <1>0, <1>1
    <3>2. PICK j \in 1 .. i - 1 : h.size[list[j]] = s.largestFree
      BY <3>1, <1>7
    <3> QED BY <3>1, <3>2, <1>0
  <2> QED BY <2>1, <2>2
<1>12. t \in Totalling
  BY <1>0, <1>1 DEF Totalling
<1>13. i # 0
  BY <1>0
<1> QED BY <1>8, <1>9, <1>10, <1>11, <1>12, <1>13 DEF Counted

LEMMA TotalsAre ==
  ASSUME NEW h, NEW list, NEW end, Spaced(h, list, end)
  PROVE  Counted(h, list, Len(list), Totals(h, list))
<1> DEFINE N == Len(list)
<1>0. N \in Nat /\ \A i \in 1 .. N : h.size[list[i]] \in Nat
  BY DEF Spaced
<1>1. PICK f : TotalsLoop(h, list, f) /\ Totals(h, list) = f[N]
  <2>1. \E f : TotalsLoop(h, list, f)
    BY <1>0, TotalsExist
  <2> QED BY <2>1, ChosenTotals
<1>2. /\ f[0] = Nothing
      /\ \A i \in 1 .. N : f[i] = Counting(h.size[list[i]], f[i - 1])
  <2> DEFINE Value(i) == IF i = 0 THEN Nothing ELSE Counting(h.size[list[i]], f[i - 1])
  <2>1. f = [i \in 0 .. N |-> Value(i)]
    BY <1>1, Zenon DEF TotalsLoop
  <2>2. \A i \in 0 .. N : f[i] = Value(i)
    <3> HIDE DEF Value, N
    <3> QED BY <2>1
  <2>3. 0 \in 0 .. N /\ \A i \in 1 .. N : i \in 0 .. N /\ i # 0
    BY <1>0
  <2> HIDE DEF N
  <2> QED BY <2>2, <2>3
<1> DEFINE S == {i \in 0 .. N : Counted(h, list, i, f[i])}
<1>3. 0 \in S
  <2>1. Met(list, 0) = {} /\ Bytes(h, list, 0) = {}
    BY DEF Met, Bytes
  <2>2. /\ Nothing \in Totalling /\ Nothing.nFree = 0 /\ Nothing.totalFree = 0
        /\ Nothing.largestFree = 0
    BY DEF Nothing, Totalling
  <2>3. Counted(h, list, 0, Nothing)
    BY <2>1, <2>2, FS_EmptySet DEF Counted
  <2> QED BY <2>3, <1>0, <1>2
<1>4. ASSUME NEW i \in 1 .. N, i - 1 \in S
      PROVE  i \in S
  <2>1. Counted(h, list, i - 1, f[i - 1]) /\ f[i] = Counting(h.size[list[i]], f[i - 1])
    BY <1>2, <1>4
  <2>2. Counted(h, list, i, f[i])
    BY <2>1, CountedOn
  <2> QED BY <2>2, <1>0
<1>5. N \in S
  <2> HIDE DEF S, N
  <2>1. 0 .. N \subseteq S
    BY <1>0, <1>3, <1>4, Upward
  <2> QED BY <2>1, <1>0
<1> QED BY <1>1, <1>5

(* Every byte of the heap is in one block.                                 *)
LEMMA BytesInBlocks ==
  ASSUME NEW h, NEW B, NEW end \in Nat, 0 \in B, B \subseteq Nat,
         \A b \in B : /\ h.size[b] \in Nat /\ h.size[b] > 0
                      /\ b + h.size[b] \in B \cup {end}
  PROVE  \A x \in 0 .. end - 1 : \E b \in B : b <= x /\ x < b + h.size[b]
<1>0. \A b \in B : /\ b \in Nat /\ h.size[b] \in Nat /\ h.size[b] > 0
                   /\ b + h.size[b] \in B \cup {end}
  OBVIOUS
<1> DEFINE S == {x \in Nat : x < end => \E b \in B : b <= x /\ x < b + h.size[b]}
<1>1. 0 \in S
  OBVIOUS
<1>2. ASSUME NEW x \in 1 .. end, x - 1 \in S
      PROVE  x \in S
  <2> SUFFICES ASSUME x < end PROVE \E b \in B : b <= x /\ x < b + h.size[b]
    BY <1>2
  <2>1. PICK b \in B : b <= x - 1 /\ x - 1 < b + h.size[b]
    BY <1>2
  <2>2. /\ b \in Nat /\ h.size[b] \in Nat /\ x \in Nat
        /\ b + h.size[b] \in B \cup {end}
    BY <1>0
  <2>3. CASE x < b + h.size[b]
    <3>1. b <= x
      BY <2>1, <2>2
    <3> QED BY <3>1, <2>3
  <2>4. CASE ~(x < b + h.size[b])
    <3>1. x = b + h.size[b]
      BY <2>1, <2>2, <2>4
    <3>2. x \in B
      BY <3>1, <2>2
    <3>3. x <= x /\ x < x + h.size[x]
      BY <3>2, <1>0
    <3> QED BY <3>2, <3>3
  <2> QED BY <2>3, <2>4
<1>3. 0 .. end \subseteq S
  <2> HIDE DEF S
  <2> QED BY <1>1, <1>2, Upward
<1> QED BY <1>3

(* What getAllocStatistics counts is what the application does not hold.   *)
LEMMA StatisticsAre ==
  ASSUME IInv
  PROVE  StatisticsRight
<1> DEFINE F == Blocks \ DOMAIN live
           s == FreeList(heap)
           t == Totals(heap, s)
           held == {x \in 0 .. heapSize - 1 :
                      \A b \in DOMAIN live : x < b \/ b + heap.size[b] <= x}
<1> SUFFICES ASSUME status = "running"
             PROVE  StatisticsRight
  BY DEF StatisticsRight
<1>0. /\ Lists(heap, F, s) /\ DOMAIN live \subseteq Blocks
      /\ 0 \in Blocks /\ Blocks \subseteq Nat /\ heapSize \in Nat
      /\ \A b \in Blocks : /\ heap.size[b] \in Nat /\ heap.size[b] > 0
                           /\ b < heapSize
                           /\ b + heap.size[b] \in Blocks \cup {heapSize}
      /\ \A b, c \in Blocks : b < c => b + heap.size[b] <= c
  <2>1. /\ Described(heap, F, Marked(live, edition), Blocks, heapSize)
        /\ Lists(heap, F, s) /\ DOMAIN live \subseteq Blocks
    BY Known
  <2> QED BY <2>1, Parts DEF Tiled
<1>1. /\ Len(s) \in Nat
      /\ \A i \in 1 .. Len(s) : s[i] \in F
      /\ \A i, j \in 1 .. Len(s) : i < j => s[i] < s[j]
      /\ \A c \in F : \E i \in 1 .. Len(s) : s[i] = c
  BY <1>0 DEF Lists
<1> HIDE DEF s, t
<1>2. Spaced(heap, s, heapSize)
  <2>1. \A b \in Blocks : b + heap.size[b] <= heapSize
    BY <1>0
  <2>2. \A i \in 1 .. Len(s) : s[i] \in Blocks
    BY <1>1
  <2> QED BY <2>1, <2>2, <1>0, <1>1 DEF Spaced
<1>3. Counted(heap, s, Len(s), t)
  BY <1>2, TotalsAre DEF t
<1>4. Met(s, Len(s)) = F
  <2>1. F \subseteq Nat
    BY <1>0
  <2> HIDE DEF F
  <2> QED BY <2>1, <1>1 DEF Met
<1>5. Bytes(heap, s, Len(s)) = held
  <2>1. ASSUME NEW x \in Nat
        PROVE  x \in Bytes(heap, s, Len(s)) <=>
                  \E b \in F : b <= x /\ x < b + heap.size[b]
    BY <1>1 DEF Bytes
  <2>2. ASSUME NEW x \in Nat, NEW b \in F, b <= x, x < b + heap.size[b]
        PROVE  x \in held
    <3>1. b \in Blocks /\ b \in Nat /\ heap.size[b] \in Nat
      BY <1>0
    <3>e. b + heap.size[b] <= heapSize
      <4>1. b + heap.size[b] \in Blocks \cup {heapSize}
        BY <3>1, <1>0
      <4> QED BY <4>1, <1>0
    <3>2. x \in 0 .. heapSize - 1
      BY <3>1, <3>e, <2>2, <1>0
    <3>3. ASSUME NEW c \in DOMAIN live
          PROVE  x < c \/ c + heap.size[c] <= x
      <4>1. c \in Blocks /\ c # b /\ c \in Nat /\ heap.size[c] \in Nat
        BY <1>0
      <4>2. b < c => b + heap.size[b] <= c
        BY <4>1, <3>1, <1>0
      <4>3. c < b => c + heap.size[c] <= b
        BY <4>1, <3>1, <1>0
      <4> QED BY <4>1, <4>2, <4>3, <3>1, <2>2
    <3> QED BY <3>2, <3>3
  <2>3. ASSUME NEW x \in held
        PROVE  \E b \in F : b <= x /\ x < b + heap.size[b]
    <3>1. x \in 0 .. heapSize - 1 /\ x \in Nat
      BY <1>0
    <3>2. PICK b \in Blocks : b <= x /\ x < b + heap.size[b]
      BY <3>1, <1>0, BytesInBlocks
    <3>3. b \notin DOMAIN live
      <4>1. b \in Nat /\ heap.size[b] \in Nat
        BY <1>0
      <4>2. ~(x < b) /\ ~(b + heap.size[b] <= x)
        BY <4>1, <3>1, <3>2
      <4> QED BY <4>2
    <3> QED BY <3>2, <3>3
  <2>4. held \subseteq Nat /\ Bytes(heap, s, Len(s)) \subseteq Nat
    BY <1>0 DEF Bytes
  <2> HIDE DEF held, F
  <2> QED BY <2>1, <2>2, <2>3, <2>4
<1>6. /\ t.nFree \in Nat /\ t.nFree = Cardinality(F) /\ IsFiniteSet(F)
      /\ t.totalFree = Cardinality(held) /\ IsFiniteSet(held)
      /\ \A j \in 1 .. Len(s) : heap.size[s[j]] <= t.largestFree
      /\ Len(s) = 0 => t.largestFree = 0
      /\ Len(s) # 0 => \E j \in 1 .. Len(s) : heap.size[s[j]] = t.largestFree
  <2> HIDE DEF held, F
  <2> QED BY <1>3, <1>4, <1>5 DEF Counted, Totalling
<1>7. /\ Statistics.nFree = t.nFree
      /\ Statistics.avgFree = IF t.nFree > 0 THEN t.totalFree \div t.nFree ELSE 0
      /\ Statistics.largestFree = t.largestFree
  BY DEF Statistics, t, s
<1>8. \A b \in F : heap.size[b] <= Statistics.largestFree
  BY <1>1, <1>6, <1>7
<1>9. CASE F = {}
  <2>1. Len(s) = 0
    <3>1. ~(1 \in 1 .. Len(s))
      BY <1>1, <1>9
    <3> QED BY <3>1, <1>1
  <2>2. held = {}
    <3>1. Bytes(heap, s, 0) = {}
      BY DEF Bytes
    <3> QED BY <3>1, <2>1, <1>5
  <2> HIDE DEF held
  <2> QED BY <2>1, <2>2, <1>6, <1>7, <1>8, <1>9 DEF StatisticsRight, held
<1>10. CASE F # {}
  <2>1. t.nFree > 0
    <3>1. t.nFree # 0
      BY <1>6, <1>10, FS_EmptySet
    <3> QED BY <3>1, <1>6
  <2>2. Statistics.avgFree = Cardinality(held) \div Cardinality(F)
    <3> HIDE DEF held, F
    <3> QED BY <2>1, <1>6, <1>7
  <2>3. \E b \in F : heap.size[b] = Statistics.largestFree
    <3>1. Len(s) # 0
      BY <1>1, <1>10
    <3> QED BY <3>1, <1>1, <1>6, <1>7
  <2> HIDE DEF held
  <2> QED BY <2>2, <2>3, <1>6, <1>7, <1>8, <1>10 DEF StatisticsRight, held
<1> QED BY <1>9, <1>10

(* The dump of the solution shows as in use what the application holds and *)
(* lists the rest, and getAllocStatistics counts that rest: its pieces,    *)
(* its bytes and its largest piece.                                        *)
THEOREM ReportsAreRight == Spec => []ReportsRight
<1>1. IInv => ReportsRight
  BY DumpIs, StatisticsAre DEF ReportsRight
<1> QED BY <1>1, Inductive, PTL
=============================================================================

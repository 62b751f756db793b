----------------------------- MODULE MmanProofs -----------------------------
(***************************************************************************)
(* Proofs about Mman, for memory, files and tables of any size, any        *)
(* lengths of mappings and any sequence of calls. The invariant of the     *)
(* table is about the set Live(regs) of the regions that are not free:     *)
(* each shows the application, at every address it holds, the owner the    *)
(* application knows; no other address is owned; and a descriptor is       *)
(* counted once for each of them that uses it. Munmap replaces each live   *)
(* region by its Pieces, mmap adds one, and the lemmas before show that    *)
(* the code's loops over the table (the binary search, the cutting, the    *)
(* joining of free regions, the doubling of the capacity) do just that and *)
(* keep the table sorted, disjoint, merged and within its room. For the    *)
(* contents: memory that was never mapped is zero, every free region is    *)
(* zeroed when it is taken, and what a file holds after the regions of a   *)
(* range were written back (WrittenInto) comes from the addresses the      *)
(* application mapped to it.                                               *)
(***************************************************************************)
EXTENDS Mman, FiniteSetTheorems, SequenceTheorems, WellFoundedInduction, TLAPS

\* The smallest of some natural numbers is one of them.
LEMMA MinOfNaturals ==
  ASSUME NEW S, S \subseteq Nat, S # {}
  PROVE  Min(S) \in S /\ \A y \in S : Min(S) <= y
<1>1. PICK x \in S : \A y \in S : ~ (<<y, x>> \in OpToRel(<, Nat))
  BY NatLessThanWellFounded, WFMin, Zenon
<1>2. \A y \in S : ~(y < x)
  BY <1>1 DEF OpToRel
<1>3. \A y \in S : x <= y
  BY <1>2
<1> QED BY <1>3, Zenon DEF Min

\* g is a function from D to S that satisfies the recursion up to rank k.
Solves(g, D, rank, G, k) == \A d \in D : rank[d] < k => g[d] = G[<<d, g>>]

\* What G says of d depends only on what is of smaller rank.
Ranked(D, S, rank, G) ==
  \A d \in D : \A g, h \in [D -> S] :
    (\A e \in D : rank[e] < rank[d] => g[e] = h[e]) => G[<<d, g>>] = G[<<d, h>>]

\* A solution up to a rank extends to the next rank.
LEMMA OneRankMore ==
  ASSUME NEW D, NEW S, NEW rank \in [D -> Nat], NEW G \in [D \X [D -> S] -> S],
         Ranked(D, S, rank, G), NEW k \in Nat, NEW g \in [D -> S], Solves(g, D, rank, G, k)
  PROVE  \E h \in [D -> S] : Solves(h, D, rank, G, k + 1)
<1> DEFINE h == [d \in D |-> IF rank[d] = k THEN G[<<d, g>>] ELSE g[d]]
<1>1. h \in [D -> S]
  <2>1. \A d \in D : G[<<d, g>>] \in S /\ g[d] \in S
    OBVIOUS
  <2> QED BY <2>1
<1>2. ASSUME NEW d \in D, rank[d] < k + 1 PROVE h[d] = G[<<d, h>>]
  <2>1. rank[d] \in Nat /\ (rank[d] < k \/ rank[d] = k)
    <3>1. PICK r \in Nat : r = rank[d]
      OBVIOUS
    <3>2. r < k + 1
      BY <1>2, <3>1
    <3>3. r < k \/ r = k
      BY <3>2, SMTT(30)
    <3> QED BY <3>1, <3>3
  <2>2. \A e \in D : rank[e] < rank[d] => g[e] = h[e]
    <3> SUFFICES ASSUME NEW e \in D, rank[e] < rank[d] PROVE g[e] = h[e]
      OBVIOUS
    <3>1. rank[e] \in Nat
      OBVIOUS
    <3>2. rank[e] # k
      BY <2>1, <3>1
    <3> QED BY <3>2
  <2>3. G[<<d, g>>] = G[<<d, h>>]
    <3> HIDE DEF h
    <3> QED BY <1>1, <2>2 DEF Ranked
  <2>4. h[d] = G[<<d, g>>]
    <3>1. CASE rank[d] = k
      BY <3>1
    <3>2. CASE rank[d] < k
      <4>1. rank[d] # k
        BY <2>1, <3>2
      <4>2. g[d] = G[<<d, g>>]
        BY <3>2 DEF Solves
      <4> QED BY <4>1, <4>2
    <3> QED BY <2>1, <3>1, <3>2
  <2> QED BY <2>3, <2>4
<1> HIDE DEF h
<1>3. Solves(h, D, rank, G, k + 1)
  BY <1>2 DEF Solves
<1> QED BY <1>1, <1>3

Recursive(D, S, n, rank, G) ==
  /\ S # {} /\ n \in Nat /\ rank \in [D -> 0 .. n]
  /\ G \in [D \X [D -> S] -> S] /\ Ranked(D, S, rank, G)

Solvable(D, S, G) == \E f \in [D -> S] : \A d \in D : f[d] = G[<<d, f>>]

\* Definition by recursion on a bounded rank
LEMMA RankRecursion == \A D, S, n, rank, G : Recursive(D, S, n, rank, G) => Solvable(D, S, G)
<1> SUFFICES ASSUME NEW D, NEW S, NEW n, NEW rank, NEW G, Recursive(D, S, n, rank, G)
             PROVE  Solvable(D, S, G)
  OBVIOUS
<1>0. /\ S # {} /\ n \in Nat /\ rank \in [D -> 0 .. n]
      /\ G \in [D \X [D -> S] -> S] /\ Ranked(D, S, rank, G)
  BY DEF Recursive
<1>1. rank \in [D -> Nat]
  BY <1>0
<1> DEFINE Bad == {k \in Nat : ~ \E f \in [D -> S] : Solves(f, D, rank, G, k)}
<1>2. Bad = {}
  <2> SUFFICES ASSUME Bad # {} PROVE FALSE
    OBVIOUS
  <2>1. PICK m \in Nat : m = Min(Bad)
    BY MinOfNaturals
  <2>2. m \in Bad /\ \A y \in Bad : m <= y
    BY <2>1, MinOfNaturals
  <2>3. m # 0
    <3>1. PICK s \in S : TRUE
      BY <1>0
    <3>2. [d \in D |-> s] \in [D -> S]
      OBVIOUS
    <3>3. Solves([d \in D |-> s], D, rank, G, 0)
      <4>1. \A d \in D : ~(rank[d] < 0)
        BY <1>0, <1>1
      <4> QED BY <4>1 DEF Solves
    <3> QED BY <2>2, <3>2, <3>3
  <2>4. m - 1 \in Nat /\ ~(m <= m - 1) /\ m - 1 + 1 = m
    BY <2>3
  <2>5. PICK k \in Nat : k = m - 1
    BY <2>4
  <2>6. k \notin Bad
    BY <2>2, <2>4, <2>5
  <2>7. PICK g \in [D -> S] : Solves(g, D, rank, G, k)
    BY <2>6
  <2>8. \E h \in [D -> S] : Solves(h, D, rank, G, k + 1)
    BY <1>0, <1>1, <2>7, OneRankMore
  <2> QED BY <2>2, <2>4, <2>5, <2>8
<1>3. n + 1 \in Nat
  BY <1>0
<1>4. PICK f \in [D -> S] : Solves(f, D, rank, G, n + 1)
  BY <1>2, <1>3
<1>5. \A d \in D : rank[d] < n + 1
  <2>1. \A d \in D : rank[d] \in 0 .. n
    BY <1>0
  <2> QED BY <1>0, <2>1
<1> QED BY <1>4, <1>5 DEF Solves, Solvable

\* Induction upwards and downwards
LEMMA Upwards ==
  ASSUME NEW T, NEW n \in Nat, 0 \in T, \A i \in 1 .. n : i - 1 \in T => i \in T
  PROVE  \A i \in 0 .. n : i \in T
<1> DEFINE Bad == {i \in 0 .. n : i \notin T}
<1>1. Bad = {}
  <2> SUFFICES ASSUME Bad # {} PROVE FALSE
    OBVIOUS
  <2>1. Bad \subseteq Nat
    OBVIOUS
  <2>2. Min(Bad) \in Bad /\ \A y \in Bad : Min(Bad) <= y
    BY <2>1, MinOfNaturals
  <2>3. PICK m : m = Min(Bad)
    OBVIOUS
  <2>4. m \in 1 .. n /\ m \notin T /\ \A y \in Bad : m <= y
    BY <2>2, <2>3
  <2>5. m - 1 \in 0 .. n /\ ~(m <= m - 1)
    BY <2>4
  <2>6. m - 1 \in T
    BY <2>4, <2>5
  <2> QED BY <2>4, <2>6
<1> QED BY <1>1

\* The same for what goes down to n.
LEMMA Downwards ==
  ASSUME NEW T, NEW n \in Nat, n \in T, \A i \in 0 .. n - 1 : i + 1 \in T => i \in T
  PROVE  \A i \in 0 .. n : i \in T
<1> DEFINE U == {i \in 0 .. n : n - i \in T}
<1>1. 0 \in U
  OBVIOUS
<1>2. \A i \in 1 .. n : i - 1 \in U => i \in U
  <2> SUFFICES ASSUME NEW i \in 1 .. n, i - 1 \in U PROVE n - i \in T
    OBVIOUS
  <2>1. n - i \in 0 .. n - 1 /\ n - i + 1 = n - (i - 1)
    OBVIOUS
  <2>2. n - (i - 1) \in T
    OBVIOUS
  <2> QED BY <2>1, <2>2
<1> HIDE DEF U
<1>3. \A i \in 0 .. n : i \in U
  BY <1>1, <1>2, Upwards
<1>4. ASSUME NEW i \in 0 .. n PROVE i \in T
  <2>1. n - i \in 0 .. n /\ n - (n - i) = i
    OBVIOUS
  <2>2. n - (n - i) \in T
    BY <1>3, <2>1 DEF U
  <2> QED BY <2>1, <2>2
<1> QED BY <1>4

-----------------------------------------------------------------------------
(* Regions and tables of them.                                              *)

Region == {r \in [base : Nat, len : Nat \ {0}, kind : {"free", "anon", "file"}, dirty : BOOLEAN,
                  fref : Nat, off : Nat, dlen : Nat] :
             /\ r.kind # "file" => r.fref = NULL
             /\ r.kind = "free" => r.dirty}
Table == Seq(Region)

\* The regions are in order and disjoint, and free ones do not touch.
Ordered(T) == \A i, j \in 1 .. Len(T) : i < j => End(T[i]) <= T[j].base
Apart(T) == \A i \in 1 .. Len(T) - 1 : ~ Mergeable(T[i], T[i + 1])

\* The fields of a region
LEMMA RegionIs ==
  ASSUME NEW r \in Region
  PROVE  /\ r.base \in Nat /\ r.len \in Nat /\ r.len >= 1 /\ r.off \in Nat /\ r.dlen \in Nat /\ r.fref \in Nat
         /\ End(r) \in Nat /\ End(r) = r.base + r.len /\ r.base < End(r)
         /\ r.kind \in {"free", "anon", "file"} /\ r.dirty \in BOOLEAN
         /\ (r.kind # "file" => r.fref = NULL) /\ (r.kind = "free" => r.dirty)
<1>1. /\ r.base \in Nat /\ r.len \in Nat /\ r.len # 0 /\ r.off \in Nat /\ r.dlen \in Nat /\ r.fref \in Nat
      /\ r.kind \in {"free", "anon", "file"} /\ r.dirty \in BOOLEAN
      /\ (r.kind # "file" => r.fref = NULL) /\ (r.kind = "free" => r.dirty)
  BY DEF Region
<1>2. \A b, l \in Nat : l # 0 => l >= 1 /\ b + l \in Nat /\ b < b + l
  OBVIOUS
<1> QED BY <1>1, <1>2 DEF End

\* The regions of a table
LEMMA TableIs ==
  ASSUME NEW T \in Table
  PROVE  /\ Len(T) \in Nat /\ DOMAIN T = 1 .. Len(T)
         /\ \A i \in 1 .. Len(T) :
              T[i] \in Region /\ T[i].base \in Nat /\ End(T[i]) \in Nat /\ T[i].base < End(T[i])
<1>1. Len(T) \in Nat /\ DOMAIN T = 1 .. Len(T)
  BY LenProperties DEF Table
<1>2. ASSUME NEW i \in 1 .. Len(T) PROVE T[i] \in Region
  BY ElementOfSeq DEF Table
<1> QED BY <1>1, <1>2, RegionIs

\* The window that search goes on with, in FirstOverlap
Half(w) == w.lo + (w.hi - w.lo) \div 2
Narrow(R, addr, w) ==
  IF End(R[Half(w)]) <= addr THEN [w EXCEPT !.lo = Half(w) + 1] ELSE [w EXCEPT !.hi = Half(w)]
Windows(n) == [lo : 1 .. n + 1, hi : 1 .. n + 1]
IsSearch(s, R, addr) ==
  s = [w \in Windows(Len(R)) |-> IF w.lo >= w.hi THEN w.lo ELSE s[Narrow(R, addr, w)]]

\* FirstOverlap looks the search up that its definition describes.
LEMMA FirstOverlapDef ==
  \A R, addr : FirstOverlap(R, addr) = (CHOOSE s : IsSearch(s, R, addr))[[lo |-> 1, hi |-> Len(R) + 1]]
BY DEF FirstOverlap, IsSearch, Narrow, Half, Windows

\* The search goes on with a smaller window.
LEMMA NarrowIs ==
  ASSUME NEW R, NEW n \in Nat, NEW addr, NEW w \in Windows(n), w.lo < w.hi
  PROVE  \E h \in 1 .. n :
           /\ w.lo <= h /\ h < w.hi
           /\ \/ End(R[h]) <= addr /\ Narrow(R, addr, w) = [lo |-> h + 1, hi |-> w.hi]
              \/ ~(End(R[h]) <= addr) /\ Narrow(R, addr, w) = [lo |-> w.lo, hi |-> h]
           /\ Narrow(R, addr, w) \in Windows(n)
<1>1. PICK lo \in 1 .. n + 1, hi \in 1 .. n + 1 : lo = w.lo /\ hi = w.hi /\ w = [lo |-> lo, hi |-> hi]
  BY DEF Windows
<1>2. PICK d \in Nat : d = hi - lo /\ d >= 1
  BY <1>1
<1>3. d \div 2 \in Nat /\ d \div 2 < d
  BY <1>2
<1>4. PICK h : h = lo + d \div 2
  OBVIOUS
<1>5. h \in 1 .. n /\ lo <= h /\ h < hi /\ h + 1 \in 1 .. n + 1 /\ h \in 1 .. n + 1
  BY <1>2, <1>3, <1>4
<1>6. Half(w) = h
  BY <1>1, <1>2, <1>4 DEF Half
<1>7. Narrow(R, addr, w) = IF End(R[h]) <= addr THEN [lo |-> h + 1, hi |-> hi] ELSE [lo |-> lo, hi |-> h]
  BY <1>1, <1>6 DEF Narrow
<1> QED BY <1>1, <1>5, <1>7 DEF Windows

\* The search is defined for every window.
LEMMA SearchExists ==
  ASSUME NEW R, Len(R) \in Nat, NEW addr
  PROVE  \E s : IsSearch(s, R, addr)
<1>0. PICK n \in Nat : n = Len(R)
  OBVIOUS
<1> DEFINE P == 1 .. n + 1
           D == Windows(n)
           rank == [w \in D |-> IF w.lo < w.hi THEN w.hi - w.lo ELSE 0]
           GG(w, g) == IF w.lo >= w.hi THEN w.lo ELSE g[Narrow(R, addr, w)]
           G == [x \in D \X [D -> P] |-> GG(x[1], x[2])]
<1>d. \A w \in D : w.lo \in P /\ w.hi \in P
  BY DEF Windows
<1>1. rank \in [D -> 0 .. n]
  <2>1. ASSUME NEW w \in D PROVE (IF w.lo < w.hi THEN w.hi - w.lo ELSE 0) \in 0 .. n
    <3>1. PICK lo \in P, hi \in P : lo = w.lo /\ hi = w.hi
      BY <1>d
    <3>2. (IF lo < hi THEN hi - lo ELSE 0) \in 0 .. n
      OBVIOUS
    <3> QED BY <3>1, <3>2
  <2> HIDE DEF D
  <2> QED BY <2>1
<1>2. ASSUME NEW w \in D, ~(w.lo >= w.hi)
      PROVE  Narrow(R, addr, w) \in D /\ rank[Narrow(R, addr, w)] < rank[w]
  <2>1. PICK lo \in P, hi \in P : lo = w.lo /\ hi = w.hi /\ lo < hi
    BY <1>2, <1>d
  <2>2. PICK h \in 1 .. n : /\ lo <= h /\ h < hi
                            /\ \/ Narrow(R, addr, w) = [lo |-> h + 1, hi |-> hi]
                               \/ Narrow(R, addr, w) = [lo |-> lo, hi |-> h]
                            /\ Narrow(R, addr, w) \in D
    BY <2>1, NarrowIs
  <2>3. rank[w] = hi - lo
    BY <2>1
  <2>4. PICK v \in D : v = Narrow(R, addr, w)
    BY <2>2
  <2>5. rank[v] = IF v.lo < v.hi THEN v.hi - v.lo ELSE 0
    OBVIOUS
  <2>6. CASE v = [lo |-> h + 1, hi |-> hi]
    <3>1. rank[v] = IF h + 1 < hi THEN hi - (h + 1) ELSE 0
      BY <2>5, <2>6
    <3>2. (IF h + 1 < hi THEN hi - (h + 1) ELSE 0) < hi - lo
      BY <2>1, <2>2
    <3> QED BY <2>2, <2>3, <2>4, <3>1, <3>2
  <2>7. CASE v = [lo |-> lo, hi |-> h]
    <3>1. rank[v] = IF lo < h THEN h - lo ELSE 0
      BY <2>5, <2>7
    <3>2. (IF lo < h THEN h - lo ELSE 0) < hi - lo
      BY <2>1, <2>2
    <3> QED BY <2>2, <2>3, <2>4, <3>1, <3>2
  <2> QED BY <2>2, <2>4, <2>6, <2>7
<1>3. ASSUME NEW w \in D, NEW g \in [D -> P] PROVE GG(w, g) \in P
  <2> HIDE DEF P, D
  <2> QED BY <1>2, <1>3, <1>d
<1>4. G \in [D \X [D -> P] -> P]
  <2> HIDE DEF P, D, GG
  <2> QED BY <1>3
<1>5. \A d \in D, g \in [D -> P] : G[<<d, g>>] = GG(d, g)
  <2> HIDE DEF P, D, GG
  <2> QED OBVIOUS
<1>6. ASSUME NEW d \in D, NEW g \in [D -> P], NEW h \in [D -> P],
             \A e \in D : rank[e] < rank[d] => g[e] = h[e]
      PROVE  G[<<d, g>>] = G[<<d, h>>]
  <2> HIDE DEF P, D, rank, G
  <2>1. GG(d, g) = GG(d, h)
    BY <1>2, <1>6
  <2> HIDE DEF GG
  <2> QED BY <1>5, <2>1
<1>7. P # {}
  OBVIOUS
<1> HIDE DEF D, rank, G, P
<1>8. Ranked(D, P, rank, G)
  BY <1>6 DEF Ranked
<1>9. Recursive(D, P, n, rank, G)
  BY <1>0, <1>1, <1>4, <1>7, <1>8 DEF Recursive
<1>10. PICK f \in [D -> P] : \A d \in D : f[d] = G[<<d, f>>]
  BY <1>9, RankRecursion DEF Solvable
<1>11. \A d \in D : f[d] = GG(d, f)
  BY <1>5, <1>10
<1>12. f = [w \in D |-> GG(w, f)]
  BY <1>11
<1> QED BY <1>0, <1>12 DEF IsSearch, D

\* The regions before i end at addr or before, the others behind it.
Parts(R, addr, i) ==
  /\ i \in 1 .. Len(R) + 1
  /\ \A j \in 1 .. Len(R) : (j < i => End(R[j]) <= addr) /\ (j >= i => End(R[j]) > addr)

\* What the regions outside the window are
Outside2(R, addr, w) ==
  \A j \in 1 .. Len(R) : (j < w.lo => End(R[j]) <= addr) /\ (j >= w.hi => End(R[j]) > addr)

\* What is outside of the window stays on its side of the address.
LEMMA NarrowKeeps ==
  ASSUME NEW R \in Table, Ordered(R), NEW addr \in Nat, NEW w \in Windows(Len(R)),
         w.lo < w.hi, Outside2(R, addr, w)
  PROVE  LET v == Narrow(R, addr, w) IN
         /\ v \in Windows(Len(R)) /\ Outside2(R, addr, v)
         /\ v.lo <= v.hi /\ v.hi - v.lo < w.hi - w.lo
<1>0. PICK n \in Nat : n = Len(R)
  BY TableIs
<1>1. PICK lo \in 1 .. n + 1, hi \in 1 .. n + 1 : lo = w.lo /\ hi = w.hi /\ lo < hi
  BY <1>0 DEF Windows
<1>2. PICK h \in 1 .. n : /\ lo <= h /\ h < hi
                          /\ \/ End(R[h]) <= addr /\ Narrow(R, addr, w) = [lo |-> h + 1, hi |-> hi]
                             \/ ~(End(R[h]) <= addr) /\ Narrow(R, addr, w) = [lo |-> lo, hi |-> h]
                          /\ Narrow(R, addr, w) \in Windows(n)
  BY <1>0, <1>1, NarrowIs
<1>3. \A j \in 1 .. n : R[j].base \in Nat /\ End(R[j]) \in Nat /\ R[j].base < End(R[j])
  BY <1>0, TableIs
<1>4. \A i, j \in 1 .. n : i < j => End(R[i]) <= R[j].base
  BY <1>0 DEF Ordered
<1>5. \A i, j \in 1 .. n : i <= j => End(R[i]) <= End(R[j])
  <2> SUFFICES ASSUME NEW i \in 1 .. n, NEW j \in 1 .. n, i <= j PROVE End(R[i]) <= End(R[j])
    OBVIOUS
  <2>1. PICK ei \in Nat, bj \in Nat, ej \in Nat : ei = End(R[i]) /\ bj = R[j].base /\ ej = End(R[j]) /\ bj < ej
    BY <1>3
  <2>2. CASE i = j
    BY <2>1, <2>2
  <2>3. CASE i < j
    <3>1. ei <= bj
      BY <1>4, <2>1, <2>3
    <3> QED BY <2>1, <3>1
  <2> QED BY <2>2, <2>3
<1>6. \A j \in 1 .. n : (j < lo => End(R[j]) <= addr) /\ (j >= hi => End(R[j]) > addr)
  BY <1>0, <1>1 DEF Outside2
<1>7. CASE End(R[h]) <= addr /\ Narrow(R, addr, w) = [lo |-> h + 1, hi |-> hi]
  <2>1. \A j \in 1 .. n : j < h + 1 => End(R[j]) <= addr
    <3> SUFFICES ASSUME NEW j \in 1 .. n, j < h + 1 PROVE End(R[j]) <= addr
      OBVIOUS
    <3>1. j <= h
      OBVIOUS
    <3>2. End(R[j]) <= End(R[h]) /\ End(R[j]) \in Nat /\ End(R[h]) \in Nat
      BY <1>3, <1>5, <3>1
    <3> QED BY <1>7, <3>2
  <2>2. Outside2(R, addr, [lo |-> h + 1, hi |-> hi])
    BY <1>0, <1>6, <2>1 DEF Outside2
  <2>3. h + 1 <= hi /\ hi - (h + 1) < hi - lo
    BY <1>1, <1>2
  <2> QED BY <1>0, <1>1, <1>2, <1>7, <2>2, <2>3
<1>8. CASE ~(End(R[h]) <= addr) /\ Narrow(R, addr, w) = [lo |-> lo, hi |-> h]
  <2>1. \A j \in 1 .. n : j >= h => End(R[j]) > addr
    <3> SUFFICES ASSUME NEW j \in 1 .. n, j >= h PROVE End(R[j]) > addr
      OBVIOUS
    <3>1. h <= j
      OBVIOUS
    <3>2. End(R[h]) <= End(R[j]) /\ End(R[j]) \in Nat /\ End(R[h]) \in Nat
      BY <1>3, <1>5, <3>1
    <3> QED BY <1>8, <3>2
  <2>2. Outside2(R, addr, [lo |-> lo, hi |-> h])
    BY <1>0, <1>6, <2>1 DEF Outside2
  <2>3. lo <= h /\ h - lo < hi - lo
    BY <1>1, <1>2
  <2> QED BY <1>0, <1>1, <1>2, <1>8, <2>2, <2>3
<1> QED BY <1>2, <1>7, <1>8

\* The search finds the first region that ends behind addr.
LEMMA FirstOverlapIs ==
  ASSUME NEW R \in Table, Ordered(R), NEW addr \in Nat
  PROVE  Parts(R, addr, FirstOverlap(R, addr))
<1>0. PICK n \in Nat : n = Len(R)
  BY TableIs
<1>1. PICK s : s = CHOOSE t : IsSearch(t, R, addr)
  OBVIOUS
<1>2. IsSearch(s, R, addr) /\ FirstOverlap(R, addr) = s[[lo |-> 1, hi |-> n + 1]]
  BY <1>0, <1>1, FirstOverlapDef, SearchExists
<1>3. \A w \in Windows(n) : s[w] = IF w.lo >= w.hi THEN w.lo ELSE s[Narrow(R, addr, w)]
  BY <1>0, <1>2 DEF IsSearch
<1> DEFINE T == {k \in 0 .. n : \A w \in Windows(n) :
                   w.lo <= w.hi /\ w.hi - w.lo <= k /\ Outside2(R, addr, w) => Parts(R, addr, s[w])}
<1>4. ASSUME NEW w \in Windows(n), w.lo <= w.hi, w.lo >= w.hi, Outside2(R, addr, w)
      PROVE  Parts(R, addr, s[w])
  <2>1. PICK lo \in 1 .. n + 1, hi \in 1 .. n + 1 : lo = w.lo /\ hi = w.hi
    BY DEF Windows
  <2>2. lo = hi /\ s[w] = lo
    BY <1>3, <1>4, <2>1
  <2> QED BY <1>0, <1>4, <2>1, <2>2 DEF Parts, Outside2
<1>5. 0 \in T
  <2> SUFFICES ASSUME NEW w \in Windows(n), w.lo <= w.hi, w.hi - w.lo <= 0, Outside2(R, addr, w)
               PROVE  Parts(R, addr, s[w])
    OBVIOUS
  <2>1. PICK lo \in 1 .. n + 1, hi \in 1 .. n + 1 : lo = w.lo /\ hi = w.hi
    BY DEF Windows
  <2>2. lo >= hi
    BY <2>1
  <2> QED BY <1>4, <2>1, <2>2
<1>6. ASSUME NEW k \in 1 .. n, k - 1 \in T PROVE k \in T
  <2> SUFFICES ASSUME NEW w \in Windows(n), w.lo <= w.hi, w.hi - w.lo <= k, Outside2(R, addr, w)
               PROVE  Parts(R, addr, s[w])
    OBVIOUS
  <2>1. PICK lo \in 1 .. n + 1, hi \in 1 .. n + 1 : lo = w.lo /\ hi = w.hi
    BY DEF Windows
  <2>2. CASE lo >= hi
    BY <1>4, <2>1, <2>2
  <2>3. CASE lo < hi
    <3>1. PICK v : v = Narrow(R, addr, w)
      OBVIOUS
    <3>2. v \in Windows(n) /\ Outside2(R, addr, v) /\ v.lo <= v.hi /\ v.hi - v.lo < w.hi - w.lo
      BY <1>0, <2>1, <2>3, <3>1, NarrowKeeps
    <3>3. PICK a \in 1 .. n + 1, b \in 1 .. n + 1 : a = v.lo /\ b = v.hi
      BY <3>2 DEF Windows
    <3>4. b - a <= k - 1
      BY <2>1, <3>2, <3>3
    <3>5. Parts(R, addr, s[v])
      BY <1>6, <3>2, <3>3, <3>4
    <3>6. s[w] = s[v]
      BY <1>3, <2>1, <2>3, <3>1
    <3> QED BY <3>5, <3>6
  <2> QED BY <2>1, <2>2, <2>3
<1> HIDE DEF T
<1>7. \A k \in 0 .. n : k \in T
  BY <1>5, <1>6, Upwards
<1>8. n \in T
  BY <1>7
<1>9. PICK w \in Windows(n) : w = [lo |-> 1, hi |-> n + 1]
  <2>1. 1 \in 1 .. n + 1 /\ n + 1 \in 1 .. n + 1
    OBVIOUS
  <2> QED BY <2>1 DEF Windows
<1>10. w.lo <= w.hi /\ w.hi - w.lo <= n /\ Outside2(R, addr, w)
  BY <1>0, <1>9 DEF Outside2
<1>11. Parts(R, addr, s[w])
  BY <1>8, <1>10 DEF T
<1> QED BY <1>2, <1>9, <1>11

-----------------------------------------------------------------------------
(* Tables put together.                                                     *)

Live(T) == {T[i] : i \in {j \in 1 .. Len(T) : T[j].kind # "free"}}

\* Free regions that touch are among the pairs in M.
Touching(T, M) == \A i \in 1 .. Len(T) - 1 : Mergeable(T[i], T[i + 1]) => <<T[i], T[i + 1]>> \in M

\* All of the table lies before, or behind, an address.
Before(T, addr) == \A i \in 1 .. Len(T) : End(T[i]) <= addr
Behind(T, addr) == \A i \in 1 .. Len(T) : T[i].base >= addr

\* A concatenation is a table of as many regions.
LEMMA ConcatIs ==
  ASSUME NEW S \in Table, NEW T \in Table
  PROVE  /\ S \o T \in Table /\ Len(S \o T) = Len(S) + Len(T)
         /\ \A i \in 1 .. Len(S) + Len(T) : (S \o T)[i] = IF i <= Len(S) THEN S[i] ELSE T[i - Len(S)]
BY ConcatProperties DEF Table

\* Where its regions come from
LEMMA ConcatPlaces ==
  ASSUME NEW S \in Table, NEW T \in Table
  PROVE  /\ \A i \in 1 .. Len(S) : i \in 1 .. Len(S \o T) /\ (S \o T)[i] = S[i]
         /\ \A i \in 1 .. Len(T) : Len(S) + i \in 1 .. Len(S \o T) /\ (S \o T)[Len(S) + i] = T[i]
         /\ \A i \in 1 .. Len(S \o T) : i \in 1 .. Len(S) \/ \E j \in 1 .. Len(T) : i = Len(S) + j
<1>0. PICK m \in Nat, n \in Nat : m = Len(S) /\ n = Len(T)
  BY TableIs
<1>1. Len(S \o T) = m + n /\ \A i \in 1 .. m + n : (S \o T)[i] = IF i <= m THEN S[i] ELSE T[i - m]
  BY <1>0, ConcatIs
<1>2. ASSUME NEW i \in 1 .. m PROVE i \in 1 .. m + n /\ (S \o T)[i] = S[i]
  <2>1. i \in 1 .. m + n /\ i <= m
    OBVIOUS
  <2> QED BY <1>1, <2>1
<1>3. ASSUME NEW i \in 1 .. n PROVE m + i \in 1 .. m + n /\ (S \o T)[m + i] = T[i]
  <2>1. m + i \in 1 .. m + n /\ ~(m + i <= m) /\ m + i - m = i
    OBVIOUS
  <2> QED BY <1>1, <2>1
<1>4. ASSUME NEW i \in 1 .. m + n, i \notin 1 .. m PROVE \E j \in 1 .. n : i = m + j
  <2>1. i - m \in 1 .. n /\ i = m + (i - m)
    BY <1>4
  <2> QED BY <2>1
<1> QED BY <1>0, <1>1, <1>2, <1>3, <1>4

\* Its live regions
LEMMA LiveConcat ==
  ASSUME NEW S \in Table, NEW T \in Table
  PROVE  Live(S \o T) = Live(S) \cup Live(T)
<1>1. PICK U : U = S \o T
  OBVIOUS
<1>2. PICK f : f = [i \in 1 .. Len(T) |-> Len(S) + i]
  OBVIOUS
<1>3. /\ \A i \in 1 .. Len(S) : i \in 1 .. Len(U) /\ U[i] = S[i]
      /\ \A i \in 1 .. Len(T) : f[i] \in 1 .. Len(U) /\ U[f[i]] = T[i]
      /\ \A i \in 1 .. Len(U) : i \in 1 .. Len(S) \/ \E j \in 1 .. Len(T) : i = f[j]
  BY <1>1, <1>2, ConcatPlaces
<1>4. ASSUME NEW x \in Live(U) PROVE x \in Live(S) \cup Live(T)
  <2>1. PICK i \in 1 .. Len(U) : x = U[i] /\ U[i].kind # "free"
    BY DEF Live
  <2>2. CASE i \in 1 .. Len(S)
    BY <1>3, <2>1, <2>2 DEF Live
  <2>3. CASE i \notin 1 .. Len(S)
    <3>1. PICK j \in 1 .. Len(T) : i = f[j]
      BY <1>3, <2>3
    <3>2. x = T[j] /\ T[j].kind # "free"
      BY <1>3, <2>1, <3>1
    <3> QED BY <3>2 DEF Live
  <2> QED BY <2>2, <2>3
<1>5. ASSUME NEW x \in Live(S) PROVE x \in Live(U)
  <2>1. PICK i \in 1 .. Len(S) : x = S[i] /\ S[i].kind # "free"
    BY DEF Live
  <2> QED BY <1>3, <2>1 DEF Live
<1>6. ASSUME NEW x \in Live(T) PROVE x \in Live(U)
  <2>1. PICK i \in 1 .. Len(T) : x = T[i] /\ T[i].kind # "free"
    BY DEF Live
  <2>2. PICK j : j = f[i]
    OBVIOUS
  <2>3. j \in 1 .. Len(U) /\ U[j] = x
    BY <1>3, <2>1, <2>2
  <2> QED BY <2>1, <2>3 DEF Live
<1> QED BY <1>1, <1>4, <1>5, <1>6

\* It is in order if both parts are and the first lies before the second.
LEMMA OrderedConcat ==
  ASSUME NEW S \in Table, NEW T \in Table, Ordered(S), Ordered(T),
         NEW addr \in Nat, Before(S, addr), Behind(T, addr)
  PROVE  Ordered(S \o T)
<1>0. PICK m \in Nat, n \in Nat : m = Len(S) /\ n = Len(T)
  BY TableIs
<1>1. PICK U \in Table : U = S \o T
  BY ConcatIs
<1>2. Len(U) = m + n /\ \A i \in 1 .. m + n : U[i] = IF i <= m THEN S[i] ELSE T[i - m]
  BY <1>0, <1>1, ConcatIs
<1>3. ASSUME NEW i \in 1 .. m + n, NEW j \in 1 .. m + n, i < j PROVE End(U[i]) <= U[j].base
  <2>1. CASE j <= m
    <3>1. i \in 1 .. m /\ j \in 1 .. m /\ i <= m
      BY <1>3, <2>1
    <3>2. U[i] = S[i] /\ U[j] = S[j]
      BY <1>2, <2>1, <3>1
    <3> QED BY <1>0, <1>3, <3>1, <3>2 DEF Ordered
  <2>2. CASE i <= m /\ ~(j <= m)
    <3>1. i \in 1 .. m /\ j - m \in 1 .. n
      BY <1>3, <2>2
    <3>2. U[i] = S[i] /\ U[j] = T[j - m]
      BY <1>2, <2>2
    <3>3. End(S[i]) \in Nat /\ End(S[i]) <= addr
      BY <1>0, <3>1, TableIs DEF Before
    <3>4. T[j - m].base \in Nat /\ T[j - m].base >= addr
      BY <1>0, <3>1, TableIs DEF Behind
    <3> QED BY <3>2, <3>3, <3>4
  <2>3. CASE ~(i <= m)
    <3>1. i - m \in 1 .. n /\ j - m \in 1 .. n /\ i - m < j - m /\ ~(j <= m)
      BY <1>3, <2>3
    <3>2. U[i] = T[i - m] /\ U[j] = T[j - m]
      BY <1>2, <2>3, <3>1
    <3> QED BY <1>0, <3>1, <3>2 DEF Ordered
  <2> QED BY <2>1, <2>2, <2>3
<1> QED BY <1>1, <1>2, <1>3 DEF Ordered

\* Its free neighbours are those of the parts, or meet where they do.
LEMMA TouchingConcat ==
  ASSUME NEW S \in Table, NEW T \in Table, NEW M, Touching(S, M), Touching(T, M),
         Len(S) # 0 /\ Len(T) # 0 /\ Mergeable(S[Len(S)], T[1]) => <<S[Len(S)], T[1]>> \in M
  PROVE  Touching(S \o T, M)
<1>0. PICK m \in Nat, n \in Nat : m = Len(S) /\ n = Len(T)
  BY TableIs
<1>1. PICK U \in Table : U = S \o T
  BY ConcatIs
<1>2. Len(U) = m + n /\ \A i \in 1 .. m + n : U[i] = IF i <= m THEN S[i] ELSE T[i - m]
  BY <1>0, <1>1, ConcatIs
<1>3. ASSUME NEW i \in 1 .. m + n - 1, Mergeable(U[i], U[i + 1]) PROVE <<U[i], U[i + 1]>> \in M
  <2>0. i \in 1 .. m + n /\ i + 1 \in 1 .. m + n
    OBVIOUS
  <2>1. CASE i + 1 <= m
    <3>1. i \in 1 .. m - 1 /\ i <= m
      BY <2>1
    <3>2. U[i] = S[i] /\ U[i + 1] = S[i + 1]
      BY <1>2, <2>0, <2>1, <3>1
    <3> QED BY <1>0, <1>3, <3>1, <3>2 DEF Touching
  <2>2. CASE i = m
    <3>1. i <= m /\ ~(i + 1 <= m) /\ i + 1 - m = 1 /\ m # 0 /\ n # 0
      BY <2>2
    <3>2. U[i] = S[i] /\ U[i + 1] = T[1]
      BY <1>2, <2>0, <3>1
    <3> QED BY <1>0, <1>3, <2>2, <3>1, <3>2
  <2>3. CASE ~(i <= m)
    <3>1. i - m \in 1 .. n - 1 /\ i + 1 - m = i - m + 1 /\ ~(i + 1 <= m)
      BY <2>3
    <3>2. U[i] = T[i - m] /\ U[i + 1] = T[i - m + 1]
      BY <1>2, <2>0, <2>3, <3>1
    <3> QED BY <1>0, <1>3, <3>1, <3>2 DEF Touching
  <2>4. i + 1 <= m \/ i = m \/ ~(i <= m)
    OBVIOUS
  <2> QED BY <2>1, <2>2, <2>3, <2>4
<1> QED BY <1>1, <1>2, <1>3 DEF Touching

\* It lies before an address if both parts do.
LEMMA BoundsConcat ==
  ASSUME NEW S \in Table, NEW T \in Table, NEW addr
  PROVE  /\ Before(S, addr) /\ Before(T, addr) => Before(S \o T, addr)
         /\ Behind(S, addr) /\ Behind(T, addr) => Behind(S \o T, addr)
<1>1. PICK U : U = S \o T
  OBVIOUS
<1>2. \A i \in 1 .. Len(U) : (\E j \in 1 .. Len(S) : U[i] = S[j]) \/ (\E j \in 1 .. Len(T) : U[i] = T[j])
  BY <1>1, ConcatPlaces
<1> QED BY <1>1, <1>2 DEF Before, Behind

\* A table of one region
LEMMA OneRegion ==
  ASSUME NEW r \in Region, NEW M
  PROVE  /\ <<r>> \in Table /\ Len(<<r>>) = 1 /\ <<r>>[1] = r
         /\ Ordered(<<r>>) /\ Touching(<<r>>, M)
         /\ Live(<<r>>) = (IF r.kind = "free" THEN {} ELSE {r})
         /\ \A addr : (Before(<<r>>, addr) <=> End(r) <= addr) /\ (Behind(<<r>>, addr) <=> r.base >= addr)
<1>1. PICK T : T = <<r>>
  OBVIOUS
<1>2. T \in Table /\ Len(T) = 1 /\ T[1] = r
  BY <1>1 DEF Table
<1>3. 1 .. Len(T) = {1} /\ 1 .. Len(T) - 1 = {}
  BY <1>2
<1>4. Ordered(T) /\ Touching(T, M)
  BY <1>3 DEF Ordered, Touching
<1>5. Live(T) = IF r.kind = "free" THEN {} ELSE {r}
  BY <1>2, <1>3 DEF Live
<1>6. \A addr : (Before(T, addr) <=> End(r) <= addr) /\ (Behind(T, addr) <=> r.base >= addr)
  BY <1>2, <1>3 DEF Before, Behind
<1> QED BY <1>1, <1>2, <1>4, <1>5, <1>6

\* The empty table
LEMMA NoRegion ==
  /\ <<>> \in Table /\ Len(<<>>) = 0 /\ Live(<<>>) = {} /\ Ordered(<<>>) /\ Apart(<<>>)
  /\ \A M : Touching(<<>>, M)
  /\ \A addr : Before(<<>>, addr) /\ Behind(<<>>, addr)
<1>1. <<>> \in Table /\ Len(<<>>) = 0
  BY EmptySeq DEF Table
<1>2. 1 .. Len(<<>>) = {} /\ 1 .. Len(<<>>) - 1 = {}
  BY <1>1
<1> QED BY <1>1, <1>2 DEF Live, Ordered, Apart, Touching, Before, Behind

-----------------------------------------------------------------------------
(* A region that munmap cuts.                                               *)

\* What survives before the range
LEMMA HeadPartIs ==
  ASSUME NEW r \in Region, r.kind # "free", NEW start \in Nat, r.base < start, start < End(r)
  PROVE  LET h == HeadPart(r, start) IN
         /\ h \in Region /\ h.base = r.base /\ h.len = start - r.base /\ End(h) = start
         /\ h.kind = r.kind /\ h.fref = r.fref /\ h.off = r.off
         /\ h.dlen = IF r.kind = "file" /\ r.dlen > h.len THEN h.len ELSE r.dlen
<1>0. PICK h : h = HeadPart(r, start)
  OBVIOUS
<1>1. PICK b \in Nat, d \in Nat : b = r.base /\ d = r.dlen
  BY RegionIs
<1>2. PICK l \in Nat \ {0} : l = start - b /\ b + l = start
  BY <1>1
<1>3. h = [r EXCEPT !.len = l, !.dlen = IF r.kind = "file" /\ d > l THEN l ELSE d]
  BY <1>0, <1>1, <1>2 DEF HeadPart
<1>4. /\ h.base = b /\ h.len = l /\ h.kind = r.kind /\ h.fref = r.fref /\ h.off = r.off
      /\ h.dlen = (IF r.kind = "file" /\ d > l THEN l ELSE d) /\ h \in Region
  BY <1>1, <1>3 DEF Region
<1> QED BY <1>0, <1>1, <1>2, <1>4 DEF End

\* What survives behind the range
LEMMA TailPartIs ==
  ASSUME NEW r \in Region, r.kind # "free", NEW end \in Nat, r.base < end, end < End(r)
  PROVE  LET h == TailPart(r, end) IN
         /\ h \in Region /\ h.base = end /\ End(h) = End(r) /\ h.kind = r.kind /\ h.fref = r.fref
         /\ h.off = IF r.kind = "file" THEN r.off + (end - r.base) ELSE r.off
         /\ h.dlen = IF r.kind # "file" THEN r.dlen
                     ELSE IF r.dlen > end - r.base THEN r.dlen - (end - r.base) ELSE 0
<1>0. PICK h : h = TailPart(r, end)
  OBVIOUS
<1>1. PICK b \in Nat, n \in Nat, d \in Nat, o \in Nat :
        b = r.base /\ n = r.len /\ d = r.dlen /\ o = r.off /\ End(r) = b + n
  BY RegionIs
<1>2. PICK c \in Nat \ {0} : c = end - b /\ n - c \in Nat \ {0} /\ end + (n - c) = b + n
  BY <1>1
<1>3. h = [r EXCEPT !.base = end, !.len = n - c,
                    !.off = IF r.kind = "file" THEN o + c ELSE o,
                    !.dlen = IF r.kind # "file" THEN d ELSE IF d > c THEN d - c ELSE 0]
  BY <1>0, <1>1, <1>2 DEF TailPart
<1>4. (IF r.kind # "file" THEN d ELSE IF d > c THEN d - c ELSE 0) \in Nat
      /\ (IF r.kind = "file" THEN o + c ELSE o) \in Nat
  BY <1>1, <1>2
<1>5. /\ h.base = end /\ h.len = n - c /\ h.kind = r.kind /\ h.fref = r.fref
      /\ h.off = (IF r.kind = "file" THEN o + c ELSE o)
      /\ h.dlen = (IF r.kind # "file" THEN d ELSE IF d > c THEN d - c ELSE 0)
  BY <1>3 DEF Region
<1>6. h \in Region
  BY <1>2, <1>3, <1>4 DEF Region
<1> QED BY <1>0, <1>1, <1>2, <1>5, <1>6 DEF End

\* A free region
LEMMA FreeIs ==
  ASSUME NEW base \in Nat, NEW len \in Nat \ {0}
  PROVE  /\ Free(base, len) \in Region /\ Free(base, len).kind = "free"
         /\ Free(base, len).base = base /\ End(Free(base, len)) = base + len
BY DEF Free, Region, End, NULL

\* What is left of r outside the range
Pieces(r, start, end) ==
  IF ~ Overlaps(r, start, end) THEN {r}
  ELSE (IF r.base < start THEN {HeadPart(r, start)} ELSE {})
       \cup (IF end < End(r) THEN {TailPart(r, end)} ELSE {})

HeadCut(r, start) == IF r.base < start /\ start < End(r) THEN 1 ELSE 0
TailCut(r, end) == IF r.base < end /\ end < End(r) THEN 1 ELSE 0

\* p is what Cut makes of r.
CutOK(p, r, start, end) ==
  /\ p \in Table /\ Len(p) >= 1 /\ Ordered(p) /\ Touching(p, {})
  /\ Behind(p, r.base) /\ Before(p, End(r))
  /\ p[1].base = r.base /\ End(p[Len(p)]) = End(r)
  /\ Live(p) = (IF r.kind = "free" THEN {} ELSE Pieces(r, start, end))
  /\ Len(p) <= 1 + HeadCut(r, start) + TailCut(r, end)
  /\ r.kind = "free" => p = <<r>>
  /\ r.kind # "free" /\ p[Len(p)].kind = "free" => start < End(r) /\ End(r) <= end
  /\ r.kind # "free" /\ p[1].kind = "free" => start <= r.base /\ r.base < end

\* A region outside the range is left whole.
LEMMA CutWhole ==
  ASSUME NEW r \in Region, NEW start \in Nat, NEW end \in Nat, r.kind = "free" \/ ~ Overlaps(r, start, end)
  PROVE  Cut(r, start, end) = <<r>> /\ CutOK(<<r>>, r, start, end)
<1>1. Cut(r, start, end) = <<r>>
  BY DEF Cut
<1>2. PICK p : p = <<r>>
  OBVIOUS
<1>3. /\ p \in Table /\ Len(p) = 1 /\ p[1] = r /\ Ordered(p) /\ Touching(p, {})
      /\ Live(p) = (IF r.kind = "free" THEN {} ELSE {r})
      /\ Before(p, End(r)) /\ Behind(p, r.base)
  BY <1>2, OneRegion, RegionIs, SMTT(30)
<1>4. HeadCut(r, start) \in {0, 1} /\ TailCut(r, end) \in {0, 1}
  BY DEF HeadCut, TailCut
<1>5. 1 <= 1 + HeadCut(r, start) + TailCut(r, end) /\ 1 >= 1
  BY <1>4
<1>6. p[Len(p)] = r
  BY <1>3
<1>7. Live(p) = (IF r.kind = "free" THEN {} ELSE Pieces(r, start, end))
  BY <1>3 DEF Pieces
<1>8. CutOK(p, r, start, end)
  BY <1>2, <1>3, <1>5, <1>6, <1>7 DEF CutOK
<1> QED BY <1>1, <1>2, <1>8

\* The three parts of a region that is cut: p is what they make together.
Fitting(H, F, G, p) ==
  /\ H \in Table /\ F \in Region /\ G \in Table
  /\ Len(H) \in {0, 1} /\ Len(G) \in {0, 1} /\ F.kind = "free"
  /\ Len(H) = 1 => H[1].kind # "free" /\ End(H[1]) = F.base
  /\ Len(G) = 1 => G[1].kind # "free" /\ G[1].base = End(F)
  /\ p = H \o <<F>> \o G

\* The parts of a cut region make a table.
LEMMA ThreeParts ==
  ASSUME NEW H, NEW F, NEW G, NEW p, Fitting(H, F, G, p)
  PROVE  /\ p \in Table /\ Len(p) = Len(H) + 1 + Len(G)
         /\ Ordered(p) /\ Touching(p, {})
         /\ p[1] = IF Len(H) = 1 THEN H[1] ELSE F
         /\ p[Len(p)] = IF Len(G) = 1 THEN G[1] ELSE F
         /\ Live(p) = Live(H) \cup Live(G)
         /\ \A addr : /\ (Before(H, addr) /\ End(F) <= addr /\ Before(G, addr) => Before(p, addr))
                      /\ (Behind(H, addr) /\ F.base >= addr /\ Behind(G, addr) => Behind(p, addr))
<1>0. /\ H \in Table /\ F \in Region /\ G \in Table
      /\ Len(H) \in {0, 1} /\ Len(G) \in {0, 1} /\ F.kind = "free"
      /\ (Len(H) = 1 => H[1].kind # "free" /\ End(H[1]) = F.base)
      /\ (Len(G) = 1 => G[1].kind # "free" /\ G[1].base = End(F))
      /\ p = H \o <<F>> \o G
  BY DEF Fitting
<1> USE <1>0
<1>1. PICK f \in Table : f = <<F>>
  BY OneRegion
<1>2. /\ Len(f) = 1 /\ f[1] = F /\ Ordered(f) /\ Touching(f, {}) /\ Live(f) = {}
      /\ \A addr : (Before(f, addr) <=> End(F) <= addr) /\ (Behind(f, addr) <=> F.base >= addr)
  BY <1>1, OneRegion
<1>3. PICK h \in Table : h = H \o f
  BY ConcatIs
<1>4. Len(h) = Len(H) + 1 /\ p \in Table /\ p = h \o G /\ Len(p) = Len(h) + Len(G)
  BY <1>1, <1>2, <1>3, ConcatIs
<1>5. PICK m \in {0, 1}, g \in {0, 1} : m = Len(H) /\ g = Len(G)
  OBVIOUS
<1>6. Len(h) = m + 1 /\ Len(p) = m + 1 + g
  BY <1>4, <1>5
<1>7. h[m + 1] = F
  <2>1. 1 \in 1 .. Len(f)
    BY <1>2
  <2> QED BY <1>2, <1>3, <1>5, <2>1, ConcatPlaces, ZenonT(60)
<1>8. m = 1 => h[1] = H[1]
  <2>1. m = 1 => 1 \in 1 .. Len(H)
    BY <1>5
  <2> QED BY <1>3, <2>1, ConcatPlaces
<1>9. h[1] = IF m = 1 THEN H[1] ELSE F
  BY <1>7, <1>8
<1>10. p[1] = IF m = 1 THEN H[1] ELSE F
  <2>1. 1 \in 1 .. Len(h)
    BY <1>6
  <2> QED BY <1>4, <1>9, <2>1, ConcatPlaces, SMTT(30)
<1>11. p[Len(p)] = IF g = 1 THEN G[1] ELSE F
  <2>1. CASE g = 1
    <3>1. 1 \in 1 .. Len(G)
      BY <1>5, <2>1
    <3>2. p[Len(h) + 1] = G[1]
      BY <1>4, <3>1, ConcatPlaces
    <3> QED BY <1>5, <1>6, <2>1, <3>2
  <2>2. CASE g = 0
    <3>1. m + 1 \in 1 .. Len(h) /\ Len(p) = m + 1
      BY <1>6, <2>2
    <3>2. p[m + 1] = h[m + 1]
      BY <1>4, <3>1, ConcatPlaces
    <3> QED BY <1>7, <2>2, <3>1, <3>2
  <2> QED BY <2>1, <2>2
<1>12. F.base \in Nat /\ End(F) \in Nat /\ F.base < End(F)
  BY RegionIs
<1>13. PICK b \in Nat, e \in Nat : b = F.base /\ e = End(F) /\ b < e /\ b <= e /\ b <= b /\ e <= e /\ b >= b /\ e >= e
  BY <1>12
<1>14. Ordered(H) /\ Touching(H, {}) /\ Before(H, b)
  <2>1. \A i \in 1 .. m : i = 1 /\ m = 1
    <3>1. CASE m = 0
      BY <3>1
    <3>2. CASE m = 1
      BY <3>2
    <3> QED BY <3>1, <3>2
  <2>2. 1 .. m - 1 = {} /\ \A i, j \in 1 .. m : ~(i < j)
    <3>1. CASE m = 0
      BY <3>1
    <3>2. CASE m = 1
      BY <3>2
    <3> QED BY <3>1, <3>2
  <2>3. \A i \in 1 .. Len(H) : End(H[i]) <= b
    <3>1. ASSUME NEW i \in 1 .. Len(H) PROVE End(H[i]) = b
      <4>1. i = 1 /\ Len(H) = 1
        BY <1>5, <2>1
      <4> QED BY <1>13, <4>1
    <3> QED BY <1>13, <3>1
  <2>4. Ordered(H) /\ Touching(H, {})
    BY <1>5, <2>2 DEF Ordered, Touching
  <2> QED BY <2>3, <2>4 DEF Before
<1>15. Ordered(G) /\ Touching(G, {}) /\ Behind(G, e)
  <2>1. \A i \in 1 .. g : i = 1 /\ g = 1
    <3>1. CASE g = 0
      BY <3>1
    <3>2. CASE g = 1
      BY <3>2
    <3> QED BY <3>1, <3>2
  <2>2. 1 .. g - 1 = {} /\ \A i, j \in 1 .. g : ~(i < j)
    <3>1. CASE g = 0
      BY <3>1
    <3>2. CASE g = 1
      BY <3>2
    <3> QED BY <3>1, <3>2
  <2>3. \A i \in 1 .. Len(G) : G[i].base >= e
    <3>1. ASSUME NEW i \in 1 .. Len(G) PROVE G[i].base = e
      <4>1. i = 1 /\ Len(G) = 1
        BY <1>5, <2>1
      <4> QED BY <1>13, <4>1
    <3> QED BY <1>13, <3>1
  <2>4. Ordered(G) /\ Touching(G, {})
    BY <1>5, <2>2 DEF Ordered, Touching
  <2> QED BY <2>3, <2>4 DEF Behind
<1>16. Ordered(h) /\ Before(h, e)
  <2>1. Behind(f, b) /\ Before(f, e)
    BY <1>2, <1>13
  <2>2. Before(H, e)
    <3>1. ASSUME NEW i \in 1 .. Len(H) PROVE End(H[i]) <= e
      <4>1. PICK x \in Nat : x = End(H[i]) /\ x <= b
        BY <1>14, TableIs DEF Before
      <4> QED BY <1>13, <4>1
    <3> QED BY <3>1 DEF Before
  <2> QED BY <1>2, <1>3, <1>14, <2>1, <2>2, OrderedConcat, BoundsConcat
<1>17. Ordered(p)
  BY <1>4, <1>15, <1>16, OrderedConcat
<1>18. Touching(h, {})
  <2>1. Len(H) # 0 => H[Len(H)].kind # "free"
    BY <1>5
  <2>2. ~(Len(H) # 0 /\ Len(f) # 0 /\ Mergeable(H[Len(H)], f[1]))
    BY <2>1 DEF Mergeable
  <2> QED BY <1>2, <1>3, <1>14, <2>2, TouchingConcat
<1>19. Touching(p, {})
  <2>1. Len(G) # 0 => G[1].kind # "free"
    BY <1>5
  <2>2. ~(Len(h) # 0 /\ Len(G) # 0 /\ Mergeable(h[Len(h)], G[1]))
    BY <2>1 DEF Mergeable
  <2> QED BY <1>4, <1>15, <1>18, <2>2, TouchingConcat
<1>20. Live(p) = Live(H) \cup Live(G)
  <2>1. Live(h) = Live(H) \cup Live(f) /\ Live(p) = Live(h) \cup Live(G)
    BY <1>3, <1>4, LiveConcat
  <2> QED BY <1>2, <2>1
<1>21. \A addr : /\ (Before(H, addr) /\ End(F) <= addr /\ Before(G, addr) => Before(p, addr))
                 /\ (Behind(H, addr) /\ F.base >= addr /\ Behind(G, addr) => Behind(p, addr))
  <2> SUFFICES ASSUME NEW addr
               PROVE  /\ (Before(H, addr) /\ End(F) <= addr /\ Before(G, addr) => Before(p, addr))
                      /\ (Behind(H, addr) /\ F.base >= addr /\ Behind(G, addr) => Behind(p, addr))
    OBVIOUS
  <2>1. /\ (Before(H, addr) /\ Before(f, addr) => Before(h, addr))
        /\ (Behind(H, addr) /\ Behind(f, addr) => Behind(h, addr))
    BY <1>3, BoundsConcat
  <2>2. /\ (Before(h, addr) /\ Before(G, addr) => Before(p, addr))
        /\ (Behind(h, addr) /\ Behind(G, addr) => Behind(p, addr))
    BY <1>4, BoundsConcat
  <2>3. (Before(f, addr) <=> End(F) <= addr) /\ (Behind(f, addr) <=> F.base >= addr)
    BY <1>2
  <2> QED BY <2>1, <2>2, <2>3
<1> QED BY <1>4, <1>5, <1>6, <1>10, <1>11, <1>17, <1>19, <1>20, <1>21

\* A live region that meets the range is cut in at most three parts.
LEMMA CutLive ==
  ASSUME NEW r \in Region, NEW start \in Nat, NEW end \in Nat, start < end,
         r.kind # "free", Overlaps(r, start, end)
  PROVE  CutOK(Cut(r, start, end), r, start, end)
<1>1. PICK b \in Nat, z \in Nat : b = r.base /\ z = End(r) /\ b < z /\ z > start /\ b < end
  BY RegionIs DEF Overlaps
<1>2. PICK s \in Nat : s = From(r, start) /\ s = (IF b > start THEN b ELSE start)
  BY <1>1 DEF From
<1>3. PICK e \in Nat : e = To(r, end) /\ e = (IF z < end THEN z ELSE end)
  BY <1>1 DEF To
<1>4. s < e /\ b <= s /\ e <= z /\ e - s \in Nat \ {0} /\ s + (e - s) = e /\ s < z /\ b < e
  BY <1>1, <1>2, <1>3
<1>5. PICK F \in Region : F = Free(s, e - s) /\ F.kind = "free" /\ F.base = s /\ End(F) = e
  BY <1>4, FreeIs
<1>6. PICK H : H = IF s > b THEN <<HeadPart(r, s)>> ELSE <<>>
  OBVIOUS
<1>7. PICK G : G = IF e < z THEN <<TailPart(r, e)>> ELSE <<>>
  OBVIOUS
<1>8. PICK p : p = Cut(r, start, end)
  OBVIOUS
<1>9. p = H \o <<F>> \o G
  BY <1>1, <1>2, <1>3, <1>5, <1>6, <1>7, <1>8 DEF Cut
<1>10. /\ H \in Table /\ Len(H) \in {0, 1} /\ Len(H) = HeadCut(r, start)
       /\ (Len(H) = 1 <=> b < start)
       /\ (Len(H) = 1 => H[1].kind # "free" /\ End(H[1]) = F.base /\ H[1].base = b)
       /\ Live(H) = (IF b < start THEN {HeadPart(r, start)} ELSE {})
       /\ Before(H, z) /\ Behind(H, b)
  <2>1. CASE s > b
    <3>1. s = start /\ b < start /\ start < z
      BY <1>1, <1>2, <2>1
    <3>2. PICK h \in Region : /\ h = HeadPart(r, start) /\ h.base = b /\ End(h) = start /\ h.kind = r.kind
      BY <1>1, <3>1, HeadPartIs
    <3>3. H = <<h>>
      BY <1>6, <2>1, <3>1, <3>2
    <3>4. /\ H \in Table /\ Len(H) = 1 /\ H[1] = h /\ Live(H) = {h}
          /\ \A addr : (Before(H, addr) <=> End(h) <= addr) /\ (Behind(H, addr) <=> h.base >= addr)
      BY <3>2, <3>3, OneRegion
    <3>5. Before(H, z) /\ Behind(H, b)
      <4>1. start <= z /\ b >= b
        BY <3>1
      <4> QED BY <3>2, <3>4, <4>1
    <3>6. HeadCut(r, start) = 1
      BY <1>1, <3>1 DEF HeadCut
    <3> QED BY <1>5, <3>1, <3>2, <3>4, <3>5, <3>6
  <2>2. CASE ~(s > b)
    <3>1. ~(b < start) /\ H = <<>>
      BY <1>2, <1>6, <2>2
    <3>2. HeadCut(r, start) = 0
      BY <1>1, <3>1 DEF HeadCut
    <3> QED BY <3>1, <3>2, NoRegion
  <2> QED BY <2>1, <2>2
<1>11. /\ G \in Table /\ Len(G) \in {0, 1} /\ Len(G) = TailCut(r, end)
       /\ (Len(G) = 1 <=> end < z)
       /\ (Len(G) = 1 => G[1].kind # "free" /\ G[1].base = End(F) /\ End(G[1]) = z)
       /\ Live(G) = (IF end < z THEN {TailPart(r, end)} ELSE {})
       /\ Before(G, z) /\ Behind(G, b)
  <2>1. CASE e < z
    <3>1. e = end /\ end < z /\ b < end
      BY <1>1, <1>3, <2>1
    <3>2. PICK h \in Region : /\ h = TailPart(r, end) /\ h.base = end /\ End(h) = z /\ h.kind = r.kind
      BY <1>1, <3>1, TailPartIs
    <3>3. G = <<h>>
      BY <1>7, <2>1, <3>1, <3>2
    <3>4. /\ G \in Table /\ Len(G) = 1 /\ G[1] = h /\ Live(G) = {h}
          /\ \A addr : (Before(G, addr) <=> End(h) <= addr) /\ (Behind(G, addr) <=> h.base >= addr)
      BY <3>2, <3>3, OneRegion
    <3>5. Before(G, z) /\ Behind(G, b)
      <4>1. z <= z /\ end >= b
        BY <3>1
      <4> QED BY <3>2, <3>4, <4>1
    <3>6. TailCut(r, end) = 1
      BY <1>1, <3>1 DEF TailCut
    <3> QED BY <1>5, <3>1, <3>2, <3>4, <3>5, <3>6
  <2>2. CASE ~(e < z)
    <3>1. ~(end < z) /\ G = <<>>
      BY <1>3, <1>7, <2>2
    <3>2. TailCut(r, end) = 0
      BY <1>1, <3>1 DEF TailCut
    <3> QED BY <3>1, <3>2, NoRegion
  <2> QED BY <2>1, <2>2
<1>12. /\ p \in Table /\ Len(p) = Len(H) + 1 + Len(G) /\ Ordered(p) /\ Touching(p, {})
       /\ p[1] = (IF Len(H) = 1 THEN H[1] ELSE F)
       /\ p[Len(p)] = (IF Len(G) = 1 THEN G[1] ELSE F)
       /\ Live(p) = Live(H) \cup Live(G)
       /\ (Before(H, z) /\ End(F) <= z /\ Before(G, z) => Before(p, z))
       /\ (Behind(H, b) /\ F.base >= b /\ Behind(G, b) => Behind(p, b))
  <2>1. /\ Len(H) = 1 => H[1].kind # "free" /\ End(H[1]) = F.base
        /\ Len(G) = 1 => G[1].kind # "free" /\ G[1].base = End(F)
    BY <1>10, <1>11
  <2>2. Fitting(H, F, G, p)
    BY <1>5, <1>9, <1>10, <1>11, <2>1 DEF Fitting
  <2>3. /\ p \in Table /\ Len(p) = Len(H) + 1 + Len(G)
        /\ Ordered(p) /\ Touching(p, {})
        /\ p[1] = IF Len(H) = 1 THEN H[1] ELSE F
        /\ p[Len(p)] = IF Len(G) = 1 THEN G[1] ELSE F
        /\ Live(p) = Live(H) \cup Live(G)
        /\ \A addr : /\ (Before(H, addr) /\ End(F) <= addr /\ Before(G, addr) => Before(p, addr))
                     /\ (Behind(H, addr) /\ F.base >= addr /\ Behind(G, addr) => Behind(p, addr))
    BY <2>2, ThreeParts
  <2> QED BY <2>3, Zenon
<1>13. Behind(p, b) /\ Before(p, z)
  <2>1. F.base >= b /\ End(F) <= z
    BY <1>4, <1>5
  <2> QED BY <1>10, <1>11, <1>12, <2>1
<1>14. p[1].base = b
  <2>1. Len(H) # 1 => s = b
    BY <1>2, <1>10
  <2> QED BY <1>5, <1>10, <1>12, <2>1
<1>15. End(p[Len(p)]) = z
  <2>1. Len(G) # 1 => e = z
    BY <1>3, <1>11
  <2> QED BY <1>5, <1>11, <1>12, <2>1
<1>16. Live(p) = Pieces(r, start, end)
  BY <1>1, <1>10, <1>11, <1>12 DEF Pieces
<1>17. Len(p) >= 1 /\ Len(p) <= 1 + HeadCut(r, start) + TailCut(r, end)
  BY <1>10, <1>11, <1>12
<1>18. p[Len(p)].kind = "free" => start < z /\ z <= end
  <2>1. p[Len(p)].kind = "free" => ~(end < z)
    BY <1>11, <1>12
  <2> QED BY <1>1, <2>1
<1>19. p[1].kind = "free" => start <= b /\ b < end
  <2>1. p[1].kind = "free" => ~(b < start)
    BY <1>10, <1>12
  <2> QED BY <1>1, <2>1
<1>20. CutOK(p, r, start, end)
  BY <1>1, <1>12, <1>13, <1>14, <1>15, <1>16, <1>17, <1>18, <1>19 DEF CutOK
<1> QED BY <1>8, <1>20

\* A region that is cut: the table it becomes
LEMMA CutIs ==
  ASSUME NEW r \in Region, NEW start \in Nat, NEW end \in Nat, start < end
  PROVE  CutOK(Cut(r, start, end), r, start, end)
BY CutWhole, CutLive

-----------------------------------------------------------------------------
(* A table made region by region.                                           *)

IsChain(c, n, first, step) ==
  c = [k \in 0 .. n |-> IF k = 0 THEN first ELSE step[<<k, c[k - 1]>>]]

\* A chain of steps from a first value exists.
LEMMA ChainExists ==
  ASSUME NEW S, NEW n \in Nat, NEW first \in S, NEW step \in [(1 .. n) \X S -> S]
  PROVE  \E c \in [0 .. n -> S] : IsChain(c, n, first, step)
<1> DEFINE D == 0 .. n
           rank == [k \in D |-> k]
           G == [x \in D \X [D -> S] |-> IF x[1] = 0 THEN first ELSE step[<<x[1], x[2][x[1] - 1]>>]]
<1>1. ASSUME NEW k \in D, k # 0 PROVE k \in 1 .. n /\ k - 1 \in D /\ k - 1 < k
  BY <1>1
<1>2. ASSUME NEW k \in D, NEW g \in [D -> S]
      PROVE  /\ G[<<k, g>>] = (IF k = 0 THEN first ELSE step[<<k, g[k - 1]>>])
             /\ G[<<k, g>>] \in S
  <2>1. <<k, g>> \in D \X [D -> S] /\ <<k, g>>[1] = k /\ <<k, g>>[2] = g
    OBVIOUS
  <2>2. G[<<k, g>>] = (IF k = 0 THEN first ELSE step[<<k, g[k - 1]>>])
    <3> HIDE DEF D
    <3> QED BY <2>1
  <2>3. CASE k = 0
    BY <2>2, <2>3
  <2>4. CASE k # 0
    <3>1. k \in 1 .. n /\ g[k - 1] \in S
      BY <1>1, <2>4
    <3> QED BY <2>2, <2>4, <3>1
  <2> QED BY <2>2, <2>3, <2>4
<1>3. G \in [D \X [D -> S] -> S]
  <2>1. ASSUME NEW x \in D \X [D -> S] PROVE G[x] \in S
    <3>1. PICK k \in D, g \in [D -> S] : x = <<k, g>>
      OBVIOUS
    <3> HIDE DEF G, D
    <3> QED BY <1>2, <3>1
  <2> QED BY <2>1
<1>4. rank \in [D -> 0 .. n] /\ \A k \in D : rank[k] = k
  OBVIOUS
<1>5. ASSUME NEW k \in D, NEW g \in [D -> S], NEW h \in [D -> S],
             \A e \in D : rank[e] < rank[k] => g[e] = h[e]
      PROVE  G[<<k, g>>] = G[<<k, h>>]
  <2>1. CASE k = 0
    BY <1>2, <2>1
  <2>2. CASE k # 0
    <3>1. PICK j \in D : j = k - 1 /\ j < k
      BY <1>1, <2>2
    <3>2. g[j] = h[j]
      BY <1>4, <1>5, <3>1
    <3> HIDE DEF G
    <3> QED BY <1>2, <2>2, <3>1, <3>2, ZenonT(60)
  <2> QED BY <2>1, <2>2
<1> HIDE DEF D, rank, G
<1>6. Ranked(D, S, rank, G)
  BY <1>5 DEF Ranked
<1>7. Recursive(D, S, n, rank, G)
  BY <1>3, <1>4, <1>6 DEF Recursive
<1>8. PICK c \in [D -> S] : \A k \in D : c[k] = G[<<k, c>>]
  BY <1>7, RankRecursion DEF Solvable
<1>9. c = [k \in D |-> IF k = 0 THEN first ELSE step[<<k, c[k - 1]>>]]
  BY <1>2, <1>8
<1>10. IsChain(c, n, first, step)
  BY <1>9 DEF IsChain, D
<1> QED BY <1>8, <1>10 DEF D

\* The loop of CutAll, f being the first region that can overlap
IsCutting(c, R, f, start, end) ==
  c = [k \in 0 .. Len(R) |->
         IF k = 0 THEN <<>> ELSE c[k - 1] \o (IF k < f THEN <<R[k]>> ELSE Cut(R[k], start, end))]

\* CutAll takes the end of the chain that its definition describes.
LEMMA CutAllDef ==
  \A R, start, end :
    CutAll(R, start, end) = (CHOOSE c : IsCutting(c, R, FirstOverlap(R, start), start, end))[Len(R)]
BY DEF CutAll, IsCutting

\* That chain is defined.
LEMMA CuttingExists ==
  ASSUME NEW R \in Table, NEW f, NEW start \in Nat, NEW end \in Nat, start < end
  PROVE  \E c : IsCutting(c, R, f, start, end)
<1>0. PICK n \in Nat : n = Len(R)
  BY TableIs
<1> DEFINE next(k) == IF k < f THEN <<R[k]>> ELSE Cut(R[k], start, end)
           step == [x \in (1 .. n) \X Table |-> x[2] \o next(x[1])]
<1>1. ASSUME NEW k \in 1 .. n PROVE next(k) \in Table
  <2>1. R[k] \in Region
    BY <1>0, TableIs
  <2>2. <<R[k]>> \in Table /\ Cut(R[k], start, end) \in Table
    BY <2>1, OneRegion, CutIs DEF CutOK
  <2> QED BY <2>2
<1> HIDE DEF next
<1>2. ASSUME NEW k \in 1 .. n, NEW S \in Table
      PROVE  step[<<k, S>>] = S \o next(k) /\ step[<<k, S>>] \in Table
  <2>1. <<k, S>> \in (1 .. n) \X Table /\ <<k, S>>[1] = k /\ <<k, S>>[2] = S
    OBVIOUS
  <2>2. step[<<k, S>>] = S \o next(k)
    BY <2>1
  <2> QED BY <1>1, <2>2, ConcatIs
<1>3. step \in [(1 .. n) \X Table -> Table]
  <2>1. ASSUME NEW x \in (1 .. n) \X Table PROVE x[2] \o next(x[1]) \in Table
    BY <1>1, ConcatIs
  <2> QED BY <2>1
<1> HIDE DEF step
<1>4. PICK c \in [0 .. n -> Table] : IsChain(c, n, <<>>, step)
  BY <1>3, NoRegion, ChainExists
<1>5. ASSUME NEW k \in 0 .. n PROVE c[k] = IF k = 0 THEN <<>> ELSE c[k - 1] \o next(k)
  <2>1. c[k] = IF k = 0 THEN <<>> ELSE step[<<k, c[k - 1]>>]
    BY <1>4 DEF IsChain
  <2>2. CASE k # 0
    <3>1. k \in 1 .. n /\ k - 1 \in 0 .. n
      BY <2>2
    <3> QED BY <1>2, <2>1, <2>2, <3>1
  <2> QED BY <2>1, <2>2
<1>6. c = [k \in 0 .. n |-> IF k = 0 THEN <<>> ELSE c[k - 1] \o next(k)]
  BY <1>5
<1> QED BY <1>0, <1>6 DEF IsCutting, next

-----------------------------------------------------------------------------
(* CutAll                                                                   *)

\* Two regions that coalesce_around would join
Near(start, end) == {m \in Region \X Region : End(m[2]) > start /\ m[1].base <= end}

LiveTo(R, k) == {R[i] : i \in {j \in 1 .. k : R[j].kind # "free"}}
Heads(R, k, start) == IF \E i \in 1 .. k : HeadCut(R[i], start) = 1 THEN 1 ELSE 0
Tails(R, k, end) == IF \E i \in 1 .. k : TailCut(R[i], end) = 1 THEN 1 ELSE 0

\* S is what the loop has made of the first k regions.
CutSoFar(S, R, k, start, end) ==
  /\ S \in Table /\ Ordered(S) /\ Touching(S, Near(start, end))
  /\ Live(S) = UNION {Pieces(r, start, end) : r \in LiveTo(R, k)}
  /\ Len(S) <= k + Heads(R, k, start) + Tails(R, k, end)
  /\ k = 0 => S = <<>>
  /\ k # 0 => /\ Len(S) >= 1 /\ Before(S, End(R[k])) /\ End(S[Len(S)]) = End(R[k])
              /\ R[k].kind = "free" => S[Len(S)] = R[k]
              /\ R[k].kind # "free" /\ S[Len(S)].kind = "free" => start < End(R[k]) /\ End(R[k]) <= end

\* The region in which the range starts is counted once.
LEMMA HeadsMore ==
  ASSUME NEW R \in Table, Ordered(R), NEW k \in 1 .. Len(R), NEW start \in Nat
  PROVE  /\ HeadCut(R[k], start) \in {0, 1} /\ Heads(R, k, start) \in {0, 1} /\ Heads(R, k - 1, start) \in {0, 1}
         /\ Heads(R, k - 1, start) + HeadCut(R[k], start) <= Heads(R, k, start)
<1>0. PICK n \in Nat : n = Len(R)
  BY TableIs
<1>1. HeadCut(R[k], start) \in {0, 1} /\ Heads(R, k, start) \in {0, 1} /\ Heads(R, k - 1, start) \in {0, 1}
  BY DEF HeadCut, Heads
<1>2. k \in 1 .. k /\ \A i \in 1 .. k - 1 : i \in 1 .. k /\ i \in 1 .. n /\ i < k
  BY <1>0
<1>3. HeadCut(R[k], start) = 1 => Heads(R, k, start) = 1
  BY <1>2 DEF Heads
<1>4. Heads(R, k - 1, start) = 1 => Heads(R, k, start) = 1
  BY <1>2 DEF Heads
<1>5. ASSUME HeadCut(R[k], start) = 1, Heads(R, k - 1, start) = 1 PROVE FALSE
  <2>1. PICK i \in 1 .. k - 1 : HeadCut(R[i], start) = 1
    BY <1>5 DEF Heads
  <2>2. i \in 1 .. n /\ i < k /\ k \in 1 .. n
    BY <1>0, <1>2
  <2>3. End(R[i]) <= R[k].base
    BY <1>0, <2>2 DEF Ordered
  <2>4. start < End(R[i]) /\ R[k].base < start
    BY <1>5, <2>1 DEF HeadCut
  <2>5. PICK x \in Nat, y \in Nat : x = End(R[i]) /\ y = R[k].base
    BY <1>0, <2>2, TableIs
  <2> QED BY <2>3, <2>4, <2>5
<1>6. PICK a \in {0, 1}, b \in {0, 1}, c \in {0, 1} :
        a = Heads(R, k - 1, start) /\ b = HeadCut(R[k], start) /\ c = Heads(R, k, start)
  BY <1>1
<1>7. (b = 1 => c = 1) /\ (a = 1 => c = 1) /\ ~(a = 1 /\ b = 1)
  BY <1>3, <1>4, <1>5, <1>6
<1> QED BY <1>1, <1>6, <1>7

\* The region in which the range ends is counted once.
LEMMA TailsMore ==
  ASSUME NEW R \in Table, Ordered(R), NEW k \in 1 .. Len(R), NEW end \in Nat
  PROVE  /\ TailCut(R[k], end) \in {0, 1} /\ Tails(R, k, end) \in {0, 1} /\ Tails(R, k - 1, end) \in {0, 1}
         /\ Tails(R, k - 1, end) + TailCut(R[k], end) <= Tails(R, k, end)
<1>0. PICK n \in Nat : n = Len(R)
  BY TableIs
<1>1. TailCut(R[k], end) \in {0, 1} /\ Tails(R, k, end) \in {0, 1} /\ Tails(R, k - 1, end) \in {0, 1}
  BY DEF TailCut, Tails
<1>2. k \in 1 .. k /\ \A i \in 1 .. k - 1 : i \in 1 .. k /\ i \in 1 .. n /\ i < k
  BY <1>0
<1>3. TailCut(R[k], end) = 1 => Tails(R, k, end) = 1
  BY <1>2 DEF Tails
<1>4. Tails(R, k - 1, end) = 1 => Tails(R, k, end) = 1
  BY <1>2 DEF Tails
<1>5. ASSUME TailCut(R[k], end) = 1, Tails(R, k - 1, end) = 1 PROVE FALSE
  <2>1. PICK i \in 1 .. k - 1 : TailCut(R[i], end) = 1
    BY <1>5 DEF Tails
  <2>2. i \in 1 .. n /\ i < k /\ k \in 1 .. n
    BY <1>0, <1>2
  <2>3. End(R[i]) <= R[k].base
    BY <1>0, <2>2 DEF Ordered
  <2>4. end < End(R[i]) /\ R[k].base < end
    BY <1>5, <2>1 DEF TailCut
  <2>5. PICK x \in Nat, y \in Nat : x = End(R[i]) /\ y = R[k].base
    BY <1>0, <2>2, TableIs
  <2> QED BY <2>3, <2>4, <2>5
<1>6. PICK a \in {0, 1}, b \in {0, 1}, c \in {0, 1} :
        a = Tails(R, k - 1, end) /\ b = TailCut(R[k], end) /\ c = Tails(R, k, end)
  BY <1>1
<1>7. (b = 1 => c = 1) /\ (a = 1 => c = 1) /\ ~(a = 1 /\ b = 1)
  BY <1>3, <1>4, <1>5, <1>6
<1> QED BY <1>1, <1>6, <1>7

\* The live regions up to the next one
LEMMA LiveMore ==
  ASSUME NEW R, NEW k \in Nat, k # 0
  PROVE  LiveTo(R, k) = LiveTo(R, k - 1) \cup (IF R[k].kind = "free" THEN {} ELSE {R[k]})
<1>1. 1 .. k = (1 .. k - 1) \cup {k}
  OBVIOUS
<1> QED BY <1>1 DEF LiveTo

\* The last piece of one region and the first of the next are joined only near the range.
LEMMA CutJoint ==
  ASSUME NEW q \in Region, NEW r \in Region, ~ Mergeable(q, r), NEW start \in Nat, NEW end \in Nat,
         NEW x \in Region, NEW y \in Region, End(x) = End(q), y.base = r.base, End(q) <= r.base,
         q.kind = "free" => x = q, q.kind # "free" /\ x.kind = "free" => start < End(q) /\ End(q) <= end,
         r.kind = "free" => y = r, r.kind # "free" /\ y.kind = "free" => start <= r.base /\ r.base < end,
         Mergeable(x, y)
  PROVE  <<x, y>> \in Near(start, end)
<1>1. x.kind = "free" /\ y.kind = "free" /\ End(x) = y.base
  BY DEF Mergeable
<1>2. PICK xb \in Nat, m \in Nat, ye \in Nat : /\ xb = x.base /\ m = End(x) /\ xb < m
                                               /\ m = y.base /\ ye = End(y) /\ m < ye
                                               /\ m = End(q) /\ m = r.base
  BY <1>1, RegionIs
<1>3. ~(q.kind = "free" /\ r.kind = "free")
  BY <1>1
<1>4. CASE q.kind # "free"
  <2>1. start < m /\ m <= end
    BY <1>1, <1>2, <1>4
  <2>2. ye > start /\ xb <= end
    BY <1>2, <2>1
  <2> QED BY <1>2, <2>2 DEF Near
<1>5. CASE r.kind # "free"
  <2>1. start <= m /\ m < end
    BY <1>1, <1>2, <1>5
  <2>2. ye > start /\ xb <= end
    BY <1>2, <2>1
  <2> QED BY <1>2, <2>2 DEF Near
<1> QED BY <1>3, <1>4, <1>5

\* The loop of unmap_range goes on to the next region.
LEMMA CutMore ==
  ASSUME NEW R \in Table, Ordered(R), Apart(R), NEW start \in Nat, NEW end \in Nat, start < end,
         NEW k \in 1 .. Len(R), NEW S, CutSoFar(S, R, k - 1, start, end),
         NEW p, CutOK(p, R[k], start, end)
  PROVE  CutSoFar(S \o p, R, k, start, end)
<1>0. PICK n \in Nat : n = Len(R)
  BY TableIs
<1>r. PICK r \in Region : r = R[k]
  BY TableIs
<1>1. PICK b \in Nat, z \in Nat : b = r.base /\ z = End(r) /\ b < z
  BY RegionIs
<1>2. PICK j \in Nat : j = k - 1 /\ j \in 0 .. n /\ j + 1 = k /\ (j # 0 => j \in 1 .. n - 1)
  BY <1>0
<1>3. /\ S \in Table /\ Ordered(S) /\ Touching(S, Near(start, end))
      /\ Live(S) = UNION {Pieces(q, start, end) : q \in LiveTo(R, j)}
      /\ Len(S) <= j + Heads(R, j, start) + Tails(R, j, end)
      /\ (j = 0 => S = <<>>)
      /\ (j # 0 => /\ Len(S) >= 1 /\ Before(S, End(R[j])) /\ End(S[Len(S)]) = End(R[j])
                   /\ (R[j].kind = "free" => S[Len(S)] = R[j])
                   /\ (R[j].kind # "free" /\ S[Len(S)].kind = "free" => start < End(R[j]) /\ End(R[j]) <= end))
  BY <1>2 DEF CutSoFar
<1>4. /\ p \in Table /\ Len(p) >= 1 /\ Ordered(p) /\ Touching(p, {})
      /\ Behind(p, b) /\ Before(p, z)
      /\ p[1].base = b /\ End(p[Len(p)]) = z
      /\ Live(p) = (IF r.kind = "free" THEN {} ELSE Pieces(r, start, end))
      /\ Len(p) <= 1 + HeadCut(r, start) + TailCut(r, end)
      /\ (r.kind = "free" => p = <<r>>)
      /\ (r.kind # "free" /\ p[Len(p)].kind = "free" => start < z /\ z <= end)
      /\ (r.kind # "free" /\ p[1].kind = "free" => start <= b /\ b < end)
  BY <1>r, <1>1 DEF CutOK
<1>t. S \in Table /\ p \in Table /\ Len(p) >= 1
  BY <1>3, <1>4
<1>5. PICK s \in Nat, l \in Nat \ {0} : s = Len(S) /\ l = Len(p)
  <2>1. Len(S) \in Nat /\ Len(p) \in Nat
    BY <1>t, TableIs
  <2>2. Len(p) # 0
    BY <1>t, <2>1
  <2> QED BY <2>1, <2>2
<1>6. PICK U \in Table : U = S \o p /\ Len(U) = s + l
  <2>1. S \o p \in Table /\ Len(S \o p) = Len(S) + Len(p)
    BY <1>t, ConcatIs
  <2> QED BY <1>5, <2>1
<1>l. /\ Live(S) = UNION {Pieces(q, start, end) : q \in LiveTo(R, j)}
      /\ Live(p) = (IF r.kind = "free" THEN {} ELSE Pieces(r, start, end))
  BY <1>3, <1>4
<1>7. U[s + l] = p[l]
  <2>1. l \in 1 .. Len(p)
    BY <1>5
  <2> QED BY <1>3, <1>4, <1>5, <1>6, <2>1, ConcatPlaces
<1>8. j # 0 => End(R[j]) \in Nat /\ End(R[j]) <= b /\ R[j] \in Region /\ ~ Mergeable(R[j], r)
  <2> SUFFICES ASSUME j # 0 PROVE End(R[j]) \in Nat /\ End(R[j]) <= b /\ R[j] \in Region /\ ~ Mergeable(R[j], r)
    OBVIOUS
  <2>1. j \in 1 .. n /\ j \in 1 .. n - 1 /\ k \in 1 .. n /\ j < k
    BY <1>0, <1>2
  <2>2. End(R[j]) <= R[k].base
    BY <1>0, <2>1 DEF Ordered
  <2>3. ~ Mergeable(R[j], R[j + 1])
    BY <1>0, <2>1 DEF Apart
  <2> QED BY <1>0, <1>r, <1>1, <1>2, <2>1, <2>2, <2>3, TableIs
<1>9. Before(S, b) /\ Before(S, z)
  <2>1. CASE j = 0
    BY <1>3, <2>1, NoRegion
  <2>2. CASE j # 0
    <3>1. PICK e \in Nat : e = End(R[j]) /\ e <= b
      BY <1>8, <2>2
    <3>2. ASSUME NEW i \in 1 .. Len(S) PROVE End(S[i]) <= b /\ End(S[i]) <= z
      <4>1. PICK x \in Nat : x = End(S[i]) /\ x <= e
        BY <1>3, <2>2, <3>1, TableIs DEF Before
      <4> QED BY <1>1, <3>1, <4>1, SMTT(30)
    <3> QED BY <3>2 DEF Before
  <2> QED BY <2>1, <2>2
<1>10. Ordered(U)
  BY <1>3, <1>4, <1>6, <1>9, OrderedConcat
<1>11. Before(U, z)
  BY <1>3, <1>4, <1>6, <1>9, BoundsConcat
<1>12. Touching(U, Near(start, end))
  <2>1. Touching(p, Near(start, end))
    BY <1>4 DEF Touching
  <2>2. ASSUME Len(S) # 0, Mergeable(S[Len(S)], p[1]) PROVE <<S[Len(S)], p[1]>> \in Near(start, end)
    <3>1. j # 0
      BY <1>3, <2>2, NoRegion
    <3>2. PICK q \in Region : q = R[j]
      BY <1>8, <3>1
    <3>3. PICK x \in Region, y \in Region : x = S[Len(S)] /\ y = p[1]
      <4>1. s \in 1 .. Len(S) /\ 1 \in 1 .. Len(p)
        BY <1>5, <2>2
      <4> QED BY <1>3, <1>4, <1>5, <4>1, TableIs
    <3>4. End(x) = End(q) /\ y.base = b /\ End(q) <= b /\ ~ Mergeable(q, r)
      BY <1>3, <1>4, <1>8, <3>1, <3>2, <3>3
    <3>5. (q.kind = "free" => x = q) /\ (q.kind # "free" /\ x.kind = "free" => start < End(q) /\ End(q) <= end)
      BY <1>3, <3>1, <3>2, <3>3
    <3>6. r.kind = "free" => y = r
      <4>1. <<r>>[1] = r
        OBVIOUS
      <4> QED BY <1>4, <3>3, <4>1
    <3>7. r.kind # "free" /\ y.kind = "free" => start <= r.base /\ r.base < end
      BY <1>1, <1>4, <3>3
    <3> QED BY <1>1, <2>2, <3>3, <3>4, <3>5, <3>6, <3>7, CutJoint, SMTT(30)
  <2> QED BY <1>3, <1>4, <1>6, <2>1, <2>2, TouchingConcat
<1>13. Live(U) = UNION {Pieces(q, start, end) : q \in LiveTo(R, k)}
  <2>1. Live(U) = Live(S) \cup Live(p)
    BY <1>3, <1>4, <1>6, LiveConcat
  <2>2. LiveTo(R, k) = LiveTo(R, j) \cup (IF r.kind = "free" THEN {} ELSE {r})
    <3>1. k \in Nat /\ k # 0
      OBVIOUS
    <3> QED BY <1>r, <1>2, <3>1, LiveMore
  <2>3. CASE r.kind = "free"
    BY <1>l, <2>1, <2>2, <2>3
  <2>4. CASE r.kind # "free"
    <3>1. Live(U) = (UNION {Pieces(q, start, end) : q \in LiveTo(R, j)}) \cup Pieces(r, start, end)
      BY <1>l, <2>1, <2>4, Zenon
    <3>2. LiveTo(R, k) = LiveTo(R, j) \cup {r}
      BY <2>2, <2>4, Zenon
    <3> QED BY <3>1, <3>2
  <2> QED BY <2>3, <2>4
<1>14. s + l <= k + Heads(R, k, start) + Tails(R, k, end)
  <2>1. PICK h1 \in Nat, h2 \in Nat, h3 \in Nat :
          h1 = Heads(R, j, start) /\ h2 = HeadCut(r, start) /\ h3 = Heads(R, k, start) /\ h1 + h2 <= h3
    BY <1>r, <1>2, HeadsMore
  <2>2. PICK t1 \in Nat, t2 \in Nat, t3 \in Nat :
          t1 = Tails(R, j, end) /\ t2 = TailCut(r, end) /\ t3 = Tails(R, k, end) /\ t1 + t2 <= t3
    BY <1>r, <1>2, TailsMore
  <2>3. s <= j + h1 + t1 /\ l <= 1 + h2 + t2
    BY <1>3, <1>4, <1>5, <2>1, <2>2
  <2>4. s + l <= k + h3 + t3
    <3>1. j + 1 = k /\ h1 + h2 <= h3 /\ t1 + t2 <= t3
      BY <1>2, <2>1, <2>2
    <3>2. k \in Nat
      BY <3>1
    <3> QED BY <2>3, <3>1, <3>2
  <2> QED BY <2>1, <2>2, <2>4
<1>15. /\ s + l >= 1 /\ End(U[s + l]) = z
       /\ (r.kind = "free" => U[s + l] = r)
       /\ (r.kind # "free" /\ U[s + l].kind = "free" => start < z /\ z <= end)
  <2>1. s + l >= 1
    BY <1>5
  <2>2. r.kind = "free" => p[l] = r
    <3>1. <<r>>[1] = r /\ Len(<<r>>) = 1
      OBVIOUS
    <3> QED BY <1>4, <1>5, <3>1
  <2> QED BY <1>4, <1>5, <1>7, <2>1, <2>2
<1>16. k # 0
  OBVIOUS
<1> QED BY <1>r, <1>1, <1>6, <1>10, <1>11, <1>12, <1>13, <1>14, <1>15, <1>16 DEF CutSoFar

\* What CutAll makes of a table
LEMMA CutAllIs ==
  ASSUME NEW R \in Table, Ordered(R), Apart(R), NEW start \in Nat, NEW end \in Nat, start < end
  PROVE  CutSoFar(CutAll(R, start, end), R, Len(R), start, end)
<1>0. PICK n \in Nat : n = Len(R)
  BY TableIs
<1>1. PICK f : f = FirstOverlap(R, start)
  OBVIOUS
<1>2. PICK c : c = CHOOSE d : IsCutting(d, R, f, start, end)
  OBVIOUS
<1>3. IsCutting(c, R, f, start, end) /\ CutAll(R, start, end) = c[n]
  BY <1>0, <1>1, <1>2, CuttingExists, CutAllDef
<1>4. \A k \in 0 .. n :
        c[k] = IF k = 0 THEN <<>> ELSE c[k - 1] \o (IF k < f THEN <<R[k]>> ELSE Cut(R[k], start, end))
  BY <1>0, <1>3 DEF IsCutting
<1>5. ASSUME NEW k \in 1 .. n PROVE CutOK(IF k < f THEN <<R[k]>> ELSE Cut(R[k], start, end), R[k], start, end)
  <2>1. PICK r \in Region : r = R[k]
    BY <1>0, TableIs
  <2>2. CASE k < f
    <3>1. End(r) <= start
      BY <1>0, <1>1, <2>1, <2>2, FirstOverlapIs DEF Parts
    <3>2. ~ Overlaps(r, start, end)
      <4>1. End(r) \in Nat
        BY RegionIs
      <4> QED BY <3>1, <4>1 DEF Overlaps
    <3> QED BY <2>1, <2>2, <3>2, CutWhole
  <2>3. CASE ~(k < f)
    BY <2>1, <2>3, CutIs
  <2> QED BY <2>2, <2>3
<1> DEFINE T == {k \in 0 .. n : CutSoFar(c[k], R, k, start, end)}
<1>6. 0 \in T
  <2>1. c[0] = <<>>
    <3>1. 0 \in 0 .. n
      OBVIOUS
    <3> QED BY <1>4, <3>1
  <2>2. LiveTo(R, 0) = {} /\ Heads(R, 0, start) = 0 /\ Tails(R, 0, end) = 0
    BY DEF LiveTo, Heads, Tails
  <2>3. CutSoFar(<<>>, R, 0, start, end)
    <3>1. 0 <= 0 + 0 + 0
      OBVIOUS
    <3> QED BY <2>2, <3>1, NoRegion DEF CutSoFar
  <2> QED BY <2>1, <2>3
<1>7. ASSUME NEW k \in 1 .. n, k - 1 \in T PROVE k \in T
  <2>1. k \in 0 .. n /\ k # 0
    OBVIOUS
  <2>2. c[k] = c[k - 1] \o (IF k < f THEN <<R[k]>> ELSE Cut(R[k], start, end))
    BY <1>4, <2>1
  <2>3. CutSoFar(c[k], R, k, start, end)
    BY <1>0, <1>5, <1>7, <2>2, CutMore
  <2> QED BY <2>1, <2>3
<1> HIDE DEF T
<1>8. \A k \in 0 .. n : k \in T
  BY <1>6, <1>7, Upwards
<1>9. n \in T
  BY <1>8
<1> QED BY <1>0, <1>3, <1>9 DEF T

-----------------------------------------------------------------------------
(* Coalesce                                                                 *)

\* A table of at least one region is a table and its last region.
LEMMA FrontIs ==
  ASSUME NEW S \in Table, S # <<>>
  PROVE  /\ Front(S) \in Table /\ Last(S) \in Region /\ Last(S) = S[Len(S)] /\ Len(S) # 0
         /\ Len(S) = Len(Front(S)) + 1 /\ S = Front(S) \o <<Last(S)>>
<1>0. PICK n \in Nat : n = Len(S)
  BY TableIs
<1>1. n # 0
  <2>1. n = 0 => S = <<>>
    BY <1>0, EmptySeq DEF Table
  <2> QED BY <2>1
<1>2. PICK m \in Nat : m = n - 1 /\ m + 1 = n
  BY <1>1
<1>3. PICK x \in Region : x = S[n] /\ x = Last(S)
  <2>1. n \in 1 .. n
    BY <1>1
  <2> QED BY <1>0, <2>1, TableIs DEF Last
<1>4. PICK A : A = Front(S) /\ A = SubSeq(S, 1, m)
  BY <1>0, <1>2 DEF Front
<1>5. A \in Table /\ Len(A) = m /\ \A i \in 1 .. m : A[i] = S[i]
  <2>1. \A i \in 1 .. m : S[i] \in Region
    <3>1. \A i \in 1 .. m : i \in 1 .. n
      BY <1>2
    <3> QED BY <1>0, <3>1, TableIs
  <2>2. /\ SubSeq(S, 1, m) \in Seq(Region)
        /\ Len(SubSeq(S, 1, m)) = (IF 1 <= m THEN m - 1 + 1 ELSE 0)
        /\ \A i \in 1 .. m - 1 + 1 : SubSeq(S, 1, m)[i] = S[1 + i - 1]
    BY <2>1, SubSeqProperties
  <2>3. (IF 1 <= m THEN m - 1 + 1 ELSE 0) = m /\ m - 1 + 1 = m
    OBVIOUS
  <2>4. \A i \in 1 .. m : 1 + i - 1 = i
    OBVIOUS
  <2> QED BY <1>4, <2>2, <2>3, <2>4 DEF Table
<1>6. PICK U \in Table : U = A \o <<x>>
  BY <1>5, OneRegion, ConcatIs
<1>7. Len(U) = n /\ \A i \in 1 .. n : U[i] = S[i]
  <2>1. <<x>> \in Table /\ Len(<<x>>) = 1 /\ <<x>>[1] = x
    BY OneRegion
  <2>2. Len(U) = Len(A) + Len(<<x>>)
    BY <1>5, <1>6, <2>1, ConcatIs
  <2>3. Len(U) = n
    BY <1>2, <1>5, <2>1, <2>2
  <2>4. ASSUME NEW i \in 1 .. n PROVE U[i] = S[i]
    <3>1. CASE i \in 1 .. m
      BY <1>5, <1>6, <2>1, <3>1, ConcatPlaces
    <3>2. CASE i = n
      <4>1. 1 \in 1 .. Len(<<x>>)
        BY <2>1
      <4>2. U[Len(A) + 1] = <<x>>[1]
        BY <1>5, <1>6, <2>1, <4>1, ConcatPlaces
      <4> QED BY <1>2, <1>3, <1>5, <2>1, <3>2, <4>2
    <3>3. i \in 1 .. m \/ i = n
      BY <1>2
    <3> QED BY <3>1, <3>2, <3>3
  <2> QED BY <2>3, <2>4
<1>8. U = S
  BY <1>0, <1>7, SeqEqual DEF Table
<1>9. Len(S) = Len(A) + 1
  BY <1>0, <1>2, <1>5
<1> QED BY <1>0, <1>1, <1>3, <1>4, <1>5, <1>6, <1>8, <1>9

\* A table with one more region at its end
LEMMA OneMore ==
  ASSUME NEW A \in Table, NEW x \in Region
  PROVE  /\ A \o <<x>> \in Table /\ Append(A, x) = A \o <<x>> /\ Len(A \o <<x>>) = Len(A) + 1
         /\ (A \o <<x>>)[Len(A) + 1] = x
         /\ \A i \in 1 .. Len(A) : (A \o <<x>>)[i] = A[i]
         /\ Live(A \o <<x>>) = Live(A) \cup (IF x.kind = "free" THEN {} ELSE {x})
<1>1. <<x>> \in Table /\ Len(<<x>>) = 1 /\ <<x>>[1] = x /\ 1 \in 1 .. Len(<<x>>)
  <2>1. <<x>> \in Table /\ Len(<<x>>) = 1 /\ <<x>>[1] = x
    BY OneRegion
  <2> QED BY <2>1
<1>2. Live(<<x>>) = (IF x.kind = "free" THEN {} ELSE {x})
  BY OneRegion
<1>3. Append(A, x) = A \o <<x>>
  BY AppendIsConcat DEF Table
<1>4. A \o <<x>> \in Table /\ Len(A \o <<x>>) = Len(A) + 1
  BY <1>1, ConcatIs
<1>5. (A \o <<x>>)[Len(A) + 1] = x /\ \A i \in 1 .. Len(A) : (A \o <<x>>)[i] = A[i]
  BY <1>1, ConcatPlaces
<1>6. Live(A \o <<x>>) = Live(A) \cup Live(<<x>>)
  BY <1>1, LiveConcat
<1> QED BY <1>2, <1>3, <1>4, <1>5, <1>6

\* Order and free neighbours of a table with one region more
LEMMA OrderedMore ==
  ASSUME NEW A \in Table, NEW x \in Region
  PROVE  Ordered(A \o <<x>>) <=> Ordered(A) /\ Before(A, x.base)
<1>0. PICK n \in Nat : n = Len(A)
  BY TableIs
<1>1. PICK U \in Table : U = A \o <<x>>
  BY OneMore
<1>2. Len(U) = n + 1 /\ U[n + 1] = x /\ \A i \in 1 .. n : U[i] = A[i]
  BY <1>0, <1>1, OneMore
<1>3. \A i \in 1 .. n : i \in 1 .. n + 1 /\ i < n + 1 /\ n + 1 \in 1 .. n + 1
  OBVIOUS
<1>4. ASSUME Ordered(U) PROVE Ordered(A) /\ Before(A, x.base)
  <2>1. ASSUME NEW i \in 1 .. n, NEW j \in 1 .. n, i < j PROVE End(A[i]) <= A[j].base
    <3>1. End(U[i]) <= U[j].base
      BY <1>2, <1>3, <1>4, <2>1 DEF Ordered
    <3> QED BY <1>2, <3>1
  <2>2. ASSUME NEW i \in 1 .. n PROVE End(A[i]) <= x.base
    <3>1. End(U[i]) <= U[n + 1].base
      BY <1>2, <1>3, <1>4 DEF Ordered
    <3> QED BY <1>2, <3>1
  <2> QED BY <1>0, <2>1, <2>2 DEF Ordered, Before
<1>5. ASSUME Ordered(A), Before(A, x.base) PROVE Ordered(U)
  <2>1. <<x>> \in Table /\ Ordered(<<x>>) /\ (Behind(<<x>>, x.base) <=> x.base >= x.base)
    BY OneRegion
  <2>2. x.base \in Nat /\ x.base >= x.base
    BY RegionIs
  <2> QED BY <1>1, <1>5, <2>1, <2>2, OrderedConcat
<1> QED BY <1>1, <1>4, <1>5

\* Its free regions do not touch if the last one does not touch the new one.
LEMMA ApartMore ==
  ASSUME NEW A \in Table, NEW x \in Region
  PROVE  Apart(A \o <<x>>) <=> Apart(A) /\ (Len(A) # 0 => ~ Mergeable(A[Len(A)], x))
<1>0. PICK n \in Nat : n = Len(A)
  BY TableIs
<1>1. PICK U \in Table : U = A \o <<x>>
  BY OneMore
<1>2. Len(U) = n + 1 /\ U[n + 1] = x /\ \A i \in 1 .. n : U[i] = A[i]
  BY <1>0, <1>1, OneMore
<1>3. n + 1 - 1 = n /\ \A i \in 1 .. n - 1 : i \in 1 .. n /\ i + 1 \in 1 .. n
  OBVIOUS
<1>4. ASSUME Apart(U), NEW i \in 1 .. n - 1 PROVE ~ Mergeable(A[i], A[i + 1])
  <2>1. ~ Mergeable(U[i], U[i + 1])
    BY <1>2, <1>3, <1>4 DEF Apart
  <2> QED BY <1>2, <1>3, <2>1
<1>5. ASSUME Apart(U), n # 0 PROVE ~ Mergeable(A[n], x)
  <2>1. n \in 1 .. n
    BY <1>5
  <2>2. ~ Mergeable(U[n], U[n + 1])
    BY <1>2, <1>3, <1>5, <2>1 DEF Apart
  <2> QED BY <1>2, <2>1, <2>2
<1>6. ASSUME Apart(A), n # 0 => ~ Mergeable(A[n], x), NEW i \in 1 .. n PROVE ~ Mergeable(U[i], U[i + 1])
  <2>1. CASE i = n
    <3>1. n # 0
      BY <2>1
    <3> QED BY <1>2, <1>6, <2>1, <3>1
  <2>2. CASE i # n
    <3>1. i \in 1 .. n - 1
      BY <2>2
    <3>2. ~ Mergeable(A[i], A[i + 1])
      BY <1>0, <1>6, <3>1 DEF Apart
    <3> QED BY <1>2, <1>3, <3>1, <3>2
  <2> QED BY <2>1, <2>2
<1> QED BY <1>0, <1>1, <1>2, <1>3, <1>4, <1>5, <1>6 DEF Apart

\* Two free regions that touch become one.
LEMMA MergedIs ==
  ASSUME NEW r \in Region, NEW s \in Region, Mergeable(r, s)
  PROVE  /\ Merged(r, s) \in Region /\ Merged(r, s).kind = "free" /\ Merged(r, s).base = r.base
         /\ End(Merged(r, s)) = End(s)
<1>1. r.kind = "free" /\ s.kind = "free" /\ End(r) = s.base
  BY DEF Mergeable
<1>2. PICK b \in Nat, l \in Nat \ {0}, c \in Nat, m \in Nat \ {0} :
        b = r.base /\ l = r.len /\ c = s.base /\ m = s.len /\ End(r) = b + l /\ End(s) = c + m
  BY DEF Region, End
<1>3. r.dirty = TRUE
  BY <1>1 DEF Region
<1>4. PICK k \in Nat \ {0} : k = l + m /\ b + k = c + m
  BY <1>1, <1>2
<1>5. PICK q : q = Merged(r, s)
  OBVIOUS
<1>6. q = [r EXCEPT !.len = k, !.dirty = TRUE]
  <2>1. r \in [base : Nat, len : Nat \ {0}, kind : {"free", "anon", "file"}, dirty : BOOLEAN,
               fref : Nat, off : Nat, dlen : Nat]
    BY DEF Region
  <2> QED BY <1>2, <1>3, <1>4, <1>5, <2>1 DEF Merged
<1>7. q \in Region /\ q.kind = "free" /\ q.base = b /\ q.len = k
  BY <1>1, <1>2, <1>6 DEF Region
<1> QED BY <1>2, <1>4, <1>5, <1>7 DEF End

\* U is A with the region x at its end.
Extended(U, A, x) == A \in Table /\ x \in Region /\ U = A \o <<x>>

\* What a table with one more region is
LEMMA ExtendedIs ==
  ASSUME NEW U, NEW A, NEW x, Extended(U, A, x)
  PROVE  /\ A \in Table /\ x \in Region /\ U \in Table
         /\ Len(U) = Len(A) + 1 /\ U # <<>> /\ Last(U) = x /\ U[Len(U)] = x
         /\ Live(U) = Live(A) \cup (IF x.kind = "free" THEN {} ELSE {x})
         /\ x.kind = "free" => Live(U) = Live(A)
         /\ Ordered(U) <=> Ordered(A) /\ Before(A, x.base)
         /\ Apart(U) <=> Apart(A) /\ (Len(A) # 0 => ~ Mergeable(A[Len(A)], x))
         /\ \A addr : Before(U, addr) <=> Before(A, addr) /\ End(x) <= addr
<1>1. A \in Table /\ x \in Region /\ U = A \o <<x>>
  BY DEF Extended
<1>2. /\ U \in Table /\ Len(U) = Len(A) + 1 /\ U[Len(A) + 1] = x
      /\ \A i \in 1 .. Len(A) : U[i] = A[i]
      /\ Live(U) = Live(A) \cup (IF x.kind = "free" THEN {} ELSE {x})
  BY <1>1, OneMore
<1>3. PICK n \in Nat : n = Len(A)
  BY <1>1, TableIs
<1>4. Len(U) = n + 1 /\ n + 1 # 0
  BY <1>2, <1>3
<1>5. U # <<>> /\ Last(U) = x /\ U[Len(U)] = x
  BY <1>2, <1>3, <1>4, NoRegion DEF Last
<1>6. Ordered(U) <=> Ordered(A) /\ Before(A, x.base)
  BY <1>1, OrderedMore
<1>7. Apart(U) <=> Apart(A) /\ (Len(A) # 0 => ~ Mergeable(A[Len(A)], x))
  BY <1>1, ApartMore
<1>8. ASSUME NEW addr PROVE Before(U, addr) <=> Before(A, addr) /\ End(x) <= addr
  <2>1. \A i \in 1 .. n : i \in 1 .. n + 1 /\ n + 1 \in 1 .. n + 1
    OBVIOUS
  <2>2. \A i \in 1 .. n + 1 : i \in 1 .. n \/ i = n + 1
    OBVIOUS
  <2>3. n + 1 \in 1 .. n + 1 /\ U[n + 1] = x /\ \A i \in 1 .. n : U[i] = A[i]
    BY <1>2, <1>3
  <2> QED BY <1>3, <1>4, <2>1, <2>2, <2>3 DEF Before
<1>9. x.kind = "free" => Live(U) = Live(A)
  <2> SUFFICES ASSUME x.kind = "free" PROVE Live(U) = Live(A)
    OBVIOUS
  <2>1. Live(U) = Live(A) \cup {}
    BY <1>2
  <2> QED BY <2>1
<1> QED BY <1>1, <1>2, <1>5, <1>6, <1>7, <1>8, <1>9, Zenon

\* Append extends a table.
LEMMA AppendExtends ==
  ASSUME NEW A \in Table, NEW x \in Region
  PROVE  Extended(Append(A, x), A, x)
BY OneMore DEF Extended

\* A table extends its front by its last region.
LEMMA FrontExtends ==
  ASSUME NEW S \in Table, S # <<>>
  PROVE  Extended(S, Front(S), Last(S)) /\ Len(S) # 0
BY FrontIs DEF Extended

\* What the loop of Coalesce does with one region; go: f is reached.
JoinStep(S, r, go, end) ==
  IF go /\ S # <<>> /\ Mergeable(Last(S), r) /\ Last(S).base <= end
  THEN Append(Front(S), Merged(Last(S), r))
  ELSE Append(S, r)

IsJoining(c, R, f, end) ==
  c = [k \in 0 .. Len(R) |-> IF k = 0 THEN <<>> ELSE JoinStep(c[k - 1], R[k], k >= f, end)]

\* Coalesce takes the end of the chain that its definition describes.
LEMMA CoalesceDef ==
  \A R, start, end :
    Coalesce(R, start, end) = (CHOOSE c : IsJoining(c, R, FirstOverlap(R, start), end))[Len(R)]
BY DEF Coalesce, IsJoining, JoinStep

\* A step of it yields a table.
LEMMA JoinStepIs ==
  ASSUME NEW S \in Table, NEW r \in Region, NEW go \in BOOLEAN, NEW end \in Nat
  PROVE  JoinStep(S, r, go, end) \in Table
<1>1. CASE go /\ S # <<>> /\ Mergeable(Last(S), r) /\ Last(S).base <= end
  <2>1. Front(S) \in Table /\ Last(S) \in Region
    BY <1>1, FrontIs
  <2>2. Merged(Last(S), r) \in Region
    BY <1>1, <2>1, MergedIs
  <2>3. Append(Front(S), Merged(Last(S), r)) \in Table
    BY <2>1, <2>2, OneMore, ZenonT(60)
  <2> QED BY <1>1, <2>3 DEF JoinStep
<1>2. CASE ~(go /\ S # <<>> /\ Mergeable(Last(S), r) /\ Last(S).base <= end)
  <2>1. Append(S, r) \in Table
    BY OneMore
  <2> QED BY <1>2, <2>1 DEF JoinStep
<1> QED BY <1>1, <1>2

\* That chain is defined.
LEMMA JoiningExists ==
  ASSUME NEW R \in Table, NEW f, NEW end \in Nat
  PROVE  \E c : IsJoining(c, R, f, end)
<1>0. PICK n \in Nat : n = Len(R)
  BY TableIs
<1> DEFINE next(k, S) == JoinStep(S, R[k], k >= f, end)
           step == [x \in (1 .. n) \X Table |-> next(x[1], x[2])]
<1>1. ASSUME NEW k \in 1 .. n, NEW S \in Table PROVE next(k, S) \in Table
  <2>1. R[k] \in Region /\ (k >= f) \in BOOLEAN
    BY <1>0, TableIs
  <2> QED BY <2>1, JoinStepIs
<1> HIDE DEF next
<1>2. ASSUME NEW k \in 1 .. n, NEW S \in Table
      PROVE  step[<<k, S>>] = next(k, S) /\ step[<<k, S>>] \in Table
  <2>1. <<k, S>> \in (1 .. n) \X Table /\ <<k, S>>[1] = k /\ <<k, S>>[2] = S
    OBVIOUS
  <2>2. step[<<k, S>>] = next(k, S)
    BY <2>1
  <2> QED BY <1>1, <2>2
<1>3. step \in [(1 .. n) \X Table -> Table]
  <2>1. ASSUME NEW x \in (1 .. n) \X Table PROVE next(x[1], x[2]) \in Table
    BY <1>1
  <2> QED BY <2>1
<1> HIDE DEF step
<1>4. PICK c \in [0 .. n -> Table] : IsChain(c, n, <<>>, step)
  BY <1>3, NoRegion, ChainExists
<1>5. ASSUME NEW k \in 0 .. n PROVE c[k] = IF k = 0 THEN <<>> ELSE next(k, c[k - 1])
  <2>1. c[k] = IF k = 0 THEN <<>> ELSE step[<<k, c[k - 1]>>]
    BY <1>4 DEF IsChain
  <2>2. CASE k # 0
    <3>1. k \in 1 .. n /\ k - 1 \in 0 .. n
      BY <2>2
    <3> QED BY <1>2, <2>1, <2>2, <3>1
  <2> QED BY <2>1, <2>2
<1>6. c = [k \in 0 .. n |-> IF k = 0 THEN <<>> ELSE next(k, c[k - 1])]
  BY <1>5
<1> QED BY <1>0, <1>6 DEF IsJoining, next

\* U is what the loop has made of the first k regions of T.
JoinSoFar(U, T, k, f, end) ==
  /\ U \in Table /\ Ordered(U) /\ Apart(U)
  /\ Live(U) = LiveTo(T, k) /\ Len(U) <= k
  /\ k = 0 => U = <<>>
  /\ k # 0 => /\ U # <<>> /\ Before(U, End(T[k])) /\ End(Last(U)) = End(T[k])
              /\ \/ Last(U) = T[k]
                 \/ Last(U).kind = "free" /\ T[k].kind = "free" /\ Last(U).base <= end /\ k >= f

\* The loop of coalesce_around goes on to the next region.
LEMMA JoinMore ==
  ASSUME NEW T \in Table, Ordered(T), NEW start \in Nat, NEW end \in Nat, Touching(T, Near(start, end)),
         NEW f \in Nat, Parts(T, start, f),
         NEW k \in 1 .. Len(T), NEW S, JoinSoFar(S, T, k - 1, f, end)
  PROVE  JoinSoFar(JoinStep(S, T[k], k >= f, end), T, k, f, end)
<1>0. PICK n \in Nat : n = Len(T)
  BY TableIs
<1>r. PICK r \in Region : r = T[k]
  BY TableIs
<1>1. PICK b \in Nat, z \in Nat : b = r.base /\ z = End(r) /\ b < z
  BY RegionIs
<1>2. PICK j \in Nat : j = k - 1 /\ j \in 0 .. n /\ j + 1 = k /\ (j # 0 => j \in 1 .. n - 1)
  BY <1>0
<1>3. /\ S \in Table /\ Ordered(S) /\ Apart(S)
      /\ Live(S) = LiveTo(T, j) /\ Len(S) <= j
      /\ (j = 0 => S = <<>>)
      /\ (j # 0 => /\ S # <<>> /\ Before(S, End(T[j])) /\ End(Last(S)) = End(T[j])
                   /\ \/ Last(S) = T[j]
                      \/ Last(S).kind = "free" /\ T[j].kind = "free" /\ Last(S).base <= end /\ j >= f)
  BY <1>2 DEF JoinSoFar
<1>4. j # 0 => End(T[j]) \in Nat /\ End(T[j]) <= b /\ T[j] \in Region
  <2> SUFFICES ASSUME j # 0 PROVE End(T[j]) \in Nat /\ End(T[j]) <= b /\ T[j] \in Region
    OBVIOUS
  <2>1. j \in 1 .. n /\ k \in 1 .. n /\ j < k
    BY <1>0, <1>2
  <2>2. End(T[j]) <= T[k].base
    BY <1>0, <2>1 DEF Ordered
  <2> QED BY <1>0, <1>r, <1>1, <2>1, <2>2, TableIs
<1>5. Before(S, b) /\ Before(S, z)
  <2>1. CASE j = 0
    BY <1>3, <2>1, NoRegion
  <2>2. CASE j # 0
    <3>1. PICK e \in Nat : e = End(T[j]) /\ e <= b
      BY <1>4, <2>2
    <3>2. ASSUME NEW i \in 1 .. Len(S) PROVE End(S[i]) <= b /\ End(S[i]) <= z
      <4>1. PICK x \in Nat : x = End(S[i]) /\ x <= e
        BY <1>3, <2>2, <3>1, TableIs DEF Before
      <4> QED BY <1>1, <3>1, <4>1, SMTT(30)
    <3> QED BY <3>2 DEF Before
  <2> QED BY <2>1, <2>2
<1>6. LiveTo(T, k) = LiveTo(T, j) \cup (IF r.kind = "free" THEN {} ELSE {r})
  <2>1. k \in Nat /\ k # 0
    OBVIOUS
  <2> QED BY <1>r, <1>2, <2>1, LiveMore
<1>7. PICK U : U = JoinStep(S, r, k >= f, end)
  OBVIOUS
<1>8. k # 0 /\ k \in Nat
  OBVIOUS
<1>9. CASE k >= f /\ S # <<>> /\ Mergeable(Last(S), r) /\ Last(S).base <= end
  <2>1. PICK A, x : A = Front(S) /\ x = Last(S)
    OBVIOUS
  <2>2. Extended(S, A, x) /\ Mergeable(x, r) /\ x.base <= end
    BY <1>3, <1>9, <2>1, FrontExtends
  <2>3. A \in Table /\ x \in Region /\ Len(S) = Len(A) + 1
    BY <2>2, ExtendedIs
  <2>4. PICK m \in Region : m = Merged(x, r) /\ m.kind = "free" /\ m.base = x.base /\ End(m) = z
    BY <1>1, <2>2, <2>3, MergedIs
  <2>5. U = Append(A, m)
    BY <1>7, <1>9, <2>1, <2>4 DEF JoinStep
  <2>6. Extended(U, A, m)
    BY <2>3, <2>5, AppendExtends
  <2>7. x.kind = "free" /\ r.kind = "free"
    BY <2>2 DEF Mergeable
  <2>8. Ordered(A) /\ Before(A, m.base)
    BY <1>3, <2>2, <2>4, ExtendedIs
  <2>9. Ordered(U)
    BY <2>6, <2>8, ExtendedIs
  <2>10. Apart(U)
    <3>1. Apart(A) /\ (Len(A) # 0 => ~ Mergeable(A[Len(A)], x))
      BY <1>3, <2>2, ExtendedIs
    <3>2. Mergeable(A[Len(A)], m) => Mergeable(A[Len(A)], x)
      BY <2>4, <2>7 DEF Mergeable
    <3> QED BY <2>6, <3>1, <3>2, ExtendedIs
  <2>11. U \in Table /\ Len(U) = Len(A) + 1 /\ U # <<>> /\ Last(U) = m
    BY <2>6, ExtendedIs
  <2>12. Len(U) <= k
    <3>1. PICK l \in Nat : l = Len(U) /\ l = Len(S)
      BY <2>3, <2>11, TableIs
    <3> QED BY <1>2, <1>3, <3>1
  <2>13. Live(U) = LiveTo(T, k)
    <3>1. Live(S) = Live(A)
      BY <2>2, <2>7, ExtendedIs
    <3>2. Live(U) = Live(A)
      BY <2>4, <2>6, ExtendedIs
    <3> QED BY <1>3, <1>6, <2>7, <3>1, <3>2
  <2>14. Before(U, z)
    <3>1. Before(A, z)
      BY <1>5, <2>2, ExtendedIs
    <3>2. End(m) <= z
      BY <2>4
    <3> QED BY <2>6, <3>1, <3>2, ExtendedIs
  <2>15. Last(U).base <= end /\ Last(U).kind = "free" /\ End(Last(U)) = z /\ T[k].kind = "free" /\ k >= f
    BY <1>r, <1>9, <2>2, <2>4, <2>7, <2>11
  <2> QED BY <1>r, <1>1, <1>7, <1>8, <2>9, <2>10, <2>11, <2>12, <2>13, <2>14, <2>15 DEF JoinSoFar
<1>10. CASE ~(k >= f /\ S # <<>> /\ Mergeable(Last(S), r) /\ Last(S).base <= end)
  <2>1. U = Append(S, r)
    BY <1>7, <1>10 DEF JoinStep
  <2>2. Extended(U, S, r)
    BY <1>3, <2>1, AppendExtends
  <2>3. Ordered(U)
    BY <1>1, <1>3, <1>5, <2>2, ExtendedIs
  <2>4. Apart(U)
    <3> SUFFICES ASSUME Len(S) # 0, Mergeable(S[Len(S)], r) PROVE FALSE
      BY <1>3, <2>2, ExtendedIs
    <3>1. S # <<>> /\ Mergeable(Last(S), r)
      BY NoRegion DEF Last
    <3>2. j # 0
      BY <1>3, <3>1
    <3>3. Last(S).kind = "free" /\ r.kind = "free" /\ End(Last(S)) = b
      BY <1>1, <3>1 DEF Mergeable
    <3>4. CASE Last(S) = T[j]
      <4>1. j \in 1 .. n - 1 /\ Mergeable(T[j], T[j + 1])
        BY <1>r, <1>2, <3>1, <3>2, <3>4
      <4>2. <<T[j], T[j + 1]>> \in Near(start, end)
        BY <1>0, <4>1 DEF Touching
      <4>3. z > start /\ T[j].base <= end
        BY <1>r, <1>1, <1>2, <4>2 DEF Near
      <4>4. k >= f
        <5>1. k \in 1 .. n
          BY <1>0
        <5>2. k < f => End(T[k]) <= start
          BY <1>0, <5>1 DEF Parts
        <5> QED BY <1>r, <1>1, <4>3, <5>2
      <4> QED BY <1>10, <3>1, <3>4, <4>3, <4>4
    <3>5. CASE Last(S).base <= end /\ j >= f
      <4>1. k >= f
        BY <1>2, <3>5
      <4> QED BY <1>10, <3>1, <3>5, <4>1
    <3> QED BY <1>3, <3>2, <3>4, <3>5
  <2>5. U \in Table /\ Len(U) = Len(S) + 1 /\ U # <<>> /\ Last(U) = r
    BY <2>2, ExtendedIs
  <2>6. Len(U) <= k
    <3>1. PICK l \in Nat : l = Len(S)
      BY <1>3, TableIs
    <3> QED BY <1>2, <1>3, <2>5, <3>1
  <2>7. Before(U, z)
    <3>1. End(r) <= z
      BY <1>1
    <3> QED BY <1>5, <2>2, <3>1, ExtendedIs
  <2>8. Live(U) = LiveTo(T, k)
    <3>1. Live(U) = Live(S) \cup (IF r.kind = "free" THEN {} ELSE {r})
      BY <2>2, ExtendedIs
    <3> QED BY <1>3, <1>6, <3>1
  <2> QED BY <1>r, <1>1, <1>7, <1>8, <2>3, <2>4, <2>5, <2>6, <2>7, <2>8 DEF JoinSoFar
<1> QED BY <1>9, <1>10

\* What Coalesce makes of a table
LEMMA CoalesceIs ==
  ASSUME NEW T \in Table, Ordered(T), NEW start \in Nat, NEW end \in Nat, Touching(T, Near(start, end))
  PROVE  LET U == Coalesce(T, start, end) IN
         /\ U \in Table /\ Ordered(U) /\ Apart(U) /\ Live(U) = Live(T) /\ Len(U) <= Len(T)
         /\ \A addr \in Nat : Before(T, addr) => Before(U, addr)
<1>0. PICK n \in Nat : n = Len(T)
  BY TableIs
<1>1. PICK f \in Nat : f = FirstOverlap(T, start) /\ Parts(T, start, f)
  <2>1. Parts(T, start, FirstOverlap(T, start))
    BY FirstOverlapIs
  <2>2. FirstOverlap(T, start) \in 1 .. n + 1
    BY <1>0, <2>1 DEF Parts
  <2> QED BY <2>1, <2>2
<1>2. PICK c : c = CHOOSE d : IsJoining(d, T, f, end)
  OBVIOUS
<1>3. IsJoining(c, T, f, end) /\ Coalesce(T, start, end) = c[n]
  BY <1>0, <1>1, <1>2, JoiningExists, CoalesceDef
<1>4. \A k \in 0 .. n : c[k] = IF k = 0 THEN <<>> ELSE JoinStep(c[k - 1], T[k], k >= f, end)
  BY <1>0, <1>3 DEF IsJoining
<1> DEFINE G == {k \in 0 .. n : JoinSoFar(c[k], T, k, f, end)}
<1>5. 0 \in G
  <2>1. 0 \in 0 .. n
    OBVIOUS
  <2>2. c[0] = <<>>
    BY <1>4, <2>1
  <2>3. LiveTo(T, 0) = {}
    BY DEF LiveTo
  <2>4. JoinSoFar(<<>>, T, 0, f, end)
    BY <2>3, NoRegion DEF JoinSoFar
  <2> QED BY <2>1, <2>2, <2>4
<1>6. ASSUME NEW k \in 1 .. n, k - 1 \in G PROVE k \in G
  <2>1. k \in 0 .. n /\ k # 0
    OBVIOUS
  <2>2. c[k] = JoinStep(c[k - 1], T[k], k >= f, end)
    BY <1>4, <2>1
  <2>3. JoinSoFar(c[k], T, k, f, end)
    BY <1>0, <1>1, <1>6, <2>2, JoinMore
  <2> QED BY <2>1, <2>3
<1> HIDE DEF G
<1>7. \A k \in 0 .. n : k \in G
  BY <1>5, <1>6, Upwards
<1>8. n \in G
  BY <1>7
<1>9. PICK U : U = Coalesce(T, start, end) /\ JoinSoFar(U, T, n, f, end)
  BY <1>3, <1>8 DEF G
<1>10. Live(T) = LiveTo(T, n)
  BY <1>0 DEF Live, LiveTo
<1>11. ASSUME NEW addr \in Nat, Before(T, addr) PROVE Before(U, addr)
  <2>1. CASE n = 0
    BY <1>9, <2>1, NoRegion DEF JoinSoFar
  <2>2. CASE n # 0
    <3>1. n \in 1 .. n
      BY <2>2
    <3>2. PICK z \in Nat : z = End(T[n]) /\ z <= addr
      BY <1>0, <1>11, <3>1, TableIs DEF Before
    <3>3. U \in Table /\ Before(U, z)
      BY <1>9, <2>2, <3>2 DEF JoinSoFar
    <3>4. ASSUME NEW i \in 1 .. Len(U) PROVE End(U[i]) <= addr
      <4>1. PICK x \in Nat : x = End(U[i]) /\ x <= z
        BY <3>3, TableIs DEF Before
      <4> QED BY <3>2, <4>1
    <3> QED BY <3>4 DEF Before
  <2> QED BY <2>1, <2>2
<1> QED BY <1>0, <1>9, <1>10, <1>11 DEF JoinSoFar

\* Apart, in terms of Touching
LEMMA ApartIs == \A T : Apart(T) <=> Touching(T, {})
BY DEF Apart, Touching

\* What UnmapRange makes of a table, and CutAll in between
LEMMA UnmapRangeIs ==
  ASSUME NEW R \in Table, Ordered(R), Apart(R), NEW start \in Nat, NEW end \in Nat, start < end
  PROVE  LET C == CutAll(R, start, end)  U == UnmapRange(R, start, end) IN
         /\ U \in Table /\ Ordered(U) /\ Apart(U)
         /\ Live(U) = UNION {Pieces(r, start, end) : r \in Live(R)}
         /\ C \in Table /\ Len(U) <= Len(C) /\ Len(C) <= Len(R) + 2
         /\ (\A i \in 1 .. Len(R) : HeadCut(R[i], start) = 0 /\ TailCut(R[i], end) = 0) => Len(C) <= Len(R)
         /\ \A addr \in Nat : Before(R, addr) => Before(U, addr)
<1>0. PICK n \in Nat : n = Len(R)
  BY TableIs
<1>1. PICK C : C = CutAll(R, start, end) /\ CutSoFar(C, R, n, start, end)
  BY <1>0, CutAllIs
<1>2. /\ C \in Table /\ Ordered(C) /\ Touching(C, Near(start, end))
      /\ Live(C) = UNION {Pieces(r, start, end) : r \in LiveTo(R, n)}
      /\ Len(C) <= n + Heads(R, n, start) + Tails(R, n, end)
      /\ (n = 0 => C = <<>>)
      /\ (n # 0 => Before(C, End(R[n])))
  BY <1>1 DEF CutSoFar
<1>3. PICK U : U = UnmapRange(R, start, end) /\ U = Coalesce(C, start, end)
  BY <1>1 DEF UnmapRange
<1>4. /\ U \in Table /\ Ordered(U) /\ Apart(U) /\ Live(U) = Live(C) /\ Len(U) <= Len(C)
      /\ \A addr \in Nat : Before(C, addr) => Before(U, addr)
  BY <1>2, <1>3, CoalesceIs
<1>5. Live(R) = LiveTo(R, n)
  BY <1>0 DEF Live, LiveTo
<1>6. PICK h \in {0, 1}, t \in {0, 1}, l \in Nat :
        h = Heads(R, n, start) /\ t = Tails(R, n, end) /\ l = Len(C) /\ l <= n + h + t
  <2>1. Heads(R, n, start) \in {0, 1} /\ Tails(R, n, end) \in {0, 1}
    BY DEF Heads, Tails
  <2>2. Len(C) \in Nat
    BY <1>2, TableIs
  <2> QED BY <1>2, <2>1, <2>2
<1>7. l <= n + 2
  BY <1>6
<1>8. ASSUME \A i \in 1 .. n : HeadCut(R[i], start) = 0 /\ TailCut(R[i], end) = 0
      PROVE  l <= n
  <2>1. h = 0 /\ t = 0
    BY <1>6, <1>8 DEF Heads, Tails
  <2> QED BY <1>6, <2>1
<1>9. ASSUME NEW addr \in Nat, Before(R, addr) PROVE Before(C, addr)
  <2>1. CASE n = 0
    BY <1>2, <2>1, NoRegion
  <2>2. CASE n # 0
    <3>1. n \in 1 .. n
      BY <2>2
    <3>2. PICK z \in Nat : z = End(R[n]) /\ z <= addr
      BY <1>0, <1>9, <3>1, TableIs DEF Before
    <3>3. ASSUME NEW i \in 1 .. Len(C) PROVE End(C[i]) <= addr
      <4>1. PICK x \in Nat : x = End(C[i]) /\ x <= z
        BY <1>2, <2>2, <3>2, TableIs DEF Before
      <4> QED BY <3>2, <4>1
    <3> QED BY <3>3 DEF Before
  <2> QED BY <2>1, <2>2
<1>10. \A addr \in Nat : Before(R, addr) => Before(U, addr)
  BY <1>4, <1>9
<1>11. Live(U) = UNION {Pieces(r, start, end) : r \in Live(R)}
  BY <1>2, <1>4, <1>5
<1>12. C \in Table /\ Len(U) <= Len(C) /\ Len(C) <= Len(R) + 2
  BY <1>0, <1>2, <1>4, <1>6, <1>7
<1>13. (\A i \in 1 .. Len(R) : HeadCut(R[i], start) = 0 /\ TailCut(R[i], end) = 0) => Len(C) <= Len(R)
  BY <1>0, <1>6, <1>8
<1> QED BY <1>1, <1>3, <1>4, <1>10, <1>11, <1>12, <1>13

-----------------------------------------------------------------------------
(* A region of a table replaced by others.                                  *)

\* The parts of a table that is in order are.
LEMMA ConcatSplit ==
  ASSUME NEW S \in Table, NEW T \in Table
  PROVE  /\ Ordered(S \o T) => /\ Ordered(S) /\ Ordered(T)
                               /\ \A i \in 1 .. Len(S), j \in 1 .. Len(T) : End(S[i]) <= T[j].base
         /\ Apart(S \o T) => /\ Apart(S) /\ Apart(T)
                             /\ Len(S) # 0 /\ Len(T) # 0 => ~ Mergeable(S[Len(S)], T[1])
         /\ \A addr : Before(S \o T, addr) => Before(S, addr) /\ Before(T, addr)
<1>0. PICK m \in Nat, n \in Nat : m = Len(S) /\ n = Len(T)
  BY TableIs
<1>1. PICK U \in Table : U = S \o T
  BY ConcatIs
<1>2. Len(U) = m + n
  BY <1>0, <1>1, ConcatIs
<1>3. ASSUME NEW i \in 1 .. m PROVE i \in 1 .. m + n /\ U[i] = S[i]
  BY <1>0, <1>1, <1>2, ConcatPlaces
<1>4. ASSUME NEW i \in 1 .. n PROVE m + i \in 1 .. m + n /\ U[m + i] = T[i]
  BY <1>0, <1>1, <1>2, ConcatPlaces
<1>5. ASSUME Ordered(U), NEW i \in 1 .. m, NEW j \in 1 .. m, i < j PROVE End(S[i]) <= S[j].base
  <2>1. End(U[i]) <= U[j].base
    BY <1>2, <1>3, <1>5 DEF Ordered
  <2> QED BY <1>3, <2>1
<1>6. ASSUME Ordered(U), NEW i \in 1 .. n, NEW j \in 1 .. n, i < j PROVE End(T[i]) <= T[j].base
  <2>1. PICK a \in Nat, b \in Nat : a = m + i /\ b = m + j /\ a < b
    BY <1>6
  <2>2. a \in 1 .. m + n /\ b \in 1 .. m + n /\ U[a] = T[i] /\ U[b] = T[j]
    BY <1>4, <2>1
  <2> QED BY <1>2, <1>6, <2>1, <2>2 DEF Ordered
<1>7. ASSUME Ordered(U), NEW i \in 1 .. m, NEW j \in 1 .. n PROVE End(S[i]) <= T[j].base
  <2>1. PICK b \in Nat : b = m + j /\ i < b
    OBVIOUS
  <2>2. i \in 1 .. m + n /\ b \in 1 .. m + n /\ U[i] = S[i] /\ U[b] = T[j]
    BY <1>3, <1>4, <2>1
  <2> QED BY <1>2, <1>7, <2>1, <2>2 DEF Ordered
<1>8. ASSUME Apart(U), NEW i \in 1 .. m - 1 PROVE ~ Mergeable(S[i], S[i + 1])
  <2>1. i \in 1 .. m /\ i + 1 \in 1 .. m /\ i \in 1 .. m + n - 1
    OBVIOUS
  <2>2. ~ Mergeable(U[i], U[i + 1])
    BY <1>2, <1>8, <2>1 DEF Apart
  <2> QED BY <1>3, <2>1, <2>2
<1>9. ASSUME Apart(U), NEW i \in 1 .. n - 1 PROVE ~ Mergeable(T[i], T[i + 1])
  <2>1. i \in 1 .. n /\ i + 1 \in 1 .. n /\ m + i \in 1 .. m + n - 1 /\ m + (i + 1) = m + i + 1
    OBVIOUS
  <2>2. ~ Mergeable(U[m + i], U[m + i + 1])
    BY <1>2, <1>9, <2>1 DEF Apart
  <2>3. U[m + i] = T[i] /\ U[m + (i + 1)] = T[i + 1]
    BY <1>4, <2>1
  <2>4. U[m + i + 1] = T[i + 1]
    BY <2>1, <2>3
  <2> QED BY <2>2, <2>3, <2>4
<1>10. ASSUME Apart(U), m # 0, n # 0 PROVE ~ Mergeable(S[m], T[1])
  <2>1. m \in 1 .. m /\ 1 \in 1 .. n /\ m \in 1 .. m + n - 1
    BY <1>10
  <2>2. ~ Mergeable(U[m], U[m + 1])
    BY <1>2, <1>10, <2>1 DEF Apart
  <2> QED BY <1>3, <1>4, <2>1, <2>2
<1>11. ASSUME NEW addr, Before(U, addr) PROVE Before(S, addr) /\ Before(T, addr)
  <2>1. ASSUME NEW i \in 1 .. m PROVE End(S[i]) <= addr
    BY <1>2, <1>3, <1>11 DEF Before
  <2>2. ASSUME NEW i \in 1 .. n PROVE End(T[i]) <= addr
    <3>1. PICK a \in Nat : a = m + i
      OBVIOUS
    <3>2. a \in 1 .. m + n /\ U[a] = T[i]
      BY <1>4, <3>1
    <3> QED BY <1>2, <1>11, <3>2 DEF Before
  <2> QED BY <1>0, <2>1, <2>2 DEF Before
<1>12. Ordered(U) => /\ Ordered(S) /\ Ordered(T)
                     /\ \A i \in 1 .. Len(S), j \in 1 .. Len(T) : End(S[i]) <= T[j].base
  BY <1>0, <1>5, <1>6, <1>7 DEF Ordered
<1>13. Apart(U) => /\ Apart(S) /\ Apart(T)
                   /\ (Len(S) # 0 /\ Len(T) # 0 => ~ Mergeable(S[Len(S)], T[1]))
  BY <1>0, <1>8, <1>9, <1>10 DEF Apart
<1> QED BY <1>1, <1>11, <1>12, <1>13

\* R is A, p and B, one after the other.
Laid(R, A, p, B) == A \in Table /\ p \in Table /\ B \in Table /\ R = (A \o p) \o B

\* A table is what is before a region, the region and what is behind it.
LEMMA SplitAt ==
  ASSUME NEW R \in Table, NEW i \in 1 .. Len(R)
  PROVE  Laid(R, SubSeq(R, 1, i - 1), <<R[i]>>, SubSeq(R, i + 1, Len(R)))
<1>0. PICK n \in Nat : n = Len(R)
  BY TableIs
<1>1. R \in Seq(Region) /\ R[i] \in Region
  BY TableIs DEF Table
<1>2. i \in 1 .. n /\ 1 \in 1 .. n + 1 /\ i \in 1 - 1 .. n /\ n \in i .. n /\ 1 \in 1 .. n /\ i \in 1 .. n
  BY <1>0
<1>3. SubSeq(R, 1, i) \o SubSeq(R, i + 1, n) = SubSeq(R, 1, n)
  BY <1>0, <1>1, <1>2, ConcatAdjacentSubSeq
<1>4. SubSeq(R, 1, i) = SubSeq(R, 1, i - 1) \o <<R[i]>>
  BY <1>0, <1>1, <1>2, SubSeqRecursiveSecond
<1>5. SubSeq(R, 1, n) = R
  BY <1>0, <1>1, SubSeqFull
<1>6. \A j \in 1 .. i - 1 : R[j] \in Region
  <2>1. \A j \in 1 .. i - 1 : j \in 1 .. n
    BY <1>2
  <2> QED BY <1>0, <2>1, TableIs
<1>7. \A j \in i + 1 .. n : R[j] \in Region
  <2>1. \A j \in i + 1 .. n : j \in 1 .. n
    BY <1>2
  <2> QED BY <1>0, <2>1, TableIs
<1>8. SubSeq(R, 1, i - 1) \in Table
  <2>1. 1 \in Int /\ i - 1 \in Int
    BY <1>2
  <2> QED BY <1>6, <2>1, SubSeqProperties DEF Table
<1>9. SubSeq(R, i + 1, n) \in Table
  <2>1. i + 1 \in Int /\ n \in Int
    BY <1>2
  <2> QED BY <1>7, <2>1, SubSeqProperties DEF Table
<1>10. <<R[i]>> \in Table
  BY <1>1, OneRegion
<1> QED BY <1>0, <1>3, <1>4, <1>5, <1>8, <1>9, <1>10 DEF Laid

\* A table of which one region is replaced
LEMMA ExceptIs ==
  ASSUME NEW R \in Table, NEW i \in 1 .. Len(R), NEW x \in Region
  PROVE  LET E == [R EXCEPT ![i] = x] IN
         /\ E \in Table /\ Len(E) = Len(R) /\ E[i] = x
         /\ SubSeq(E, 1, i - 1) = SubSeq(R, 1, i - 1)
         /\ SubSeq(E, i + 1, Len(R)) = SubSeq(R, i + 1, Len(R))
         /\ SubSeq(E, i, Len(E)) = <<x>> \o SubSeq(R, i + 1, Len(R))
<1>0. PICK n \in Nat : n = Len(R)
  BY TableIs
<1>1. R \in Seq(Region) /\ DOMAIN R = 1 .. n /\ \A j \in 1 .. n : R[j] \in Region
  BY <1>0, TableIs DEF Table
<1>2. PICK E : E = [R EXCEPT ![i] = x]
  OBVIOUS
<1>3. E \in Seq(Region) /\ Len(E) = n /\ \A j \in 1 .. n : E[j] = IF j = i THEN x ELSE R[j]
  BY <1>0, <1>1, <1>2, ExceptSeq
<1>4. i \in 1 .. n /\ n \in i .. n /\ i - 1 \in Int /\ i + 1 \in Int
  BY <1>0
<1>5. SubSeq(E, 1, i - 1) = SubSeq(R, 1, i - 1)
  <2>1. \A j \in 1 .. i - 1 : j \in 1 .. n /\ j # i /\ 1 + j - 1 = j
    BY <1>4
  <2>2. \A j \in 1 .. i - 1 : R[j] \in Region /\ E[j] = R[j]
    BY <1>1, <1>3, <2>1
  <2>3. i - 1 - 1 + 1 = i - 1
    BY <1>4
  <2>4. /\ SubSeq(R, 1, i - 1) \in Seq(Region)
        /\ Len(SubSeq(R, 1, i - 1)) = (IF 1 <= i - 1 THEN i - 1 - 1 + 1 ELSE 0)
        /\ \A j \in 1 .. i - 1 - 1 + 1 : SubSeq(R, 1, i - 1)[j] = R[1 + j - 1]
    BY <1>4, <2>2, SubSeqProperties
  <2>5. /\ SubSeq(E, 1, i - 1) \in Seq(Region)
        /\ Len(SubSeq(E, 1, i - 1)) = (IF 1 <= i - 1 THEN i - 1 - 1 + 1 ELSE 0)
        /\ \A j \in 1 .. i - 1 - 1 + 1 : SubSeq(E, 1, i - 1)[j] = E[1 + j - 1]
    BY <1>4, <2>2, SubSeqProperties
  <2>6. Len(SubSeq(E, 1, i - 1)) = i - 1 /\ Len(SubSeq(R, 1, i - 1)) = i - 1
    BY <1>4, <2>4, <2>5
  <2>7. \A j \in 1 .. i - 1 : SubSeq(E, 1, i - 1)[j] = SubSeq(R, 1, i - 1)[j]
    BY <2>1, <2>2, <2>3, <2>4, <2>5
  <2> QED BY <2>4, <2>5, <2>6, <2>7, SeqEqual
<1>6. SubSeq(E, i + 1, n) = SubSeq(R, i + 1, n)
  <2>1. \A j \in i + 1 .. n : j \in 1 .. n /\ j # i
    BY <1>4
  <2>2. \A j \in i + 1 .. n : R[j] \in Region /\ E[j] = R[j]
    BY <1>1, <1>3, <2>1
  <2>3. \A j \in 1 .. n - (i + 1) + 1 : i + 1 + j - 1 \in i + 1 .. n
    BY <1>4
  <2>4. /\ SubSeq(R, i + 1, n) \in Seq(Region)
        /\ Len(SubSeq(R, i + 1, n)) = (IF i + 1 <= n THEN n - (i + 1) + 1 ELSE 0)
        /\ \A j \in 1 .. n - (i + 1) + 1 : SubSeq(R, i + 1, n)[j] = R[i + 1 + j - 1]
    BY <1>4, <2>2, SubSeqProperties
  <2>5. /\ SubSeq(E, i + 1, n) \in Seq(Region)
        /\ Len(SubSeq(E, i + 1, n)) = (IF i + 1 <= n THEN n - (i + 1) + 1 ELSE 0)
        /\ \A j \in 1 .. n - (i + 1) + 1 : SubSeq(E, i + 1, n)[j] = E[i + 1 + j - 1]
    BY <1>4, <2>2, SubSeqProperties
  <2>6. (IF i + 1 <= n THEN n - (i + 1) + 1 ELSE 0) = n - (i + 1) + 1
    BY <1>4
  <2>7. \A j \in 1 .. n - (i + 1) + 1 : SubSeq(E, i + 1, n)[j] = SubSeq(R, i + 1, n)[j]
    BY <2>2, <2>3, <2>4, <2>5
  <2>8. Len(SubSeq(E, i + 1, n)) = n - (i + 1) + 1 /\ Len(SubSeq(R, i + 1, n)) = n - (i + 1) + 1
    BY <2>4, <2>5, <2>6
  <2> QED BY <2>4, <2>5, <2>7, <2>8, SeqEqual
<1>7. SubSeq(E, i, n) = <<E[i]>> \o SubSeq(E, i + 1, n)
  BY <1>3, <1>4, SubSeqRecursiveFirst
<1>8. E[i] = x
  BY <1>3, <1>4
<1>9. SubSeq(E, i, n) = <<x>> \o SubSeq(R, i + 1, n)
  BY <1>6, <1>7, <1>8
<1> QED BY <1>0, <1>2, <1>3, <1>5, <1>6, <1>8, <1>9 DEF Table

\* The regions of p take the place of the free region r.
Fills(p, r) ==
  /\ r \in Region /\ r.kind = "free"
  /\ Len(p) >= 1 /\ Ordered(p) /\ Apart(p) /\ Behind(p, r.base) /\ Before(p, End(r))
  /\ p[1].kind # "free"
  /\ p[Len(p)].kind = "free" => End(p[Len(p)]) = End(r)

\* A free region replaced by what fills it: the table stays in order and merged.
LEMMA ReplacedIs ==
  ASSUME NEW R \in Table, Ordered(R), Apart(R), NEW r,
         NEW A, NEW B, NEW p, NEW U, Laid(R, A, <<r>>, B), Laid(U, A, p, B), Fills(p, r)
  PROVE  /\ U \in Table /\ Ordered(U) /\ Apart(U)
         /\ Live(U) = Live(R) \cup Live(p)
         /\ Len(U) + 1 = Len(R) + Len(p)
         /\ Len(A) + 1 \in 1 .. Len(U) /\ U[Len(A) + 1] = p[1]
         /\ \A addr \in Nat : Before(R, addr) => Before(U, addr)
         /\ \A s \in Live(R) : End(s) <= r.base \/ s.base >= End(r)
<1>f. /\ r \in Region /\ r.kind = "free"
      /\ Len(p) >= 1 /\ Ordered(p) /\ Apart(p) /\ Behind(p, r.base) /\ Before(p, End(r))
      /\ p[1].kind # "free"
      /\ (p[Len(p)].kind = "free" => End(p[Len(p)]) = End(r))
  BY DEF Fills
<1> USE <1>f
<1>0. PICK b \in Nat, z \in Nat : b = r.base /\ z = End(r) /\ b < z
  BY RegionIs
<1>1. A \in Table /\ p \in Table /\ B \in Table /\ <<r>> \in Table
  BY DEF Laid
<1>2. PICK q : q = <<r>>
  OBVIOUS
<1>3. PICK S : S = A \o q
  OBVIOUS
<1>4. PICK V : V = A \o p
  OBVIOUS
<1>5. R = S \o B /\ U = V \o B
  BY <1>2, <1>3, <1>4 DEF Laid
<1>6. Extended(S, A, r)
  BY <1>1, <1>2, <1>3 DEF Extended
<1>7. S \in Table /\ Len(S) = Len(A) + 1 /\ S # <<>> /\ S[Len(S)] = r /\ Live(S) = Live(A)
  BY <1>6, ExtendedIs
<1>8. PICK m \in Nat, n \in Nat, l \in Nat \ {0} : m = Len(A) /\ n = Len(B) /\ l = Len(p) /\ m + 1 = Len(S)
  <2>1. Len(A) \in Nat /\ Len(B) \in Nat /\ Len(p) \in Nat
    BY <1>1, TableIs
  <2>2. Len(p) # 0
    BY <2>1
  <2> QED BY <1>7, <2>1, <2>2
<1>9. /\ Ordered(S) /\ Ordered(B) /\ Apart(S) /\ Apart(B)
      /\ \A i \in 1 .. Len(S), j \in 1 .. Len(B) : End(S[i]) <= B[j].base
      /\ (Len(S) # 0 /\ Len(B) # 0 => ~ Mergeable(S[Len(S)], B[1]))
  BY <1>1, <1>5, <1>7, ConcatSplit
<1>10. Ordered(A) /\ Before(A, b) /\ Apart(A)
  BY <1>0, <1>6, <1>9, ExtendedIs
<1>11. Behind(B, z)
  <2>1. m + 1 \in 1 .. Len(S)
    BY <1>8
  <2>2. ASSUME NEW j \in 1 .. Len(B) PROVE B[j].base >= z
    <3>1. End(S[m + 1]) <= B[j].base
      BY <1>9, <2>1
    <3>2. B[j].base \in Nat
      BY <1>1, TableIs
    <3> QED BY <1>0, <1>7, <1>8, <3>1, <3>2
  <2> QED BY <2>2 DEF Behind
<1>12. V \in Table /\ Len(V) = m + l /\ U \in Table /\ Len(U) = m + l + n /\ Len(R) = m + 1 + n
  <2>1. V \in Table /\ Len(V) = Len(A) + Len(p)
    BY <1>1, <1>4, ConcatIs
  <2>2. U \in Table /\ Len(U) = Len(V) + Len(B)
    BY <1>1, <1>5, <2>1, ConcatIs
  <2>3. Len(R) = Len(S) + Len(B)
    BY <1>1, <1>5, <1>7, ConcatIs
  <2> QED BY <1>8, <2>1, <2>2, <2>3
<1>13. Ordered(V) /\ Before(V, z)
  <2>1. Ordered(V)
    BY <1>0, <1>1, <1>4, <1>10, OrderedConcat
  <2>2. Before(A, z)
    <3>1. ASSUME NEW i \in 1 .. Len(A) PROVE End(A[i]) <= z
      <4>1. PICK x \in Nat : x = End(A[i]) /\ x <= b
        BY <1>1, <1>10, TableIs DEF Before
      <4> QED BY <1>0, <4>1
    <3> QED BY <3>1 DEF Before
  <2> QED BY <1>0, <1>1, <1>4, <2>1, <2>2, BoundsConcat
<1>14. Ordered(U)
  BY <1>1, <1>5, <1>9, <1>11, <1>12, <1>13, OrderedConcat
<1>15. V[Len(V)] = p[Len(p)] /\ V[m + 1] = p[1]
  <2>1. l \in 1 .. Len(p) /\ 1 \in 1 .. Len(p)
    BY <1>8
  <2>2. V[Len(A) + l] = p[l] /\ V[Len(A) + 1] = p[1]
    <3>1. \A k \in 1 .. Len(p) : V[Len(A) + k] = p[k]
      <4> HIDE <1>f
      <4>1. A \in Table /\ p \in Table
        BY <1>1
      <4>2. \A k \in 1 .. Len(p) : (A \o p)[Len(A) + k] = p[k]
        BY <4>1, ConcatPlaces, Zenon
      <4> QED BY <1>4, <4>2
    <3> QED BY <2>1, <3>1, Zenon
  <2> QED BY <1>8, <1>12, <2>2
<1>16. Touching(V, {})
  <2>1. ~ Mergeable(A[Len(A)], p[1])
    BY DEF Mergeable
  <2>2. Touching(A, {}) /\ Touching(p, {})
    BY <1>10, ApartIs
  <2> QED BY <1>1, <1>4, <2>1, <2>2, TouchingConcat
<1>17. Apart(U)
  <2>1. ASSUME Len(B) # 0, Mergeable(V[Len(V)], B[1]) PROVE FALSE
    <3>1. p[Len(p)].kind = "free" /\ B[1].kind = "free" /\ End(p[Len(p)]) = B[1].base
      BY <1>15, <2>1 DEF Mergeable
    <3>2. Mergeable(r, B[1])
      BY <3>1 DEF Mergeable
    <3>3. Len(S) # 0
      BY <1>8
    <3> QED BY <1>7, <1>9, <2>1, <3>2, <3>3
  <2>2. Touching(B, {})
    BY <1>9, ApartIs
  <2>3. Touching(U, {})
    BY <1>1, <1>5, <1>12, <1>16, <2>1, <2>2, TouchingConcat
  <2> QED BY <2>3, ApartIs
<1>18. Live(U) = Live(R) \cup Live(p)
  <2>1. Live(V) = Live(A) \cup Live(p) /\ Live(U) = Live(V) \cup Live(B)
    BY <1>1, <1>4, <1>5, <1>12, LiveConcat
  <2>2. Live(R) = Live(S) \cup Live(B)
    BY <1>1, <1>5, <1>7, LiveConcat
  <2> QED BY <1>7, <2>1, <2>2
<1>19. m + 1 \in 1 .. Len(U) /\ U[m + 1] = p[1]
  <2>1. m + 1 \in 1 .. Len(V)
    BY <1>8, <1>12
  <2>2. m + 1 \in 1 .. Len(U) /\ U[m + 1] = V[m + 1]
    BY <1>1, <1>5, <1>12, <2>1, ConcatPlaces, SMTT(30)
  <2> QED BY <1>15, <2>2
<1>20. ASSUME NEW addr \in Nat, Before(R, addr) PROVE Before(U, addr)
  <2>1. Before(S, addr) /\ Before(B, addr)
    BY <1>1, <1>5, <1>7, <1>20, ConcatSplit
  <2>2. Before(A, addr) /\ z <= addr
    BY <1>0, <1>6, <2>1, ExtendedIs
  <2>3. ASSUME NEW i \in 1 .. Len(p) PROVE End(p[i]) <= addr
    <3>1. PICK x \in Nat : x = End(p[i]) /\ x <= z
      BY <1>0, <1>1, TableIs DEF Before
    <3> QED BY <2>2, <3>1
  <2>4. Before(p, addr)
    BY <2>3 DEF Before
  <2> QED BY <1>1, <1>4, <1>5, <1>12, <2>1, <2>2, <2>4, BoundsConcat
<1>21. ASSUME NEW s \in Live(R) PROVE End(s) <= b \/ s.base >= z
  <2>1. s \in Live(A) \/ s \in Live(B)
    <3>1. Live(R) = Live(S) \cup Live(B)
      BY <1>1, <1>5, <1>7, LiveConcat
    <3> QED BY <1>7, <3>1
  <2> QED BY <1>10, <1>11, <2>1 DEF Live, Before, Behind
<1>22. Len(U) + 1 = Len(R) + Len(p)
  BY <1>8, <1>12
<1> QED BY <1>0, <1>8, <1>12, <1>14, <1>17, <1>18, <1>19, <1>20, <1>21, <1>22

-----------------------------------------------------------------------------
(* Acquired                                                                 *)

NewRegion(base, len, kind) ==
  [base |-> base, len |-> len, kind |-> kind, dirty |-> FALSE, fref |-> NULL, off |-> 0, dlen |-> 0]

\* q is the table with a new region for len units of kind at base.
AcquiredOK(q, base, len, kind) ==
  /\ q.regs \in Table /\ Ordered(q.regs) /\ Apart(q.regs)
  /\ q.idx \in 1 .. Len(q.regs) /\ q.regs[q.idx] = NewRegion(base, len, kind)
  /\ Live(q.regs) = Live(regs) \cup {NewRegion(base, len, kind)}
  /\ Len(q.regs) <= Len(regs) + 1
  /\ q.brk \in Nat /\ q.brk >= brk /\ Before(q.regs, q.brk)
  /\ \A s \in Live(regs) : End(s) <= base \/ s.base >= base + len

\* Where the new region is: in the first free one that is long enough, or
\* behind everything else.
AcquiredAt(len, base) == base = IF Fits(len) = {} THEN brk ELSE regs[Min(Fits(len))].base

TableOK ==
  /\ regs \in Table /\ Ordered(regs) /\ Apart(regs)
  /\ brk \in Nat /\ Before(regs, brk)

\* The fields of the new region
LEMMA NewRegionIs ==
  ASSUME NEW base \in Nat, NEW len \in Nat \ {0}, NEW kind \in {"anon", "file"}
  PROVE  /\ NewRegion(base, len, kind) \in Region /\ NewRegion(base, len, kind).kind = kind
         /\ NewRegion(base, len, kind).kind # "free" /\ NewRegion(base, len, kind).base = base
         /\ End(NewRegion(base, len, kind)) = base + len
         /\ NewRegion(base, len, kind).fref = NULL
BY DEF NewRegion, Region, End, NULL

\* Inserting behind the last region appends.
LEMMA InsertAtEnd ==
  ASSUME NEW R \in Table, NEW x \in Region
  PROVE  InsertAt(R, Len(R) + 1, x) = Append(R, x)
<1>0. PICK n \in Nat : n = Len(R)
  BY TableIs
<1>1. R \in Seq(Region)
  BY DEF Table
<1>2. n + 1 - 1 = n /\ n < n + 1 /\ n \in Int /\ n + 1 \in Int
  OBVIOUS
<1>3. SubSeq(R, 1, n) = R
  BY <1>0, <1>1, SubSeqFull
<1>4. SubSeq(R, n + 1, n) = <<>>
  BY <1>2, SubSeqEmpty
<1>5. PICK U : U = R \o <<x>>
  OBVIOUS
<1>6. U \in Seq(Region) /\ Append(R, x) = U
  BY <1>5, OneMore DEF Table
<1>7. U \o <<>> = U
  BY <1>6, ConcatEmptySeq
<1>8. InsertAt(R, n + 1, x) = SubSeq(R, 1, n + 1 - 1) \o <<x>> \o SubSeq(R, n + 1, n)
  BY <1>0 DEF InsertAt
<1> QED BY <1>0, <1>2, <1>3, <1>4, <1>5, <1>6, <1>7, <1>8

\* Memory grows.
LEMMA AcquiredGrows ==
  ASSUME TableOK, NEW len \in Nat \ {0}, NEW kind \in {"anon", "file"}, Fits(len) = {}
  PROVE  AcquiredOK(Acquired(len, kind), brk, len, kind)
<1>0. regs \in Table /\ Ordered(regs) /\ Apart(regs) /\ brk \in Nat /\ Before(regs, brk)
  BY DEF TableOK
<1>1. PICK n \in Nat : n = Len(regs)
  BY <1>0, TableIs
<1>2. PICK j : j = FirstOverlap(regs, brk)
  OBVIOUS
<1>3. j = n + 1
  <2>1. Parts(regs, brk, j)
    BY <1>0, <1>2, FirstOverlapIs
  <2>2. j \in 1 .. n + 1 /\ (j \in 1 .. n => End(regs[j]) > brk)
    BY <1>1, <2>1 DEF Parts
  <2>3. j \in 1 .. n => End(regs[j]) \in Nat /\ End(regs[j]) <= brk
    BY <1>0, <1>1, TableIs DEF Before
  <2>4. j \notin 1 .. n
    <3> SUFFICES ASSUME j \in 1 .. n PROVE FALSE
      OBVIOUS
    <3>1. PICK e \in Nat : e = End(regs[j])
      BY <2>3
    <3> QED BY <1>0, <2>2, <2>3, <3>1
  <2> QED BY <2>2, <2>4
<1>4. PICK x \in Region : /\ x = NewRegion(brk, len, kind) /\ x.kind # "free" /\ x.base = brk
                          /\ End(x) = brk + len
  <2>1. PICK b \in Nat : b = brk
    BY <1>0
  <2>2. /\ NewRegion(b, len, kind) \in Region
        /\ NewRegion(b, len, kind).kind # "free" /\ NewRegion(b, len, kind).base = b
        /\ End(NewRegion(b, len, kind)) = b + len
    BY NewRegionIs, ZenonT(60)
  <2> QED BY <2>1, <2>2
<1>5. PICK q : q = Acquired(len, kind)
  OBVIOUS
<1>6. q = [idx |-> j, regs |-> InsertAt(regs, j, x), zero |-> {}, brk |-> brk + len]
  BY <1>2, <1>4, <1>5 DEF Acquired, NewRegion
<1>7. PICK U : U = q.regs
  OBVIOUS
<1>8. U = Append(regs, x) /\ q.idx = n + 1 /\ q.brk = brk + len
  BY <1>0, <1>1, <1>3, <1>6, <1>7, InsertAtEnd
<1>9. Extended(U, regs, x)
  BY <1>0, <1>8, AppendExtends
<1>10. U \in Table /\ Len(U) = n + 1 /\ U[n + 1] = x
  BY <1>1, <1>9, ExtendedIs
<1>11. Live(U) = Live(regs) \cup {x}
  <2>1. Live(U) = Live(regs) \cup (IF x.kind = "free" THEN {} ELSE {x})
    BY <1>9, ExtendedIs
  <2> QED BY <1>4, <2>1
<1>12. Ordered(U)
  BY <1>0, <1>4, <1>9, ExtendedIs
<1>13. Apart(U)
  <2>1. ~ Mergeable(regs[Len(regs)], x)
    BY <1>4 DEF Mergeable
  <2> QED BY <1>0, <1>9, <2>1, ExtendedIs
<1>14. Before(U, brk + len)
  <2>1. ASSUME NEW i \in 1 .. Len(regs) PROVE End(regs[i]) <= brk + len
    <3>1. PICK e \in Nat : e = End(regs[i]) /\ e <= brk
      BY <1>0, TableIs DEF Before
    <3> QED BY <1>0, <3>1
  <2>2. Before(regs, brk + len) /\ End(x) <= brk + len
    BY <1>0, <1>4, <2>1 DEF Before
  <2> QED BY <1>9, <2>2, ExtendedIs
<1>15. \A s \in Live(regs) : End(s) <= brk
  BY <1>0 DEF Live, Before
<1>16. n + 1 \in 1 .. n + 1 /\ n + 1 <= n + 1 /\ brk + len \in Nat /\ brk + len >= brk
  BY <1>0
<1> QED BY <1>1, <1>4, <1>5, <1>7, <1>8, <1>10, <1>11, <1>12, <1>13, <1>14, <1>15, <1>16 DEF AcquiredOK

\* The region that fits
LEMMA FitsIs ==
  ASSUME TableOK, NEW len \in Nat \ {0}, Fits(len) # {}
  PROVE  /\ Min(Fits(len)) \in 1 .. Len(regs)
         /\ LET r == regs[Min(Fits(len))] IN r \in Region /\ r.kind = "free" /\ r.len >= len
<1>1. regs \in Table
  BY DEF TableOK
<1>2. Fits(len) \subseteq 1 .. Len(regs) /\ Len(regs) \in Nat
  BY <1>1, TableIs DEF Fits
<1>3. Fits(len) \subseteq Nat
  BY <1>2
<1>4. PICK i : i = Min(Fits(len)) /\ i \in Fits(len)
  BY <1>3, MinOfNaturals
<1>5. i \in 1 .. Len(regs) /\ regs[i].kind = "free" /\ regs[i].len >= len
  BY <1>2, <1>4 DEF Fits
<1> QED BY <1>1, <1>4, <1>5, TableIs

\* The number of regions before one
LEMMA SubSeqLen ==
  ASSUME NEW R \in Table, NEW i \in 1 .. Len(R)
  PROVE  Len(SubSeq(R, 1, i - 1)) + 1 = i
<1>0. PICK n \in Nat : n = Len(R)
  BY TableIs
<1>1. \A j \in 1 .. i - 1 : R[j] \in Region
  <2>1. \A j \in 1 .. i - 1 : j \in 1 .. n
    BY <1>0
  <2> QED BY <1>0, <2>1, TableIs
<1>2. 1 \in Int /\ i - 1 \in Int
  BY <1>0
<1>3. Len(SubSeq(R, 1, i - 1)) = IF 1 <= i - 1 THEN i - 1 - 1 + 1 ELSE 0
  BY <1>1, <1>2, SubSeqProperties
<1> QED BY <1>0, <1>3

\* The region i, and what is before and behind it
Around(i, r, A, B) ==
  i \in 1 .. Len(regs) /\ r = regs[i] /\ A = SubSeq(regs, 1, i - 1) /\ B = SubSeq(regs, i + 1, Len(regs))

\* p is the new region, and maybe the rest of the free region r.
NewIn(p, r, len, kind) ==
  /\ Fills(p, r) /\ p[1] = NewRegion(r.base, len, kind)
  /\ Live(p) = {p[1]} /\ Len(p) <= 2 /\ r.len >= len

\* A table in which a new region, and the rest, fill a free one
LEMMA AcquiredFrom ==
  ASSUME TableOK, NEW len \in Nat \ {0}, NEW kind \in {"anon", "file"},
         NEW i, NEW r, NEW A, NEW B, NEW p, NEW q,
         Around(i, r, A, B), NewIn(p, r, len, kind), Laid(q.regs, A, p, B), q.idx = i, q.brk = brk
  PROVE  AcquiredOK(q, r.base, len, kind)
<1>0. regs \in Table /\ Ordered(regs) /\ Apart(regs) /\ brk \in Nat /\ Before(regs, brk)
  BY DEF TableOK
<1>1. Laid(regs, A, <<r>>, B) /\ Len(A) + 1 = i
  BY <1>0, SplitAt, SubSeqLen DEF Around
<1>p. Fills(p, r) /\ p[1] = NewRegion(r.base, len, kind) /\ Live(p) = {p[1]} /\ Len(p) <= 2 /\ r.len >= len
  BY DEF NewIn
<1>r. r \in Region
  BY <1>p DEF Fills
<1>2. PICK U : U = q.regs
  OBVIOUS
<1>3. /\ U \in Table /\ Ordered(U) /\ Apart(U)
      /\ Live(U) = Live(regs) \cup Live(p)
      /\ Len(U) + 1 = Len(regs) + Len(p)
      /\ Len(A) + 1 \in 1 .. Len(U) /\ U[Len(A) + 1] = p[1]
      /\ \A addr \in Nat : Before(regs, addr) => Before(U, addr)
      /\ \A s \in Live(regs) : End(s) <= r.base \/ s.base >= End(r)
  <2>1. Laid(U, A, p, B)
    BY <1>2
  <2> QED BY <1>0, <1>1, <1>p, <2>1, ReplacedIs
<1>4. Len(U) <= Len(regs) + 1
  <2>1. p \in Table
    BY DEF Laid
  <2>2. PICK m \in Nat, n \in Nat, l \in Nat : m = Len(U) /\ n = Len(regs) /\ l = Len(p)
    BY <1>0, <1>3, <2>1, TableIs
  <2>3. m + 1 = n + l /\ l <= 2
    BY <1>p, <1>3, <2>2
  <2> QED BY <2>2, <2>3
<1>5. \A s \in Live(regs) : End(s) <= r.base \/ s.base >= r.base + len
  <2>1. PICK b \in Nat, l \in Nat : b = r.base /\ l = r.len /\ End(r) = b + l /\ l >= len
    BY <1>p, <1>r, RegionIs
  <2>2. ASSUME NEW s \in Live(regs), s.base >= b + l PROVE s.base >= b + len
    <3>1. PICK c \in Nat : c = s.base /\ c >= b + l
      BY <1>0, <2>2, TableIs DEF Live
    <3>2. l >= len
      BY <2>1
    <3>3. c >= b + len
      BY <3>1, <3>2
    <3> QED BY <3>1, <3>3
  <2> QED BY <1>3, <2>1, <2>2
<1>6. Before(U, brk) /\ brk >= brk
  BY <1>0, <1>3
<1> QED BY <1>0, <1>1, <1>2, <1>p, <1>3, <1>4, <1>5, <1>6 DEF AcquiredOK

\* Concatenation of tables is associative.
LEMMA TablesAssociate ==
  ASSUME NEW A \in Table, NEW B \in Table, NEW C \in Table
  PROVE  (A \o B) \o C = A \o (B \o C)
<1>1. A \in Seq(Region) /\ B \in Seq(Region) /\ C \in Seq(Region)
  BY DEF Table
<1> QED BY <1>1

\* The free region has just the length: nothing of it is left.
LEMMA NewAlone ==
  ASSUME NEW r \in Region, r.kind = "free", NEW len \in Nat \ {0}, NEW kind \in {"anon", "file"},
         r.len >= len, r.len <= len
  PROVE  LET p == <<NewRegion(r.base, len, kind)>> IN p \in Table /\ NewIn(p, r, len, kind)
<1>1. PICK b \in Nat : b = r.base /\ End(r) = b + len
  BY RegionIs
<1>2. PICK x \in Region : x = NewRegion(b, len, kind) /\ x.kind # "free" /\ x.base = b /\ End(x) = b + len
  <2>1. /\ NewRegion(b, len, kind) \in Region
        /\ NewRegion(b, len, kind).kind # "free" /\ NewRegion(b, len, kind).base = b
        /\ End(NewRegion(b, len, kind)) = b + len
    BY NewRegionIs, ZenonT(60)
  <2> QED BY <2>1
<1>3. PICK p : p = <<x>>
  OBVIOUS
<1>4. /\ p \in Table /\ Len(p) = 1 /\ p[1] = x /\ Ordered(p) /\ Touching(p, {})
      /\ Live(p) = (IF x.kind = "free" THEN {} ELSE {x})
      /\ \A addr : (Before(p, addr) <=> End(x) <= addr) /\ (Behind(p, addr) <=> x.base >= addr)
  BY <1>3, OneRegion
<1>5. Before(p, End(r)) /\ Behind(p, r.base)
  <2>1. End(x) <= End(r) /\ x.base >= r.base
    BY <1>1, <1>2
  <2> QED BY <1>4, <2>1
<1>6. Apart(p)
  BY <1>4, ApartIs
<1>7. Live(p) = {p[1]} /\ Len(p) >= 1 /\ Len(p) <= 2 /\ r.len >= len /\ p[Len(p)] = x
  BY <1>2, <1>4
<1>8. Fills(p, r)
  BY <1>2, <1>4, <1>5, <1>6, <1>7 DEF Fills
<1> QED BY <1>1, <1>2, <1>3, <1>4, <1>7, <1>8 DEF NewIn

\* The rest of a free region
LEMMA RestIs ==
  ASSUME NEW r \in Region, r.kind = "free", NEW len \in Nat \ {0}, r.len > len
  PROVE  \E y \in Region : /\ y = [r EXCEPT !.base = @ + len, !.len = @ - len] /\ y.kind = "free"
                            /\ y.base = r.base + len /\ End(y) = End(r)
<1>1. PICK b \in Nat, l \in Nat : b = r.base /\ l = r.len /\ End(r) = b + l /\ l > len
  BY RegionIs
<1>2. PICK c \in Nat, m \in Nat \ {0} : c = b + len /\ m = l - len /\ c + m = b + l
  <2>1. l > len
    BY <1>1
  <2>2. b + len \in Nat /\ l - len \in Nat \ {0} /\ (b + len) + (l - len) = b + l
    BY <2>1
  <2> QED BY <2>2
<1>3. PICK y : y = [r EXCEPT !.base = @ + len, !.len = @ - len]
  OBVIOUS
<1>4. y = [r EXCEPT !.base = c, !.len = m]
  BY <1>1, <1>2, <1>3
<1>5. y \in Region /\ y.kind = "free" /\ y.base = c /\ y.len = m
  BY <1>4 DEF Region
<1> QED BY <1>1, <1>2, <1>3, <1>5 DEF End

\* The free region is longer: its rest stays free, behind the new one.
LEMMA NewBeforeRest ==
  ASSUME NEW r \in Region, r.kind = "free", NEW len \in Nat \ {0}, NEW kind \in {"anon", "file"}, r.len > len,
         NEW y \in Region, y.kind = "free", y.base = r.base + len, End(y) = End(r)
  PROVE  LET p == <<NewRegion(r.base, len, kind)>> \o <<y>> IN p \in Table /\ NewIn(p, r, len, kind)
<1>1. PICK b \in Nat, l \in Nat : b = r.base /\ l = r.len /\ End(r) = b + l /\ l > len
  BY RegionIs
<1>2. PICK x \in Region : x = NewRegion(b, len, kind) /\ x.kind # "free" /\ x.base = b /\ End(x) = b + len
  <2>1. /\ NewRegion(b, len, kind) \in Region
        /\ NewRegion(b, len, kind).kind # "free" /\ NewRegion(b, len, kind).base = b
        /\ End(NewRegion(b, len, kind)) = b + len
    BY NewRegionIs, ZenonT(60)
  <2> QED BY <2>1
<1>3. PICK A : A = <<x>>
  OBVIOUS
<1>4. /\ A \in Table /\ Len(A) = 1 /\ A[1] = x /\ Ordered(A) /\ Touching(A, {})
      /\ Live(A) = (IF x.kind = "free" THEN {} ELSE {x})
      /\ \A addr : (Before(A, addr) <=> End(x) <= addr) /\ (Behind(A, addr) <=> x.base >= addr)
  BY <1>3, OneRegion
<1>5. PICK p : p = A \o <<y>>
  OBVIOUS
<1>6. Extended(p, A, y)
  BY <1>4, <1>5 DEF Extended
<1>7. /\ p \in Table /\ Len(p) = Len(A) + 1 /\ p[Len(p)] = y /\ Live(p) = Live(A)
      /\ (Ordered(p) <=> Ordered(A) /\ Before(A, y.base))
      /\ (Apart(p) <=> Apart(A) /\ (Len(A) # 0 => ~ Mergeable(A[Len(A)], y)))
      /\ (Before(p, b + l) <=> Before(A, b + l) /\ End(y) <= b + l)
  BY <1>6, ExtendedIs
<1>8. Ordered(p) /\ Before(p, b + l)
  <2>1. End(x) <= y.base /\ End(x) <= b + l /\ End(y) <= b + l
    BY <1>1, <1>2
  <2> QED BY <1>4, <1>7, <2>1
<1>9. Apart(p)
  <2>1. ~ Mergeable(A[Len(A)], y)
    BY <1>2, <1>4 DEF Mergeable
  <2> QED BY <1>4, <1>7, <2>1, ApartIs
<1>10. p[1] = x /\ Len(p) = 2
  <2>1. <<y>> \in Table
    BY OneRegion
  <2>2. \A i \in 1 .. Len(A) : p[i] = A[i]
    BY <1>4, <1>5, <2>1, ConcatPlaces
  <2>3. 1 \in 1 .. Len(A)
    BY <1>4
  <2> QED BY <1>4, <1>7, <2>2, <2>3
<1>11. Behind(p, b)
  <2>1. <<y>> \in Table /\ (Behind(<<y>>, b) <=> y.base >= b)
    BY OneRegion
  <2>2. y.base >= b /\ x.base >= b
    BY <1>1, <1>2
  <2> QED BY <1>4, <1>5, <2>1, <2>2, BoundsConcat
<1>12. Live(p) = {p[1]}
  <2>1. Live(A) = {x}
    BY <1>2, <1>4
  <2> QED BY <1>7, <1>10, <2>1
<1>13. Len(p) >= 1 /\ Len(p) <= 2 /\ r.len >= len
  BY <1>1, <1>10
<1>14. Fills(p, r)
  BY <1>1, <1>2, <1>7, <1>8, <1>9, <1>10, <1>11, <1>13 DEF Fills
<1>15. NewIn(p, r, len, kind)
  BY <1>1, <1>2, <1>10, <1>12, <1>13, <1>14 DEF NewIn
<1> QED BY <1>1, <1>2, <1>3, <1>5, <1>7, <1>15

\* A region for len units is acquired.
LEMMA AcquiredIs ==
  ASSUME TableOK, NEW len \in Nat \ {0}, NEW kind \in {"anon", "file"}
  PROVE  \E base \in Nat : AcquiredOK(Acquired(len, kind), base, len, kind) /\ AcquiredAt(len, base)
<1>0. regs \in Table /\ brk \in Nat
  BY DEF TableOK
<1>1. CASE Fits(len) = {}
  BY <1>0, <1>1, AcquiredGrows DEF AcquiredAt
<1>2. CASE Fits(len) # {}
  <2>1. PICK i \in 1 .. Len(regs) : i = Min(Fits(len))
    BY <1>2, FitsIs
  <2>2. PICK r \in Region : r = regs[i] /\ r.kind = "free" /\ r.len >= len
    BY <1>2, <2>1, FitsIs
  <2>3. PICK b \in Nat, l \in Nat : b = r.base /\ l = r.len
    BY RegionIs
  <2>4. PICK A, B : A = SubSeq(regs, 1, i - 1) /\ B = SubSeq(regs, i + 1, Len(regs))
    OBVIOUS
  <2>5. Around(i, r, A, B)
    BY <2>2, <2>4 DEF Around
  <2>6. A \in Table /\ B \in Table
    BY <1>0, <2>4, SplitAt DEF Laid
  <2>a. AcquiredAt(len, b)
    BY <1>2, <2>1, <2>2, <2>3 DEF AcquiredAt
  <2>7. PICK q : q = Acquired(len, kind)
    OBVIOUS
  <2>8. PICK x \in Region : x = NewRegion(b, len, kind)
    BY NewRegionIs
  <2>9. q = [idx |-> i,
             regs |-> IF l = len THEN [regs EXCEPT ![i] = x]
                      ELSE InsertAt([regs EXCEPT ![i].base = @ + len, ![i].len = @ - len], i, x),
             zero |-> Zeroed(r, len), brk |-> brk]
    <3>1. x = [base |-> r.base, len |-> len, kind |-> kind, dirty |-> FALSE, fref |-> NULL, off |-> 0, dlen |-> 0]
      BY <2>3, <2>8 DEF NewRegion
    <3>2. [regs EXCEPT ![i] = [base |-> @.base, len |-> len, kind |-> kind, dirty |-> FALSE,
                               fref |-> NULL, off |-> 0, dlen |-> 0]] = [regs EXCEPT ![i] = x]
      BY <1>0, <2>2, <3>1, TableIs
    <3> QED BY <1>2, <2>1, <2>2, <2>3, <2>7, <3>1, <3>2 DEF Acquired
  <2>10. q.idx = i /\ q.brk = brk
    BY <2>9
  <2>11. CASE l = len
    <3>1. q.regs = [regs EXCEPT ![i] = x]
      BY <2>9, <2>11
    <3>2. PICK p : p = <<x>>
      OBVIOUS
    <3>3. p \in Table /\ NewIn(p, r, len, kind)
      <4>1. r.len >= len /\ r.len <= len
        BY <2>2, <2>3, <2>11
      <4> QED BY <2>2, <2>3, <2>8, <3>2, <4>1, NewAlone
    <3>4. Laid(q.regs, A, p, B)
      <4>1. PICK E : E = [regs EXCEPT ![i] = x]
        OBVIOUS
      <4>2. /\ E \in Table /\ Len(E) = Len(regs) /\ E[i] = x
            /\ SubSeq(E, 1, i - 1) = A /\ SubSeq(E, i + 1, Len(regs)) = B
        BY <1>0, <2>4, <4>1, ExceptIs, ZenonT(60)
      <4>3. Laid(E, SubSeq(E, 1, i - 1), <<E[i]>>, SubSeq(E, i + 1, Len(E)))
        BY <4>2, SplitAt
      <4> QED BY <3>1, <3>2, <4>1, <4>2, <4>3
    <3>5. AcquiredOK(q, r.base, len, kind)
      BY <2>5, <2>10, <3>3, <3>4, AcquiredFrom
    <3> QED BY <2>3, <2>7, <2>a, <3>5
  <2>12. CASE l # len
    <3>1. PICK y \in Region : /\ y = [r EXCEPT !.base = @ + len, !.len = @ - len] /\ y.kind = "free"
                              /\ y.base = r.base + len /\ End(y) = End(r)
      <4>1. r.len > len
        BY <2>2, <2>3, <2>12
      <4> QED BY <2>2, <4>1, RestIs
    <3>2. PICK E : E = [regs EXCEPT ![i] = y]
      OBVIOUS
    <3>3. [regs EXCEPT ![i].base = @ + len, ![i].len = @ - len] = E
      <4>1. i \in DOMAIN regs
        BY <1>0, TableIs
      <4>2. r \in [base : Nat, len : Nat \ {0}, kind : {"free", "anon", "file"}, dirty : BOOLEAN,
                   fref : Nat, off : Nat, dlen : Nat]
        BY DEF Region
      <4> QED BY <2>2, <3>1, <3>2, <4>1, <4>2
    <3>4. q.regs = InsertAt(E, i, x)
      BY <2>9, <2>12, <3>3
    <3>5. /\ E \in Table /\ SubSeq(E, 1, i - 1) = A /\ SubSeq(E, i, Len(E)) = <<y>> \o B
      BY <1>0, <2>4, <3>2, ExceptIs
    <3>6. q.regs = (A \o <<x>>) \o (<<y>> \o B)
      BY <3>4, <3>5 DEF InsertAt
    <3>7. PICK p : p = <<x>> \o <<y>>
      OBVIOUS
    <3>8. p \in Table /\ NewIn(p, r, len, kind)
      <4>1. r.len > len
        BY <2>2, <2>3, <2>12
      <4> QED BY <2>2, <2>3, <2>8, <3>1, <3>7, <4>1, NewBeforeRest
    <3>9. Laid(q.regs, A, p, B)
      <4>1. PICK s, t : s = <<x>> /\ t = <<y>>
        OBVIOUS
      <4>2. s \in Table /\ t \in Table
        BY <4>1, OneRegion
      <4>3. PICK v \in Table : v = A \o s
        BY <2>6, <4>2, ConcatIs
      <4>4. v \o (t \o B) = (v \o t) \o B
        BY <2>6, <4>2, TablesAssociate
      <4>5. (A \o s) \o t = A \o (s \o t)
        BY <2>6, <4>2, TablesAssociate, SMTT(30)
      <4>6. q.regs = (A \o p) \o B
        BY <3>6, <3>7, <4>1, <4>3, <4>4, <4>5
      <4> QED BY <2>6, <3>8, <4>6 DEF Laid
    <3>10. AcquiredOK(q, r.base, len, kind)
      BY <2>5, <2>10, <3>8, <3>9, AcquiredFrom
    <3> QED BY <2>3, <2>7, <2>a, <3>10
  <2> QED BY <2>11, <2>12
<1> QED BY <1>1, <1>2

-----------------------------------------------------------------------------
(* Reserved                                                                 *)

IsGrown(g, need) == g = [c \in Nat \ {0} |-> IF c >= need THEN c ELSE g[2 * c]]

\* Reserved takes the capacity that its definition describes.
LEMMA ReservedDef ==
  \A extra :
    Reserved(extra) = IF Len(regs) + extra <= capregs THEN capregs
                      ELSE (CHOOSE g : IsGrown(g, Len(regs) + extra))[IF capregs = 0 THEN FirstCap ELSE capregs * 2]
BY DEF Reserved, IsGrown

\* Doubling ends: a capacity that suffices is reached from every one.
LEMMA GrownExists ==
  ASSUME NEW need \in Nat
  PROVE  \E g \in [Nat \ {0} -> Nat] : IsGrown(g, need)
<1> DEFINE D == Nat \ {0}
           rank == [c \in D |-> IF c >= need THEN 0 ELSE need - c]
           G == [x \in D \X [D -> Nat] |-> IF x[1] >= need THEN x[1] ELSE x[2][2 * x[1]]]
<1>1. ASSUME NEW c \in D PROVE 2 * c \in D /\ c \in Nat /\ rank[c] \in 0 .. need
  <2>1. (IF c >= need THEN 0 ELSE need - c) \in 0 .. need
    OBVIOUS
  <2> QED BY <2>1
<1>2. ASSUME NEW c \in D, ~(c >= need) PROVE rank[2 * c] < rank[c]
  <2>1. 2 * c \in D
    OBVIOUS
  <2>2. rank[c] = need - c /\ rank[2 * c] = IF 2 * c >= need THEN 0 ELSE need - 2 * c
    BY <1>2, <2>1
  <2>3. (IF 2 * c >= need THEN 0 ELSE need - 2 * c) < need - c
    BY <1>2
  <2> QED BY <2>2, <2>3
<1>3. ASSUME NEW c \in D, NEW g \in [D -> Nat]
      PROVE  /\ G[<<c, g>>] = (IF c >= need THEN c ELSE g[2 * c])
             /\ G[<<c, g>>] \in Nat
  <2>1. <<c, g>> \in D \X [D -> Nat] /\ <<c, g>>[1] = c /\ <<c, g>>[2] = g
    OBVIOUS
  <2>2. G[<<c, g>>] = (IF c >= need THEN c ELSE g[2 * c])
    <3> HIDE DEF D
    <3> QED BY <2>1
  <2>3. g[2 * c] \in Nat /\ c \in Nat
    BY <1>1
  <2> QED BY <2>2, <2>3
<1>4. G \in [D \X [D -> Nat] -> Nat]
  <2>1. ASSUME NEW x \in D \X [D -> Nat] PROVE G[x] \in Nat
    <3>1. PICK c \in D, g \in [D -> Nat] : x = <<c, g>>
      OBVIOUS
    <3> HIDE DEF G, D
    <3> QED BY <1>3, <3>1
  <2> QED BY <2>1
<1>5. rank \in [D -> 0 .. need]
  BY <1>1
<1>6. ASSUME NEW c \in D, NEW g \in [D -> Nat], NEW h \in [D -> Nat],
             \A e \in D : rank[e] < rank[c] => g[e] = h[e]
      PROVE  G[<<c, g>>] = G[<<c, h>>]
  <2> HIDE DEF G, rank
  <2>1. CASE c >= need
    BY <1>3, <2>1
  <2>2. CASE ~(c >= need)
    <3>1. g[2 * c] = h[2 * c]
      BY <1>1, <1>2, <1>6, <2>2
    <3> QED BY <1>3, <2>2, <3>1
  <2> QED BY <2>1, <2>2
<1> HIDE DEF D, rank, G
<1>7. Ranked(D, Nat, rank, G)
  BY <1>6 DEF Ranked
<1>8. Nat # {}
  OBVIOUS
<1>9. Recursive(D, Nat, need, rank, G)
  BY <1>4, <1>5, <1>7, <1>8 DEF Recursive
<1>10. PICK g \in [D -> Nat] : \A c \in D : g[c] = G[<<c, g>>]
  BY <1>9, RankRecursion DEF Solvable
<1>11. g = [c \in D |-> IF c >= need THEN c ELSE g[2 * c]]
  BY <1>3, <1>10
<1> QED BY <1>11 DEF IsGrown, D

\* It suffices, and it is not less than what doubling started with.
LEMMA GrownIs ==
  ASSUME NEW need \in Nat, NEW g, IsGrown(g, need), NEW c \in Nat \ {0}
  PROVE  g[c] \in Nat /\ g[c] >= need /\ g[c] >= c
<1>1. \A d \in Nat \ {0} : g[d] = IF d >= need THEN d ELSE g[2 * d]
  BY DEF IsGrown
<1> DEFINE T == {k \in 0 .. need : \A d \in Nat \ {0} : need - d <= k => g[d] \in Nat /\ g[d] >= need /\ g[d] >= d}
<1>2. 0 \in T
  <2>1. ASSUME NEW d \in Nat \ {0}, need - d <= 0 PROVE g[d] \in Nat /\ g[d] >= need /\ g[d] >= d
    <3>1. d >= need
      BY <2>1
    <3>2. g[d] = d
      BY <1>1, <3>1
    <3> QED BY <3>1, <3>2
  <2>2. 0 \in 0 .. need
    OBVIOUS
  <2> QED BY <2>1, <2>2
<1>3. ASSUME NEW k \in 1 .. need, k - 1 \in T PROVE k \in T
  <2>1. ASSUME NEW d \in Nat \ {0}, need - d <= k PROVE g[d] \in Nat /\ g[d] >= need /\ g[d] >= d
    <3>1. CASE d >= need
      <4>1. g[d] = d
        BY <1>1, <3>1
      <4> QED BY <3>1, <4>1
    <3>2. CASE ~(d >= need)
      <4>1. g[d] = g[2 * d]
        BY <1>1, <3>2
      <4>2. PICK e \in Nat \ {0} : e = 2 * d /\ need - e <= k - 1 /\ e >= d
        BY <2>1
      <4>3. g[e] \in Nat /\ g[e] >= need /\ g[e] >= e
        BY <1>3, <4>2
      <4>4. PICK x \in Nat : x = g[e] /\ x >= need /\ x >= e
        BY <4>3
      <4>5. x >= d
        BY <4>2, <4>4
      <4> QED BY <4>1, <4>2, <4>4, <4>5
    <3> QED BY <3>1, <3>2
  <2>2. k \in 0 .. need
    OBVIOUS
  <2> QED BY <2>1, <2>2
<1> HIDE DEF T
<1>4. \A k \in 0 .. need : k \in T
  BY <1>2, <1>3, Upwards
<1>5. need \in T
  BY <1>4
<1>6. need - c <= need
  OBVIOUS
<1> QED BY <1>5, <1>6 DEF T

\* reserve makes room for extra more regions and never takes room away.
LEMMA ReservedIs ==
  ASSUME regs \in Table, capregs \in Nat, NEW extra \in Nat
  PROVE  Reserved(extra) \in Nat /\ Reserved(extra) >= capregs /\ Reserved(extra) >= Len(regs) + extra
<1>1. PICK need \in Nat : need = Len(regs) + extra
  BY TableIs
<1>2. PICK g : g = CHOOSE h : IsGrown(h, need)
  OBVIOUS
<1>3. IsGrown(g, need)
  BY <1>2, GrownExists
<1>4. Reserved(extra) = IF need <= capregs THEN capregs ELSE g[IF capregs = 0 THEN FirstCap ELSE capregs * 2]
  BY <1>1, <1>2, ReservedDef
<1>5. CASE need <= capregs
  BY <1>1, <1>4, <1>5
<1>6. CASE ~(need <= capregs)
  <2>1. PICK c \in Nat \ {0} : c = (IF capregs = 0 THEN FirstCap ELSE capregs * 2) /\ c >= capregs
    <3>1. FirstCap \in Nat \ {0}
      BY MmanAssumption
    <3>2. capregs # 0 => capregs * 2 \in Nat \ {0} /\ capregs * 2 >= capregs
      OBVIOUS
    <3> QED BY <3>1, <3>2
  <2>2. g[c] \in Nat /\ g[c] >= need /\ g[c] >= c
    BY <1>3, GrownIs
  <2>3. PICK x \in Nat : x = g[c] /\ x >= need /\ x >= c
    BY <2>2
  <2>4. x >= capregs
    BY <2>1, <2>3
  <2> QED BY <1>1, <1>4, <1>6, <2>1, <2>3, <2>4
<1> QED BY <1>5, <1>6

-----------------------------------------------------------------------------
(* Counting the regions that use a descriptor.                              *)

\* A bijection counts its range.
LEMMA ImageCount ==
  ASSUME NEW S, IsFiniteSet(S), NEW T, NEW g \in [S -> T],
         \A t \in T : \E x \in S : g[x] = t,
         \A x, y \in S : g[x] = g[y] => x = y
  PROVE  IsFiniteSet(T) /\ Cardinality(T) = Cardinality(S)
<1>1. g \in Injection(S, T) /\ g \in Surjection(S, T)
  BY DEF Injection, Surjection, IsInjective
<1> QED BY <1>1, FS_Surjection

Inside(p, r) == r.base <= p.base /\ End(p) <= End(r)

\* A region lies in one region of the table.
LEMMA InsideOne ==
  ASSUME NEW R \in Table, Ordered(R), NEW i \in 1 .. Len(R), NEW j \in 1 .. Len(R),
         NEW p \in Region, Inside(p, R[i]), Inside(p, R[j])
  PROVE  i = j
<1>1. PICK b \in Nat, z \in Nat : b = p.base /\ z = End(p) /\ b < z
  BY RegionIs
<1>2. PICK n \in Nat : n = Len(R)
  BY TableIs
<1>3. PICK bi \in Nat, zi \in Nat, bj \in Nat, zj \in Nat :
        bi = R[i].base /\ zi = End(R[i]) /\ bj = R[j].base /\ zj = End(R[j])
  BY TableIs
<1>4. bi <= b /\ z <= zi /\ bj <= b /\ z <= zj
  BY <1>1, <1>3 DEF Inside
<1>5. CASE i < j
  <2>1. zi <= bj
    BY <1>3, <1>5 DEF Ordered
  <2> QED BY <1>1, <1>4, <2>1
<1>6. CASE j < i
  <2>1. zj <= bi
    BY <1>3, <1>6 DEF Ordered
  <2> QED BY <1>1, <1>4, <2>1
<1>7. i \in Nat /\ j \in Nat
  OBVIOUS
<1> QED BY <1>5, <1>6, <1>7

\* The live regions are finitely many regions of the table.
LEMMA LiveIs ==
  ASSUME NEW R \in Table
  PROVE  /\ IsFiniteSet(Live(R)) /\ Live(R) \subseteq Region
         /\ \A r \in Live(R) : r.kind # "free" /\ \E i \in 1 .. Len(R) : r = R[i]
         /\ \A i \in 1 .. Len(R) : R[i].kind # "free" => R[i] \in Live(R)
<1>1. PICK n \in Nat : n = Len(R)
  BY TableIs
<1>2. PICK I : I = {i \in 1 .. n : R[i].kind # "free"}
  OBVIOUS
<1>3. IsFiniteSet(I)
  <2>1. IsFiniteSet(1 .. n)
    BY FS_Interval
  <2>2. I \in SUBSET (1 .. n)
    BY <1>2
  <2> QED BY <2>1, <2>2, FS_Subset
<1>4. \A i \in I : R[i] \in Region /\ R[i].kind # "free"
  BY <1>1, <1>2, TableIs
<1>5. Live(R) = {R[i] : i \in I}
  BY <1>1, <1>2 DEF Live
<1>6. PICK f : f = [i \in I |-> R[i]]
  OBVIOUS
<1>7. f \in Surjection(I, Live(R))
  <2>1. f \in [I -> Live(R)]
    BY <1>5, <1>6
  <2>2. \A t \in Live(R) : \E i \in I : f[i] = t
    BY <1>5, <1>6
  <2> QED BY <2>1, <2>2 DEF Surjection
<1>8. IsFiniteSet(Live(R))
  BY <1>3, <1>7, FS_Surjection
<1> QED BY <1>1, <1>2, <1>4, <1>5, <1>8

\* The same for live regions
LEMMA LiveOnce ==
  ASSUME NEW R \in Table, Ordered(R), NEW r \in Live(R), NEW s \in Live(R),
         NEW p \in Region, Inside(p, r), Inside(p, s)
  PROVE  r = s
<1>1. PICK i \in 1 .. Len(R), j \in 1 .. Len(R) : r = R[i] /\ s = R[j]
  BY LiveIs
<1> QED BY <1>1, InsideOne

\* The indices of the live regions in X are as many as these regions.
LEMMA IndexCount ==
  ASSUME NEW R \in Table, Ordered(R), NEW X, X \subseteq Live(R)
  PROVE  /\ Cardinality({i \in 1 .. Len(R) : R[i] \in X}) = Cardinality(X)
         /\ IsFiniteSet(X)
<1>1. PICK n \in Nat : n = Len(R)
  BY TableIs
<1>i. PICK I : I = {i \in 1 .. n : R[i] \in X}
  OBVIOUS
<1>2. IsFiniteSet(I)
  <2>1. IsFiniteSet(1 .. n)
    BY FS_Interval
  <2>2. I \in SUBSET (1 .. n)
    BY <1>i
  <2> QED BY <2>1, <2>2, FS_Subset
<1>f. PICK f : f = [i \in I |-> R[i]]
  OBVIOUS
<1>3. f \in Surjection(I, X)
  <2>1. ASSUME NEW x \in X PROVE \E i \in I : f[i] = x
    BY <1>1, <1>i, <1>f, LiveIs
  <2>2. f \in [I -> X]
    BY <1>i, <1>f
  <2> QED BY <2>1, <2>2 DEF Surjection
<1>4. ASSUME NEW i \in I, NEW j \in I, f[i] = f[j] PROVE i = j
  <2>1. i \in 1 .. Len(R) /\ j \in 1 .. Len(R) /\ R[i] = R[j]
    BY <1>1, <1>i, <1>f, <1>4
  <2>2. R[i] \in Region /\ Inside(R[i], R[i])
    <3>1. R[i] \in Region
      BY <2>1, TableIs
    <3>2. R[i].base \in Nat /\ End(R[i]) \in Nat
      BY <3>1, RegionIs
    <3> QED BY <3>1, <3>2 DEF Inside
  <2> QED BY <2>1, <2>2, InsideOne
<1>5. f \in Injection(I, X)
  <2>1. f \in [I -> X]
    BY <1>3 DEF Surjection
  <2> QED BY <1>4, <2>1 DEF Injection, IsInjective
<1>6. IsFiniteSet(X) /\ Cardinality(X) = Cardinality(I)
  BY <1>2, <1>3, <1>5, FS_Surjection
<1> QED BY <1>1, <1>i, <1>6

Users(L, f) == {r \in L : r.fref = f}

\* What remains of a region
PiecesOf(L, start, end) == UNION {Pieces(r, start, end) : r \in L}

\* A piece lies in its region, and has its kind and its descriptor.
LEMMA PieceIs ==
  ASSUME NEW r \in Region, r.kind # "free", NEW start \in Nat, NEW end \in Nat, start < end,
         NEW p \in Pieces(r, start, end)
  PROVE  p \in Region /\ Inside(p, r) /\ p.kind = r.kind /\ p.fref = r.fref
<1>1. PICK b \in Nat, z \in Nat : b = r.base /\ z = End(r) /\ b < z
  BY RegionIs
<1>2. CASE ~ Overlaps(r, start, end)
  BY <1>1, <1>2 DEF Pieces, Inside
<1>3. CASE Overlaps(r, start, end)
  <2>1. z > start /\ b < end
    BY <1>1, <1>3 DEF Overlaps
  <2>2. (b < start /\ p = HeadPart(r, start)) \/ (end < z /\ p = TailPart(r, end))
    BY <1>1, <1>3 DEF Pieces
  <2>3. CASE b < start /\ p = HeadPart(r, start)
    <3>1. p \in Region /\ p.base = b /\ End(p) = start /\ p.kind = r.kind /\ p.fref = r.fref
      BY <1>1, <2>1, <2>3, HeadPartIs
    <3>2. b <= b /\ start <= z
      BY <2>1
    <3> QED BY <1>1, <3>1, <3>2 DEF Inside
  <2>4. CASE end < z /\ p = TailPart(r, end)
    <3>1. p \in Region /\ p.base = end /\ End(p) = z /\ p.kind = r.kind /\ p.fref = r.fref
      BY <1>1, <2>1, <2>4, TailPartIs
    <3>2. b <= end /\ z <= z
      BY <2>1
    <3> QED BY <1>1, <3>1, <3>2 DEF Inside
  <2> QED BY <2>2, <2>3, <2>4
<1> QED BY <1>2, <1>3

\* The first piece that remains of a region
FirstPiece(r, start, end) ==
  IF ~ Overlaps(r, start, end) THEN r
  ELSE IF r.base < start THEN HeadPart(r, start) ELSE TailPart(r, end)

\* A region that is gone leaves no piece, a region that is split two, any other one.
LEMMA PiecesAre ==
  ASSUME NEW r \in Region, NEW start \in Nat, NEW end \in Nat, start < end
  PROVE  /\ Gone(r, start, end) => Pieces(r, start, end) = {} /\ ~ Splits(r, start, end)
         /\ Splits(r, start, end) => /\ Pieces(r, start, end) = {FirstPiece(r, start, end), TailPart(r, end)}
                                     /\ FirstPiece(r, start, end) = HeadPart(r, start)
                                     /\ r.base < start /\ end < End(r) /\ Overlaps(r, start, end)
         /\ ~ Gone(r, start, end) /\ ~ Splits(r, start, end) => Pieces(r, start, end) = {FirstPiece(r, start, end)}
<1>1. PICK b \in Nat, z \in Nat : b = r.base /\ z = End(r) /\ b < z
  BY RegionIs
<1>2. Overlaps(r, start, end) <=> z > start /\ b < end
  BY <1>1 DEF Overlaps
<1>3. Gone(r, start, end) <=> b >= start /\ z <= end
  BY <1>1, <1>2 DEF Gone
<1>4. Splits(r, start, end) <=> b < start /\ z > end
  BY <1>1 DEF Splits
<1>5. Pieces(r, start, end) = IF ~ Overlaps(r, start, end) THEN {r}
                              ELSE (IF b < start THEN {HeadPart(r, start)} ELSE {})
                                   \cup (IF end < z THEN {TailPart(r, end)} ELSE {})
  BY <1>1 DEF Pieces
<1>6. FirstPiece(r, start, end) = IF ~ Overlaps(r, start, end) THEN r
                                  ELSE IF b < start THEN HeadPart(r, start) ELSE TailPart(r, end)
  BY <1>1 DEF FirstPiece
<1>7. CASE b >= start /\ z <= end
  <2>1. Overlaps(r, start, end) /\ ~(b < start) /\ ~(end < z)
    BY <1>1, <1>2, <1>7
  <2> QED BY <1>3, <1>4, <1>5, <2>1
<1>8. CASE b < start /\ z > end
  <2>1. Overlaps(r, start, end) /\ end < z /\ ~(b >= start)
    BY <1>1, <1>2, <1>8
  <2> QED BY <1>1, <1>3, <1>4, <1>5, <1>6, <1>8, <2>1
<1>9. CASE ~(b >= start /\ z <= end) /\ ~(b < start /\ z > end)
  <2>1. CASE ~ Overlaps(r, start, end)
    BY <1>3, <1>4, <1>5, <1>6, <1>9, <2>1
  <2>2. CASE Overlaps(r, start, end)
    <3>1. (b < start /\ ~(end < z)) \/ (~(b < start) /\ end < z)
      BY <1>2, <1>9, <2>2
    <3> QED BY <1>3, <1>4, <1>5, <1>6, <1>9, <2>2, <3>1
  <2> QED BY <2>1, <2>2
<1> QED BY <1>7, <1>8, <1>9

\* The first piece is in the region, and it is the one before the tail.
LEMMA FirstPieceIs ==
  ASSUME NEW r \in Region, r.kind # "free", NEW start \in Nat, NEW end \in Nat, start < end,
         ~ Gone(r, start, end)
  PROVE  FirstPiece(r, start, end) \in Pieces(r, start, end)
<1>1. CASE Splits(r, start, end)
  BY <1>1, PiecesAre
<1>2. CASE ~ Splits(r, start, end)
  BY <1>2, PiecesAre
<1> QED BY <1>1, <1>2

\* The two pieces of a region that is split differ.
LEMMA SplitPieces ==
  ASSUME NEW r \in Region, r.kind # "free", NEW start \in Nat, NEW end \in Nat, start < end,
         Splits(r, start, end)
  PROVE  /\ ~ Gone(r, start, end) /\ TailPart(r, end) \in Pieces(r, start, end)
         /\ FirstPiece(r, start, end) # TailPart(r, end)
<1>1. /\ Pieces(r, start, end) = {FirstPiece(r, start, end), TailPart(r, end)}
      /\ FirstPiece(r, start, end) = HeadPart(r, start)
      /\ r.base < start /\ end < End(r)
  BY PiecesAre
<1>2. PICK b \in Nat, z \in Nat : b = r.base /\ z = End(r) /\ b < z
  BY RegionIs
<1>3. b < start /\ start < z /\ b < end /\ end < z
  BY <1>1, <1>2
<1>4. HeadPart(r, start).base = b
  BY <1>2, <1>3, HeadPartIs
<1>5. TailPart(r, end).base = end
  BY <1>2, <1>3, TailPartIs
<1>6. ~ Gone(r, start, end)
  BY <1>2, <1>3 DEF Gone
<1> QED BY <1>1, <1>3, <1>4, <1>5, <1>6

\* The users of a descriptor after a range of a sorted table was unmapped
LEMMA UsersCount ==
  ASSUME NEW R \in Table, Ordered(R), NEW start \in Nat, NEW end \in Nat, start < end, NEW f
  PROVE  LET A == Users(Live(R), f) IN
         /\ IsFiniteSet(A)
         /\ Cardinality(Users(PiecesOf(Live(R), start, end), f))
              = Cardinality(A) + Cardinality({r \in A : Splits(r, start, end)})
                               - Cardinality({r \in A : Gone(r, start, end)})
<1>1. PICK L : L = Live(R)
  OBVIOUS
<1>2. IsFiniteSet(L) /\ L \subseteq Region /\ \A r \in L : r \in Region /\ r.kind # "free"
  BY <1>1, LiveIs
<1>3. PICK A : A = Users(L, f)
  OBVIOUS
<1>4. IsFiniteSet(A) /\ \A r \in A : r \in L /\ r \in Region /\ r.kind # "free" /\ r.fref = f
  <2>1. A \in SUBSET L /\ \A r \in A : r.fref = f
    BY <1>3 DEF Users
  <2> QED BY <1>2, <2>1, FS_Subset
<1>5. PICK D : D = {r \in A : Gone(r, start, end)}
  OBVIOUS
<1>6. PICK S : S = {r \in A : Splits(r, start, end)}
  OBVIOUS
<1>7. PICK K : K = A \ D
  OBVIOUS
<1>8. IsFiniteSet(D) /\ IsFiniteSet(S) /\ IsFiniteSet(K) /\ Cardinality(K) = Cardinality(A) - Cardinality(D)
  <2>1. D \in SUBSET A /\ S \in SUBSET A /\ A \cap D = D
    BY <1>5, <1>6
  <2>2. IsFiniteSet(D) /\ IsFiniteSet(S)
    BY <1>4, <2>1, FS_Subset
  <2>3. IsFiniteSet(A \ D) /\ Cardinality(A \ D) = Cardinality(A) - Cardinality(A \cap D)
    BY <1>4, FS_Difference
  <2> QED BY <1>7, <2>1, <2>2, <2>3
<1>9. PICK gP : gP = [r \in K |-> FirstPiece(r, start, end)]
  OBVIOUS
<1>10. PICK gQ : gQ = [r \in S |-> TailPart(r, end)]
  OBVIOUS
<1>11. PICK P : P = {gP[r] : r \in K}
  OBVIOUS
<1>12. PICK Q : Q = {gQ[r] : r \in S}
  OBVIOUS
<1>13. ASSUME NEW r \in K
       PROVE  /\ r \in L /\ r \in Region /\ r.kind # "free" /\ r.fref = f /\ ~ Gone(r, start, end)
              /\ gP[r] \in Pieces(r, start, end) /\ gP[r] = FirstPiece(r, start, end)
  <2>1. r \in L /\ r \in Region /\ r.kind # "free" /\ r.fref = f /\ ~ Gone(r, start, end)
    BY <1>4, <1>5, <1>7
  <2>2. gP[r] = FirstPiece(r, start, end)
    BY <1>9
  <2>3. FirstPiece(r, start, end) \in Pieces(r, start, end)
    BY <2>1, FirstPieceIs
  <2> QED BY <2>1, <2>2, <2>3
<1>14. ASSUME NEW r \in S
       PROVE  /\ r \in L /\ r \in Region /\ r.kind # "free" /\ r.fref = f /\ r \in K
              /\ Splits(r, start, end)
              /\ gQ[r] \in Pieces(r, start, end) /\ gQ[r] # FirstPiece(r, start, end)
  <2>1. r \in A /\ r \in L /\ r \in Region /\ r.kind # "free" /\ r.fref = f /\ Splits(r, start, end)
    BY <1>4, <1>6
  <2>2. gQ[r] = TailPart(r, end)
    BY <1>10
  <2>3. ~ Gone(r, start, end) /\ TailPart(r, end) \in Pieces(r, start, end)
        /\ FirstPiece(r, start, end) # TailPart(r, end)
    BY <2>1, SplitPieces
  <2>4. r \in K
    BY <1>5, <1>7, <2>1, <2>3
  <2> QED BY <2>1, <2>2, <2>3, <2>4
<1>15. ASSUME NEW r \in L, NEW s \in L, NEW p, p \in Pieces(r, start, end), p \in Pieces(s, start, end)
       PROVE  r = s
  <2>1. p \in Region /\ Inside(p, r) /\ Inside(p, s)
    BY <1>2, <1>15, PieceIs
  <2> QED BY <1>1, <2>1, LiveOnce
<1>16. IsFiniteSet(P) /\ Cardinality(P) = Cardinality(K)
  <2>1. gP \in [K -> P] /\ \A t \in P : \E r \in K : gP[r] = t
    BY <1>9, <1>11
  <2>2. ASSUME NEW r \in K, NEW s \in K, gP[r] = gP[s] PROVE r = s
    <3>1. gP[r] \in Pieces(r, start, end) /\ gP[r] \in Pieces(s, start, end) /\ r \in L /\ s \in L
      BY <1>13, <2>2
    <3> QED BY <1>15, <3>1
  <2> QED BY <1>8, <2>1, <2>2, ImageCount
<1>17. IsFiniteSet(Q) /\ Cardinality(Q) = Cardinality(S)
  <2>1. gQ \in [S -> Q] /\ \A t \in Q : \E r \in S : gQ[r] = t
    BY <1>10, <1>12
  <2>2. ASSUME NEW r \in S, NEW s \in S, gQ[r] = gQ[s] PROVE r = s
    <3>1. gQ[r] \in Pieces(r, start, end) /\ gQ[r] \in Pieces(s, start, end) /\ r \in L /\ s \in L
      BY <1>14, <2>2
    <3> QED BY <1>15, <3>1
  <2> QED BY <1>8, <2>1, <2>2, ImageCount
<1>18. P \cap Q = {}
  <2> SUFFICES ASSUME NEW p \in P, p \in Q PROVE FALSE
    OBVIOUS
  <2>1. PICK r \in K : p = gP[r]
    BY <1>11
  <2>2. PICK s \in S : p = gQ[s]
    BY <1>12
  <2>3. r = s
    <3>1. p \in Pieces(r, start, end) /\ p \in Pieces(s, start, end) /\ r \in L /\ s \in L
      BY <1>13, <1>14, <2>1, <2>2
    <3> QED BY <1>15, <3>1
  <2> QED BY <1>13, <1>14, <2>1, <2>2, <2>3
<1>19. PICK V : V = Users(PiecesOf(L, start, end), f)
  OBVIOUS
<1>20. ASSUME NEW p \in V PROVE p \in P \cup Q
  <2>1. p \in PiecesOf(L, start, end) /\ p.fref = f
    BY <1>19 DEF Users
  <2>2. PICK r \in L : p \in Pieces(r, start, end)
    BY <2>1 DEF PiecesOf
  <2>3. r \in Region /\ r.kind # "free" /\ p.fref = r.fref
    BY <1>2, <2>2, PieceIs
  <2>4. r \in A
    BY <1>3, <2>1, <2>3 DEF Users
  <2>5. ~ Gone(r, start, end)
    BY <2>2, <2>3, PiecesAre
  <2>6. r \in K
    BY <1>5, <1>7, <2>4, <2>5
  <2>7. gP[r] \in P /\ gP[r] = FirstPiece(r, start, end)
    BY <1>11, <1>13, <2>6
  <2>8. CASE Splits(r, start, end)
    <3>1. r \in S
      BY <1>6, <2>4, <2>8
    <3>2. gQ[r] \in Q /\ gQ[r] = TailPart(r, end)
      BY <1>10, <1>12, <3>1
    <3>3. p = FirstPiece(r, start, end) \/ p = TailPart(r, end)
      BY <2>2, <2>3, <2>8, PiecesAre
    <3> QED BY <2>7, <3>2, <3>3
  <2>9. CASE ~ Splits(r, start, end)
    <3>1. p = FirstPiece(r, start, end)
      BY <2>2, <2>3, <2>5, <2>9, PiecesAre
    <3> QED BY <2>7, <3>1
  <2> QED BY <2>8, <2>9
<1>21. ASSUME NEW p \in P \cup Q PROVE p \in V
  <2>1. PICK r \in L : p \in Pieces(r, start, end) /\ r.fref = f
    <3>1. CASE p \in P
      BY <1>11, <1>13, <3>1
    <3>2. CASE p \in Q
      BY <1>12, <1>14, <3>2
    <3> QED BY <3>1, <3>2
  <2>2. p.fref = f
    BY <1>2, <2>1, PieceIs
  <2>3. p \in PiecesOf(L, start, end)
    BY <2>1 DEF PiecesOf
  <2> QED BY <1>19, <2>2, <2>3 DEF Users
<1>22. V = P \cup Q
  BY <1>20, <1>21
<1>23. Cardinality(V) = Cardinality(P) + Cardinality(Q) - Cardinality({})
  BY <1>16, <1>17, <1>18, <1>22, FS_Union
<1>24. Cardinality({}) = 0
  BY FS_EmptySet
<1>25. PICK a \in Nat, d \in Nat, s \in Nat : a = Cardinality(A) /\ d = Cardinality(D) /\ s = Cardinality(S)
  BY <1>4, <1>8, FS_CardinalityType
<1>26. Cardinality(K) = a - d
  BY <1>8, <1>25
<1>27. Cardinality(V) = a + s - d
  <2>1. PICK v : v = Cardinality(V)
    OBVIOUS
  <2>2. v = (a - d) + s - 0
    BY <1>16, <1>17, <1>23, <1>24, <1>25, <1>26, <2>1
  <2>3. (a - d) + s - 0 = a + s - d
    OBVIOUS
  <2> QED BY <2>1, <2>2, <2>3
<1> QED BY <1>1, <1>3, <1>4, <1>5, <1>6, <1>19, <1>25, <1>27

\* Only live regions use a descriptor.
LEMMA UsersAreLive ==
  ASSUME NEW R \in Table, NEW f, f # NULL, NEW i \in 1 .. Len(R)
  PROVE  R[i] \in Users(Live(R), f) <=> R[i].fref = f
<1>1. R[i] \in Region /\ (R[i].kind # "file" => R[i].fref = NULL)
  BY TableIs, RegionIs
<1>2. ASSUME R[i].fref = f PROVE R[i].kind # "free"
  BY <1>1, <1>2
<1>3. ASSUME R[i].fref = f PROVE R[i] \in Live(R)
  BY <1>2, <1>3, LiveIs
<1> QED BY <1>3 DEF Users

\* The descriptors as MmanTable counts them
LEMMA UsersIndices ==
  ASSUME NEW R \in Table, Ordered(R), NEW f, f # NULL
  PROVE  Cardinality({i \in DOMAIN R : R[i].kind = "file" /\ R[i].fref = f}) = Cardinality(Users(Live(R), f))
<1>1. PICK X : X = Users(Live(R), f)
  OBVIOUS
<1>2. X \subseteq Live(R)
  BY <1>1 DEF Users
<1>3. Cardinality({i \in 1 .. Len(R) : R[i] \in X}) = Cardinality(X)
  BY <1>2, IndexCount
<1>4. ASSUME NEW i \in 1 .. Len(R) PROVE R[i].kind = "file" /\ R[i].fref = f <=> R[i] \in X
  <2>1. R[i] \in Region /\ (R[i].kind # "file" => R[i].fref = NULL)
    BY TableIs, RegionIs
  <2> QED BY <1>1, <2>1, UsersAreLive
<1>5. DOMAIN R = 1 .. Len(R)
  BY TableIs
<1>6. {i \in DOMAIN R : R[i].kind = "file" /\ R[i].fref = f} = {i \in 1 .. Len(R) : R[i] \in X}
  BY <1>4, <1>5
<1> QED BY <1>1, <1>3, <1>6

\* The count of a descriptor after unmap_range, over regions
LEMMA RefsAfterIs ==
  ASSUME NEW R \in Table, Ordered(R), NEW start \in Nat, NEW end \in Nat, start < end, NEW f \in FileRefs
  PROVE  LET A == Users(Live(R), f) IN
         RefsAfter(R, start, end)[f] = refs[f] + Cardinality({r \in A : Splits(r, start, end)})
                                               - Cardinality({r \in A : Gone(r, start, end)})
<1>1. f # NULL
  BY MmanAssumption DEF FileRefs, NULL
<1>2. PICK A : A = Users(Live(R), f)
  OBVIOUS
<1>3. PICK S : S = {r \in A : Splits(r, start, end)}
  OBVIOUS
<1>4. PICK D : D = {r \in A : Gone(r, start, end)}
  OBVIOUS
<1>5. S \subseteq Live(R) /\ D \subseteq Live(R)
  BY <1>2, <1>3, <1>4 DEF Users
<1>6. Cardinality({i \in 1 .. Len(R) : R[i] \in S}) = Cardinality(S)
  BY <1>5, IndexCount
<1>7. Cardinality({i \in 1 .. Len(R) : R[i] \in D}) = Cardinality(D)
  BY <1>5, IndexCount
<1>8. DOMAIN R = 1 .. Len(R)
  BY TableIs
<1>9. ASSUME NEW i \in 1 .. Len(R) PROVE R[i] \in A <=> R[i].fref = f
  BY <1>1, <1>2, UsersAreLive
<1>10. {i \in DOMAIN R : R[i].fref = f /\ Splits(R[i], start, end)} = {i \in 1 .. Len(R) : R[i] \in S}
  BY <1>3, <1>8, <1>9
<1>11. {i \in DOMAIN R : R[i].fref = f /\ Gone(R[i], start, end)} = {i \in 1 .. Len(R) : R[i] \in D}
  BY <1>4, <1>8, <1>9
<1>12. RefsAfter(R, start, end)[f]
         = refs[f] + Cardinality({i \in DOMAIN R : R[i].fref = f /\ Splits(R[i], start, end)})
                   - Cardinality({i \in DOMAIN R : R[i].fref = f /\ Gone(R[i], start, end)})
  BY DEF RefsAfter
<1> QED BY <1>2, <1>3, <1>4, <1>6, <1>7, <1>10, <1>11, <1>12

-----------------------------------------------------------------------------
(* What the table says of an address                                        *)

Holds(r, a) == r.base <= a /\ a < End(r)

\* The owner of the addresses of a live region
Shown(r, a) ==
  IF r.kind = "anon" THEN Anonymous
  ELSE [kind |-> "file", shared |-> r.fref # NULL,
        off |-> IF a - r.base < r.dlen THEN r.off + (a - r.base) ELSE -1]

\* The pieces of a region hold its addresses outside the range, and show the same.
LEMMA PieceShows ==
  ASSUME NEW r \in Region, r.kind # "free", NEW start \in Nat, NEW end \in Nat, start < end,
         NEW p \in Pieces(r, start, end), NEW a \in Nat, Holds(p, a)
  PROVE  Holds(r, a) /\ (a < start \/ end <= a) /\ Shown(p, a) = Shown(r, a)
<1>1. PICK b \in Nat, z \in Nat, d \in Nat, o \in Nat :
        b = r.base /\ z = End(r) /\ b < z /\ d = r.dlen /\ o = r.off
  BY RegionIs
<1>2. CASE ~ Overlaps(r, start, end)
  <2>1. p = r
    BY <1>2 DEF Pieces
  <2>2. b <= a /\ a < z
    BY <1>1, <2>1 DEF Holds
  <2>3. z <= start \/ end <= b
    BY <1>1, <1>2 DEF Overlaps
  <2>4. a < start \/ end <= a
    BY <2>2, <2>3
  <2> QED BY <2>1, <2>4
<1>3. CASE Overlaps(r, start, end)
  <2>1. z > start /\ b < end
    BY <1>1, <1>3 DEF Overlaps
  <2>2. (b < start /\ p = HeadPart(r, start)) \/ (end < z /\ p = TailPart(r, end))
    BY <1>1, <1>3 DEF Pieces
  <2>3. CASE b < start /\ p = HeadPart(r, start)
    <3>1. p.base = b /\ End(p) = start /\ p.kind = r.kind /\ p.fref = r.fref
      BY <1>1, <2>1, <2>3, HeadPartIs
    <3>2. b <= a /\ a < start
      BY <3>1, <2>3 DEF Holds
    <3>3. Holds(r, a)
      BY <1>1, <2>1, <3>2 DEF Holds
    <3>4. p.off = o /\ p.dlen = IF r.kind = "file" /\ d > start - b THEN start - b ELSE d
      BY <1>1, <2>3 DEF HeadPart, Region
    <3>5. a - b < p.dlen <=> a - b < d
      BY <2>3, <3>2, <3>4
    <3>6. Shown(p, a) = Shown(r, a)
      BY <1>1, <3>1, <3>4, <3>5 DEF Shown
    <3> QED BY <3>2, <3>3, <3>6
  <2>4. CASE end < z /\ p = TailPart(r, end)
    <3>1. p.base = end /\ End(p) = z /\ p.kind = r.kind /\ p.fref = r.fref
      BY <1>1, <2>1, <2>4, TailPartIs
    <3>2. end <= a /\ a < z /\ b <= a
      BY <1>1, <2>1, <2>4, <3>1 DEF Holds
    <3>3. Holds(r, a)
      BY <1>1, <3>2 DEF Holds
    <3>4. CASE r.kind = "file"
      <4>1. p.off = o + (end - b) /\ p.dlen = IF d > end - b THEN d - (end - b) ELSE 0
        BY <1>1, <2>4, <3>4 DEF TailPart, Region
      <4>2. (a - end < p.dlen <=> a - b < d) /\ p.off + (a - end) = o + (a - b)
        BY <2>1, <3>2, <4>1
      <4>3. Shown(p, a) = Shown(r, a)
        BY <1>1, <3>1, <3>4, <4>2 DEF Shown
      <4> QED BY <3>2, <3>3, <4>3
    <3>5. CASE r.kind = "anon"
      <4>1. Shown(p, a) = Shown(r, a)
        BY <3>1, <3>5 DEF Shown
      <4> QED BY <3>2, <3>3, <4>1
    <3> QED BY <3>4, <3>5, RegionIs
  <2> QED BY <2>2, <2>3, <2>4
<1> QED BY <1>2, <1>3

\* An address of a region outside the range is in one of its pieces.
LEMMA PieceHolds ==
  ASSUME NEW r \in Region, r.kind # "free", NEW start \in Nat, NEW end \in Nat, start < end,
         NEW a \in Nat, Holds(r, a), a < start \/ end <= a
  PROVE  \E p \in Pieces(r, start, end) : Holds(p, a)
<1>1. PICK b \in Nat, z \in Nat : b = r.base /\ z = End(r) /\ b < z
  BY RegionIs
<1>2. b <= a /\ a < z
  BY <1>1 DEF Holds
<1>3. CASE ~ Overlaps(r, start, end)
  BY <1>3 DEF Pieces
<1>4. CASE Overlaps(r, start, end) /\ a < start
  <2>1. z > start /\ b < end /\ b < start
    BY <1>1, <1>2, <1>4 DEF Overlaps
  <2>2. HeadPart(r, start) \in Pieces(r, start, end)
    BY <1>1, <1>4, <2>1 DEF Pieces
  <2>3. HeadPart(r, start).base = b /\ End(HeadPart(r, start)) = start
    BY <1>1, <2>1, HeadPartIs
  <2>4. Holds(HeadPart(r, start), a)
    BY <1>2, <1>4, <2>3 DEF Holds
  <2> QED BY <2>2, <2>4
<1>5. CASE Overlaps(r, start, end) /\ end <= a
  <2>1. z > start /\ b < end /\ end < z
    BY <1>1, <1>2, <1>5 DEF Overlaps
  <2>2. TailPart(r, end) \in Pieces(r, start, end)
    BY <1>1, <1>5, <2>1 DEF Pieces
  <2>3. TailPart(r, end).base = end /\ End(TailPart(r, end)) = z
    BY <1>1, <2>1, TailPartIs
  <2>4. Holds(TailPart(r, end), a)
    BY <1>2, <1>5, <2>3 DEF Holds
  <2> QED BY <2>2, <2>4
<1> QED BY <1>3, <1>4, <1>5

-----------------------------------------------------------------------------
(* The inductive invariant                                                  *)

\* The live regions L and the application agree on every address.
Agree(L, o) ==
  /\ \A r \in L, a \in Addrs : Holds(r, a) => o[a] = Shown(r, a)
  /\ \A a \in Addrs : o[a] # Unmapped => \E r \in L : Holds(r, a)

\* A descriptor is counted once for each region of L that uses it.
Counted(L, c) == \A f \in FileRefs : c[f] = Cardinality(Users(L, f))

SizesOK ==
  /\ brk <= Pages * PAGE
  /\ capregs \in Nat /\ peak \in Nat /\ peak <= capregs /\ Len(regs) <= capregs

MmanIInv ==
  /\ TableOK /\ SizesOK
  /\ refs \in [FileRefs -> Nat]
  /\ Agree(Live(regs), owner) /\ Counted(Live(regs), refs)

\* Addresses are natural numbers.
LEMMA AddrsAre == Addrs \subseteq Nat
BY DEF Addrs

\* What the table says of an address is what the application knows.
LEMMA ViewIs ==
  ASSUME TableOK, Agree(Live(regs), owner), NEW a \in Addrs
  PROVE  View(a) = owner[a]
<1>1. regs \in Table
  BY DEF TableOK
<1>2. PICK in : in = {i \in DOMAIN regs : a >= regs[i].base /\ a < End(regs[i]) /\ regs[i].kind # "free"}
  OBVIOUS
<1>3. a \in Nat
  BY AddrsAre
<1>4. ASSUME NEW i \in 1 .. Len(regs) PROVE i \in in <=> regs[i].kind # "free" /\ Holds(regs[i], a)
  <2>1. PICK b \in Nat : b = regs[i].base
    BY <1>1, TableIs
  <2>2. a >= b <=> b <= a
    BY <1>3
  <2> QED BY <1>1, <1>2, <2>1, <2>2, TableIs DEF Holds
<1>5. in \subseteq 1 .. Len(regs)
  BY <1>1, <1>2, TableIs
<1>6. CASE in = {}
  <2>1. View(a) = Unmapped
    BY <1>2, <1>6 DEF View
  <2>2. ASSUME NEW r \in Live(regs) PROVE ~ Holds(r, a)
    <3>1. PICK i \in 1 .. Len(regs) : r = regs[i] /\ r.kind # "free"
      BY <1>1, LiveIs
    <3> QED BY <1>4, <1>6, <3>1
  <2>3. owner[a] = Unmapped
    BY <2>2 DEF Agree
  <2> QED BY <2>1, <2>3
<1>7. CASE in # {}
  <2>1. PICK i : i = CHOOSE j \in in : TRUE
    OBVIOUS
  <2>2. i \in in
    BY <1>7, <2>1
  <2>3. regs[i].kind # "free" /\ Holds(regs[i], a) /\ i \in 1 .. Len(regs)
    BY <1>4, <1>5, <2>2
  <2>4. regs[i] \in Live(regs)
    BY <1>1, <2>3, LiveIs
  <2>5. owner[a] = Shown(regs[i], a)
    BY <2>3, <2>4 DEF Agree
  <2>6. View(a) = Shown(regs[i], a)
    BY <1>2, <1>7, <2>1 DEF View, Shown
  <2> QED BY <2>5, <2>6
<1> QED BY <1>6, <1>7

\* The invariant says what is wanted of the table.
LEMMA MmanIInvIs == MmanIInv => MmanTable
<1> SUFFICES ASSUME MmanIInv PROVE MmanTable
  OBVIOUS
<1>1. TableOK /\ SizesOK /\ Agree(Live(regs), owner) /\ Counted(Live(regs), refs)
  BY DEF MmanIInv
<1>2. regs \in Table /\ Ordered(regs) /\ Apart(regs)
  BY <1>1 DEF TableOK
<1>3. \A a \in Addrs : View(a) = owner[a]
  BY <1>1, ViewIs
<1>4. ASSUME NEW i \in 1 .. Len(regs) - 1
      PROVE  End(regs[i]) <= regs[i + 1].base /\ ~ Mergeable(regs[i], regs[i + 1])
  <2>1. PICK n \in Nat : n = Len(regs)
    BY <1>2, TableIs
  <2>2. i \in 1 .. n /\ i + 1 \in 1 .. n /\ i < i + 1
    BY <2>1
  <2> QED BY <1>2, <2>1, <2>2 DEF Ordered, Apart
<1>5. peak <= capregs /\ Len(regs) <= capregs
  BY <1>1 DEF SizesOK
<1>6. ASSUME NEW f \in FileRefs
      PROVE  refs[f] = Cardinality({i \in DOMAIN regs : regs[i].kind = "file" /\ regs[i].fref = f})
  <2>1. f # NULL
    BY MmanAssumption DEF FileRefs, NULL
  <2>2. refs[f] = Cardinality(Users(Live(regs), f))
    BY <1>1 DEF Counted
  <2> QED BY <1>2, <2>1, <2>2, UsersIndices
<1> QED BY <1>3, <1>4, <1>5, <1>6 DEF MmanTable

\* The memory is a number of units.
LEMMA PagesIs == Pages * PAGE \in Nat
BY MmanAssumption

\* The empty table satisfies the invariant.
LEMMA MmanIInvInit == MmanInit => MmanIInv
<1> SUFFICES ASSUME MmanInit PROVE MmanIInv
  OBVIOUS
<1>1. /\ regs = <<>> /\ capregs = 0 /\ brk = 0 /\ refs = [f \in FileRefs |-> 0]
      /\ owner = [a \in Addrs |-> Unmapped] /\ peak = 0
  BY DEF MmanInit
<1>2. regs \in Table /\ Len(regs) = 0
  BY <1>1 DEF Table
<1>3. 1 .. 0 = {}
  OBVIOUS
<1>4. Live(regs) = {}
  BY <1>2, <1>3 DEF Live
<1>5. TableOK
  <2>1. Ordered(regs) /\ Before(regs, brk)
    BY <1>2, <1>3 DEF Ordered, Before
  <2>2. 1 .. 0 - 1 = {}
    OBVIOUS
  <2>3. Apart(regs)
    BY <1>2, <2>2 DEF Apart
  <2> QED BY <1>1, <1>2, <2>1, <2>3 DEF TableOK
<1>6. SizesOK
  BY <1>1, <1>2, PagesIs DEF SizesOK
<1>7. Agree(Live(regs), owner)
  BY <1>1, <1>4 DEF Agree
<1>8. Counted(Live(regs), refs)
  <2>1. Cardinality({}) = 0
    BY FS_EmptySet
  <2>2. \A f \in FileRefs : Users({}, f) = {}
    BY DEF Users
  <2> QED BY <1>1, <1>4, <2>1, <2>2 DEF Counted
<1>9. refs \in [FileRefs -> Nat]
  BY <1>1
<1> QED BY <1>5, <1>6, <1>7, <1>8, <1>9 DEF MmanIInv

-----------------------------------------------------------------------------
(* The live regions after a call                                            *)

\* An unmapped range
LEMMA UnmapAgrees ==
  ASSUME NEW L, \A r \in L : r \in Region /\ r.kind # "free", Agree(L, owner),
         NEW start \in Nat, NEW len \in Nat \ {0}, NEW o,
         \A a \in Addrs : o[a] = IF a \in Span(start, len) THEN Unmapped ELSE owner[a]
  PROVE  Agree(PiecesOf(L, start, start + len), o)
<1>1. PICK end \in Nat : end = start + len /\ start < end
  OBVIOUS
<1>2. ASSUME NEW a \in Addrs PROVE a \in Nat /\ (a \in Span(start, len) <=> ~(a < start \/ end <= a))
  <2>1. a \in Nat
    BY AddrsAre
  <2> QED BY <1>1, <2>1 DEF Span
<1>3. ASSUME NEW p \in PiecesOf(L, start, end), NEW a \in Addrs, Holds(p, a) PROVE o[a] = Shown(p, a)
  <2>1. PICK r \in L : p \in Pieces(r, start, end)
    BY DEF PiecesOf
  <2>2. r \in Region /\ r.kind # "free" /\ a \in Nat
    BY <1>2
  <2>3. Holds(r, a) /\ (a < start \/ end <= a) /\ Shown(p, a) = Shown(r, a)
    BY <1>1, <1>3, <2>1, <2>2, PieceShows
  <2>4. o[a] = owner[a] /\ owner[a] = Shown(r, a)
    BY <1>2, <2>3 DEF Agree
  <2> QED BY <2>3, <2>4
<1>4. ASSUME NEW a \in Addrs, o[a] # Unmapped PROVE \E p \in PiecesOf(L, start, end) : Holds(p, a)
  <2>1. (a < start \/ end <= a) /\ owner[a] # Unmapped /\ a \in Nat
    BY <1>2, <1>4
  <2>2. PICK r \in L : Holds(r, a)
    BY <2>1 DEF Agree
  <2>3. r \in Region /\ r.kind # "free"
    OBVIOUS
  <2>4. PICK p \in Pieces(r, start, end) : Holds(p, a)
    BY <1>1, <2>1, <2>2, <2>3, PieceHolds
  <2> QED BY <2>4 DEF PiecesOf
<1>5. Agree(PiecesOf(L, start, end), o)
  BY <1>3, <1>4 DEF Agree
<1> QED BY <1>1, <1>5

\* The counts that unmap_range leaves are those of the pieces.
LEMMA UnmapCounts ==
  ASSUME NEW R \in Table, Ordered(R), NEW start \in Nat, NEW end \in Nat, start < end,
         refs \in [FileRefs -> Nat], Counted(Live(R), refs)
  PROVE  Counted(PiecesOf(Live(R), start, end), RefsAfter(R, start, end))
<1>1. ASSUME NEW f \in FileRefs
      PROVE  RefsAfter(R, start, end)[f] = Cardinality(Users(PiecesOf(Live(R), start, end), f))
  <2>1. PICK A : A = Users(Live(R), f)
    OBVIOUS
  <2>2. refs[f] = Cardinality(A)
    BY <2>1 DEF Counted
  <2>3. Cardinality(Users(PiecesOf(Live(R), start, end), f))
          = Cardinality(A) + Cardinality({r \in A : Splits(r, start, end)})
                           - Cardinality({r \in A : Gone(r, start, end)})
    BY <2>1, UsersCount
  <2>4. RefsAfter(R, start, end)[f] = refs[f] + Cardinality({r \in A : Splits(r, start, end)})
                                              - Cardinality({r \in A : Gone(r, start, end)})
    BY <2>1, RefsAfterIs
  <2> QED BY <2>2, <2>3, <2>4
<1> QED BY <1>1 DEF Counted

\* A count is a natural number.
LEMMA CountsAreNaturals ==
  ASSUME NEW R \in Table, NEW c, Counted(Live(R), c), NEW f \in FileRefs
  PROVE  c[f] \in Nat
<1>1. IsFiniteSet(Live(R))
  BY LiveIs
<1>2. Users(Live(R), f) \in SUBSET Live(R)
  BY DEF Users
<1>3. IsFiniteSet(Users(Live(R), f))
  BY <1>1, <1>2, FS_Subset
<1>4. Cardinality(Users(Live(R), f)) \in Nat
  BY <1>3, FS_CardinalityType
<1> QED BY <1>4 DEF Counted

\* A new region
Added(n, base, len, L) ==
  /\ n \in Region /\ n.kind # "free" /\ n.base = base /\ End(n) = base + len
  /\ \A s \in L : s \in Region /\ (End(s) <= base \/ s.base >= base + len)

\* The application knows the addresses of a new region, too.
LEMMA AddAgrees ==
  ASSUME NEW L, NEW n, NEW base \in Nat, NEW len \in Nat \ {0}, Added(n, base, len, L), Agree(L, owner),
         NEW o, \A a \in Addrs : o[a] = IF a \in Span(base, len) THEN Shown(n, a) ELSE owner[a]
  PROVE  Agree(L \cup {n}, o)
<1>0. /\ n.base = base /\ End(n) = base + len
      /\ \A s \in L : s \in Region /\ (End(s) <= base \/ s.base >= base + len)
  BY DEF Added
<1>1. ASSUME NEW a \in Addrs PROVE a \in Nat /\ (a \in Span(base, len) <=> Holds(n, a))
  <2>1. a \in Nat
    BY AddrsAre
  <2>2. a \in Span(base, len) <=> base <= a /\ a < base + len
    BY <2>1 DEF Span
  <2> QED BY <1>0, <2>1, <2>2 DEF Holds
<1>2. ASSUME NEW s \in L, NEW a \in Addrs, Holds(s, a) PROVE a \notin Span(base, len)
  <2>1. PICK b \in Nat, z \in Nat : b = s.base /\ z = End(s) /\ (z <= base \/ b >= base + len)
    BY <1>0, RegionIs
  <2>2. a \in Nat /\ b <= a /\ a < z
    BY <1>1, <1>2, <2>1 DEF Holds
  <2>3. ~(base <= a /\ a < base + len)
    BY <2>1, <2>2
  <2> QED BY <2>2, <2>3 DEF Span
<1>3. ASSUME NEW r \in L \cup {n}, NEW a \in Addrs, Holds(r, a) PROVE o[a] = Shown(r, a)
  <2>1. CASE r = n
    BY <1>1, <1>3, <2>1
  <2>2. CASE r \in L
    <3>1. o[a] = owner[a]
      BY <1>2, <1>3, <2>2
    <3>2. owner[a] = Shown(r, a)
      BY <1>3, <2>2 DEF Agree
    <3> QED BY <3>1, <3>2
  <2> QED BY <2>1, <2>2
<1>4. ASSUME NEW a \in Addrs, o[a] # Unmapped PROVE \E r \in L \cup {n} : Holds(r, a)
  <2>1. CASE a \in Span(base, len)
    BY <1>1, <2>1
  <2>2. CASE a \notin Span(base, len)
    <3>1. owner[a] # Unmapped
      BY <1>4, <2>2
    <3> QED BY <3>1 DEF Agree
  <2> QED BY <2>1, <2>2
<1> QED BY <1>3, <1>4 DEF Agree

\* It uses no descriptor, or one that nobody used.
LEMMA AddCounts ==
  ASSUME NEW L, NEW n, n \notin L, IsFiniteSet(L), Counted(L, refs), refs \in [FileRefs -> Nat],
         NEW f \in FileRefs, refs[f] = 0
  PROVE  /\ n.fref = NULL => Counted(L \cup {n}, refs)
         /\ n.fref = f => Counted(L \cup {n}, [refs EXCEPT ![f] = 1])
<1>1. f # NULL /\ \A g \in FileRefs : g # NULL
  BY MmanAssumption DEF FileRefs, NULL
<1>2. ASSUME NEW g \in FileRefs, n.fref # g PROVE Users(L \cup {n}, g) = Users(L, g)
  BY <1>2 DEF Users
<1>3. n.fref = NULL => Counted(L \cup {n}, refs)
  BY <1>1, <1>2 DEF Counted
<1>4. ASSUME n.fref = f PROVE Counted(L \cup {n}, [refs EXCEPT ![f] = 1])
  <2>1. Users(L, f) = {}
    <3>1. Cardinality(Users(L, f)) = 0
      BY DEF Counted
    <3>2. Users(L, f) \in SUBSET L
      BY DEF Users
    <3>3. IsFiniteSet(Users(L, f))
      BY <3>2, FS_Subset
    <3> QED BY <3>1, <3>3, FS_EmptySet
  <2>2. Users(L \cup {n}, f) = {n}
    BY <1>4, <2>1 DEF Users
  <2>3. Cardinality({n}) = 1
    BY FS_Singleton
  <2>4. ASSUME NEW g \in FileRefs PROVE [refs EXCEPT ![f] = 1][g] = Cardinality(Users(L \cup {n}, g))
    <3>1. CASE g = f
      BY <2>2, <2>3, <3>1
    <3>2. CASE g # f
      <4>1. [refs EXCEPT ![f] = 1][g] = refs[g]
        BY <3>2
      <4>2. Users(L \cup {n}, g) = Users(L, g)
        BY <1>2, <1>4, <3>2
      <4> QED BY <4>1, <4>2 DEF Counted
    <3> QED BY <3>1, <3>2
  <2> QED BY <2>4 DEF Counted
<1> QED BY <1>3, <1>4

-----------------------------------------------------------------------------
(* The calls                                                                *)

\* The capacity after reserve
LEMMA ReservedSizes ==
  ASSUME MmanIInv
  PROVE  /\ Reserved(2) \in Nat /\ capregs \in Nat /\ capregs <= Reserved(2)
         /\ Len(regs) \in Nat /\ Len(regs) + 2 <= Reserved(2)
         /\ peak \in Nat /\ peak <= Reserved(2)
<1>1. regs \in Table /\ capregs \in Nat /\ peak \in Nat /\ peak <= capregs
  BY DEF MmanIInv, TableOK, SizesOK
<1>2. PICK n \in Nat : n = Len(regs)
  BY <1>1, TableIs
<1>3. PICK c \in Nat : c = Reserved(2) /\ c >= capregs /\ c >= n + 2
  BY <1>1, <1>2, ReservedIs
<1>4. capregs <= c /\ n + 2 <= c /\ peak <= c
  BY <1>1, <1>3
<1> QED BY <1>1, <1>2, <1>3, <1>4

\* The live regions, the owners and the counts after the call
LEMMA AfterCall ==
  ASSUME MmanIInv, TableOK', brk' <= Pages * PAGE,
         capregs' = Reserved(2), peak' \in Nat, peak' <= Reserved(2), Len(regs') <= Reserved(2),
         NEW L, Live(regs') = L, Agree(L, owner'), Counted(L, refs'), DOMAIN refs' = FileRefs,
         refs' = [f \in FileRefs |-> refs'[f]]
  PROVE  MmanIInv'
<1>1. SizesOK'
  BY ReservedSizes DEF SizesOK
<1>2. regs' \in Table
  BY DEF TableOK
<1>3. Agree(Live(regs'), owner') /\ Counted(Live(regs'), refs')
  OBVIOUS
<1>4. \A f \in FileRefs : refs'[f] \in Nat
  BY <1>2, <1>3, CountsAreNaturals
<1>5. refs' \in [FileRefs -> Nat]
  BY <1>4
<1>6. Agree(Live(regs), owner)' /\ Counted(Live(regs), refs)'
  BY <1>3 DEF Agree, Counted, Live, Addrs, FileRefs
<1> QED BY <1>1, <1>5, <1>6 DEF MmanIInv

\* munmap: pieces take the place of the regions, their descriptors follow.
LEMMA MunmapOK ==
  ASSUME MmanIInv, NEW start \in Nat, NEW len \in Nat \ {0}, Munmap(start, len)
  PROVE  MmanIInv'
<1>1. PICK end \in Nat : end = start + len /\ start < end
  OBVIOUS
<1>2. /\ capregs' = Reserved(2) /\ peak' = Len(CutAll(regs, start, end))
      /\ regs' = UnmapRange(regs, start, end)
      /\ refs' = RefsAfter(regs, start, end)
      /\ owner' = [a \in Addrs |-> IF a \in Span(start, len) THEN Unmapped ELSE owner[a]]
      /\ brk' = brk
  BY <1>1 DEF Munmap
<1>3. /\ regs \in Table /\ Ordered(regs) /\ Apart(regs) /\ brk \in Nat /\ Before(regs, brk)
      /\ brk <= Pages * PAGE
      /\ refs \in [FileRefs -> Nat] /\ Agree(Live(regs), owner) /\ Counted(Live(regs), refs)
  BY DEF MmanIInv, TableOK, SizesOK
<1>4. PICK U, C : U = UnmapRange(regs, start, end) /\ C = CutAll(regs, start, end)
  OBVIOUS
<1>5. /\ U \in Table /\ Ordered(U) /\ Apart(U)
      /\ Live(U) = UNION {Pieces(r, start, end) : r \in Live(regs)}
      /\ C \in Table /\ Len(U) <= Len(C) /\ Len(C) <= Len(regs) + 2
      /\ \A addr \in Nat : Before(regs, addr) => Before(U, addr)
  BY <1>1, <1>3, <1>4, UnmapRangeIs
<1>6. TableOK'
  <2>1. PICK b \in Nat : b = brk /\ Before(regs, b)
    BY <1>3
  <2>2. Before(U, b)
    BY <1>5, <2>1
  <2> QED BY <1>2, <1>4, <1>5, <2>1, <2>2 DEF TableOK, Ordered, Apart, Before, Table
<1>7. peak' \in Nat /\ peak' <= Reserved(2) /\ Len(regs') <= Reserved(2)
  <2>1. PICK n \in Nat, m \in Nat, l \in Nat, c \in Nat :
          n = Len(regs) /\ m = Len(C) /\ l = Len(U) /\ c = Reserved(2) /\ n + 2 <= c
    BY <1>3, <1>5, ReservedSizes, TableIs
  <2>2. l <= m /\ m <= n + 2
    BY <1>5, <2>1
  <2>3. m <= c /\ l <= c
    BY <2>1, <2>2
  <2> QED BY <1>2, <1>4, <2>1, <2>3
<1>8. PICK L : L = PiecesOf(Live(regs), start, end)
  OBVIOUS
<1>9. Live(regs') = L
  BY <1>2, <1>4, <1>5, <1>8 DEF PiecesOf
<1>10. Agree(L, owner')
  <2>1. \A r \in Live(regs) : r \in Region /\ r.kind # "free"
    BY <1>3, LiveIs
  <2>2. \A a \in Addrs : owner'[a] = IF a \in Span(start, len) THEN Unmapped ELSE owner[a]
    BY <1>2
  <2> QED BY <1>1, <1>3, <1>8, <2>1, <2>2, UnmapAgrees
<1>11. Counted(L, refs')
  BY <1>1, <1>2, <1>3, <1>8, UnmapCounts
<1>12. refs' = [f \in FileRefs |-> refs'[f]]
  BY <1>2 DEF RefsAfter
<1> QED BY <1>2, <1>3, <1>6, <1>7, <1>9, <1>10, <1>11, <1>12, AfterCall

\* mmap of anonymous memory
LEMMA MmapAnonOK ==
  ASSUME MmanIInv, NEW len \in Nat \ {0}, MmapAnon(len)
  PROVE  MmanIInv'
<1>1. PICK q : q = Acquired(len, "anon")
  OBVIOUS
<1>2. /\ q.brk <= Pages * PAGE /\ capregs' = Reserved(2) /\ regs' = q.regs /\ brk' = q.brk
      /\ peak' = Len(q.regs) /\ refs' = refs
      /\ owner' = [a \in Addrs |-> IF a \in Span(q.regs[q.idx].base, len) THEN Anonymous ELSE owner[a]]
  BY <1>1 DEF MmapAnon
<1>3. /\ TableOK /\ regs \in Table
      /\ refs \in [FileRefs -> Nat] /\ Agree(Live(regs), owner) /\ Counted(Live(regs), refs)
  BY DEF MmanIInv, TableOK
<1>4. PICK base \in Nat : AcquiredOK(q, base, len, "anon")
  BY <1>1, <1>3, AcquiredIs
<1>5. PICK n : n = NewRegion(base, len, "anon")
  OBVIOUS
<1>6. /\ n \in Region /\ n.kind = "anon" /\ n.kind # "free" /\ n.base = base
      /\ End(n) = base + len /\ n.fref = NULL
  BY <1>5, NewRegionIs
<1>7. /\ q.regs \in Table /\ Ordered(q.regs) /\ Apart(q.regs)
      /\ q.regs[q.idx] = n /\ Live(q.regs) = Live(regs) \cup {n}
      /\ Len(q.regs) <= Len(regs) + 1 /\ q.brk \in Nat /\ Before(q.regs, q.brk)
      /\ \A s \in Live(regs) : End(s) <= base \/ s.base >= base + len
  BY <1>4, <1>5 DEF AcquiredOK
<1>8. TableOK'
  BY <1>2, <1>7 DEF TableOK, Ordered, Apart, Before, Table
<1>9. peak' \in Nat /\ peak' <= Reserved(2) /\ Len(regs') <= Reserved(2)
  <2>1. PICK l \in Nat, m \in Nat, c \in Nat : l = Len(regs) /\ m = Len(q.regs) /\ c = Reserved(2) /\ l + 2 <= c
    BY <1>3, <1>7, ReservedSizes, TableIs
  <2>2. m <= l + 1
    BY <1>7, <2>1
  <2>3. m <= c
    BY <2>1, <2>2
  <2> QED BY <1>2, <2>1, <2>3
<1>10. PICK L : L = Live(regs)
  OBVIOUS
<1>11. Added(n, base, len, L)
  BY <1>3, <1>6, <1>7, <1>10, LiveIs DEF Added
<1>12. Agree(L \cup {n}, owner')
  <2>1. \A a : Shown(n, a) = Anonymous
    BY <1>6 DEF Shown
  <2>2. \A a \in Addrs : owner'[a] = IF a \in Span(base, len) THEN Shown(n, a) ELSE owner[a]
    BY <1>2, <1>6, <1>7, <2>1
  <2> QED BY <1>3, <1>10, <1>11, <2>2, AddAgrees
<1>13. Counted(L \cup {n}, refs')
  <2>1. ASSUME NEW f \in FileRefs PROVE Users(L \cup {n}, f) = Users(L, f)
    <3>1. f # NULL
      BY MmanAssumption DEF FileRefs, NULL
    <3> QED BY <1>6, <3>1 DEF Users
  <2> QED BY <1>2, <1>3, <1>10, <2>1 DEF Counted
<1>14. Live(regs') = L \cup {n}
  BY <1>2, <1>7, <1>10
<1>15. refs' = [f \in FileRefs |-> refs'[f]]
  BY <1>2, <1>3
<1> QED BY <1>2, <1>8, <1>9, <1>12, <1>13, <1>14, <1>15, AfterCall

\* Calls that leave the table alone, or only make room
LEMMA CapacityOnly ==
  ASSUME MmanIInv, capregs' = capregs \/ capregs' = Reserved(2),
         UNCHANGED <<regs, peak, brk, refs, owner>>
  PROVE  MmanIInv'
<1>1. capregs' \in Nat /\ peak <= capregs' /\ Len(regs) <= capregs'
  <2>1. PICK l \in Nat, c \in Nat : l = Len(regs) /\ c = Reserved(2) /\ l + 2 <= c /\ peak <= c
    BY ReservedSizes
  <2>2. capregs \in Nat /\ peak <= capregs /\ l <= capregs
    BY <2>1 DEF MmanIInv, SizesOK
  <2>3. l <= c
    BY <2>1
  <2> QED BY <2>1, <2>2, <2>3
<1>2. TableOK' /\ SizesOK'
  BY <1>1 DEF MmanIInv, TableOK, SizesOK, Ordered, Apart, Before, Table
<1>3. Agree(Live(regs), owner)' /\ Counted(Live(regs), refs)' /\ refs' \in [FileRefs -> Nat]
  BY DEF MmanIInv, Agree, Counted, Live, Addrs, FileRefs
<1> QED BY <1>2, <1>3 DEF MmanIInv

\* malloc moves the end of the memory, and the table stays before it.
LEMMA HeapGrowOK ==
  ASSUME MmanIInv, HeapGrow
  PROVE  MmanIInv'
<1>1. /\ brk' = brk + PAGE /\ brk + PAGE <= Pages * PAGE
      /\ UNCHANGED <<regs, capregs, peak, refs, owner>>
  BY DEF HeapGrow
<1>2. regs \in Table /\ Ordered(regs) /\ Apart(regs) /\ brk \in Nat /\ Before(regs, brk)
  BY DEF MmanIInv, TableOK
<1>3. brk' \in Nat /\ brk <= brk'
  BY <1>1, <1>2, MmanAssumption
<1>4. Before(regs, brk')
  <2>1. ASSUME NEW i \in 1 .. Len(regs) PROVE End(regs[i]) <= brk'
    <3>1. PICK e \in Nat : e = End(regs[i]) /\ e <= brk
      BY <1>2, TableIs DEF Before
    <3> QED BY <1>2, <1>3, <3>1
  <2> QED BY <2>1 DEF Before
<1>5. TableOK'
  BY <1>1, <1>2, <1>3, <1>4 DEF TableOK, Ordered, Apart, Before, Table
<1>6. SizesOK'
  BY <1>1 DEF MmanIInv, SizesOK
<1>7. Agree(Live(regs), owner)' /\ Counted(Live(regs), refs)' /\ refs' \in [FileRefs -> Nat]
  BY <1>1, ZenonT(60) DEF MmanIInv, Agree, Counted, Live, Addrs, FileRefs
<1> QED BY <1>5, <1>6, <1>7 DEF MmanIInv

\* The new region becomes a file mapping.
FileRegion(base, len, off, dlen, fref) ==
  [base |-> base, len |-> len, kind |-> "file", dirty |-> FALSE, fref |-> fref, off |-> off, dlen |-> dlen]

\* The table q.regs with the region n, in place of the new one
Filled(U, q, n) ==
  /\ DOMAIN U = DOMAIN q.regs /\ U[q.idx] = n
  /\ \A j \in DOMAIN q.regs : j # q.idx => U[j] = q.regs[j]

\* The new region with what the file gave
LEMMA FilledRegion ==
  ASSUME NEW base, NEW len, NEW off, NEW dlen, NEW fref
  PROVE  [NewRegion(base, len, "file") EXCEPT !.off = off, !.dlen = dlen, !.fref = fref]
           = FileRegion(base, len, off, dlen, fref)
<1>1. PICK x : x = NewRegion(base, len, "file")
  OBVIOUS
<1>2. x = [base |-> base, len |-> len, kind |-> "file", dirty |-> FALSE, fref |-> NULL, off |-> 0, dlen |-> 0]
  BY <1>1 DEF NewRegion
<1>3. PICK y : y = [x EXCEPT !.off = off]
  OBVIOUS
<1>4. y = [base |-> base, len |-> len, kind |-> "file", dirty |-> FALSE, fref |-> NULL, off |-> off, dlen |-> 0]
  BY <1>2, <1>3
<1>5. PICK z : z = [y EXCEPT !.dlen = dlen]
  OBVIOUS
<1>6. z = [base |-> base, len |-> len, kind |-> "file", dirty |-> FALSE, fref |-> NULL, off |-> off, dlen |-> dlen]
  BY <1>4, <1>5
<1>7. PICK w : w = [z EXCEPT !.fref = fref]
  OBVIOUS
<1>8. w = [base |-> base, len |-> len, kind |-> "file", dirty |-> FALSE, fref |-> fref, off |-> off, dlen |-> dlen]
  BY <1>6, <1>7
<1>9. w = FileRegion(base, len, off, dlen, fref)
  BY <1>8 DEF FileRegion
<1>10. [x EXCEPT !.off = off, !.dlen = dlen, !.fref = fref] = [z EXCEPT !.fref = fref]
  BY <1>3, <1>5
<1> QED BY <1>1, <1>7, <1>9, <1>10

\* The table with the file mapping in the place of the new region
LEMMA FilledTable ==
  ASSUME NEW q, NEW base \in Nat, NEW len \in Nat \ {0}, AcquiredOK(q, base, len, "file"), regs \in Table,
         NEW n \in Region, n.kind = "file", n.base = base, End(n) = base + len,
         NEW U, U \in Seq(Region), Filled(U, q, n)
  PROVE  /\ U \in Table /\ Len(U) = Len(q.regs) /\ Ordered(U) /\ Apart(U) /\ Before(U, q.brk)
         /\ Live(U) = Live(regs) \cup {n} /\ n \notin Live(regs)
<1>1. PICK T, i, x : T = q.regs /\ i = q.idx /\ x = NewRegion(base, len, "file")
  OBVIOUS
<1>2. /\ T \in Table /\ Ordered(T) /\ Apart(T)
      /\ i \in 1 .. Len(T) /\ T[i] = x /\ Live(T) = Live(regs) \cup {x} /\ Before(T, q.brk)
      /\ \A s \in Live(regs) : End(s) <= base \/ s.base >= base + len
  BY <1>1 DEF AcquiredOK
<1>3. x \in Region /\ x.kind = "file" /\ x.base = base /\ End(x) = base + len
  BY <1>1, NewRegionIs, ZenonT(60)
<1>4. DOMAIN U = DOMAIN T /\ U[i] = n /\ \A j \in DOMAIN T : j # i => U[j] = T[j]
  BY <1>1 DEF Filled
<1>5. PICK l \in Nat : l = Len(T) /\ DOMAIN T = 1 .. l
  BY <1>2, TableIs
<1>6. U \in Table
  BY DEF Table
<1>7. Len(U) = l
  <2>1. PICK m \in Nat : m = Len(U) /\ DOMAIN U = 1 .. m
    BY <1>6, TableIs
  <2> QED BY <1>4, <1>5, <2>1
<1>8. ASSUME NEW j \in 1 .. l
      PROVE  U[j].base = T[j].base /\ End(U[j]) = End(T[j]) /\ (U[j].kind = "free" <=> T[j].kind = "free")
  <2>1. CASE j = i
    BY <1>2, <1>3, <1>4, <2>1
  <2>2. CASE j # i
    BY <1>4, <1>5, <2>2
  <2> QED BY <2>1, <2>2
<1>9. Ordered(U)
  BY <1>2, <1>5, <1>7, <1>8 DEF Ordered
<1>10. Apart(U)
  <2>1. ASSUME NEW j \in 1 .. l - 1 PROVE ~ Mergeable(U[j], U[j + 1])
    <3>1. j \in 1 .. l /\ j + 1 \in 1 .. l
      OBVIOUS
    <3>2. ~ Mergeable(T[j], T[j + 1])
      BY <1>2, <1>5 DEF Apart
    <3> QED BY <1>8, <3>1, <3>2 DEF Mergeable
  <2> QED BY <1>7, <2>1 DEF Apart
<1>11. Before(U, q.brk)
  BY <1>2, <1>5, <1>7, <1>8 DEF Before
<1>12. ASSUME NEW s \in Live(regs) PROVE s # n /\ s # x
  <2>1. PICK b \in Nat, z \in Nat : b = s.base /\ z = End(s) /\ b < z
    BY LiveIs, RegionIs
  <2>2. z <= base \/ b >= base + len
    BY <1>2, <2>1
  <2>3. b # base
    BY <2>1, <2>2
  <2> QED BY <1>3, <2>1, <2>3
<1>13. ASSUME NEW r \in Live(U) PROVE r \in Live(regs) \cup {n}
  <2>1. PICK j \in 1 .. l : r = U[j] /\ r.kind # "free"
    BY <1>6, <1>7, LiveIs
  <2>2. CASE j = i
    BY <1>4, <2>1, <2>2
  <2>3. CASE j # i
    <3>1. r = T[j] /\ r \in Live(T)
      BY <1>2, <1>4, <1>5, <2>1, <2>3, LiveIs
    <3>2. r # x
      <4>1. PICK b \in Nat, z \in Nat : b = T[j].base /\ z = End(T[j]) /\ b < z
        BY <1>2, <1>5, TableIs
      <4>2. CASE j < i
        <5>1. z <= base
          BY <1>2, <1>3, <1>5, <4>1, <4>2 DEF Ordered
        <5>2. b # base
          BY <4>1, <5>1
        <5> QED BY <1>3, <3>1, <4>1, <5>2
      <4>3. CASE i < j
        <5>1. base + len <= b
          BY <1>2, <1>3, <1>5, <4>1, <4>3 DEF Ordered
        <5>2. b # base
          BY <5>1
        <5> QED BY <1>3, <3>1, <4>1, <5>2
      <4>4. j \in Nat /\ i \in Nat
        BY <1>2
      <4> QED BY <2>3, <4>2, <4>3, <4>4
    <3> QED BY <1>2, <3>1, <3>2
  <2> QED BY <2>2, <2>3
<1>14. n \in Live(U)
  <2>1. U[i].kind # "free" /\ i \in 1 .. Len(U)
    BY <1>2, <1>4, <1>5, <1>7
  <2> QED BY <1>4, <1>6, <2>1, LiveIs
<1>15. ASSUME NEW s \in Live(regs) PROVE s \in Live(U)
  <2>1. s \in Live(T) /\ s # x
    BY <1>2, <1>12
  <2>2. PICK j \in 1 .. l : s = T[j] /\ s.kind # "free"
    BY <1>2, <1>5, <2>1, LiveIs
  <2>3. U[j] = s
    BY <1>2, <1>4, <1>5, <2>1, <2>2
  <2> QED BY <1>6, <1>7, <2>2, <2>3, LiveIs
<1>16. Live(U) = Live(regs) \cup {n}
  BY <1>13, <1>14, <1>15
<1> QED BY <1>1, <1>5, <1>6, <1>7, <1>9, <1>10, <1>11, <1>12, <1>16

\* The file has at most as many bytes as are mapped.
LEMMA BackedFits ==
  ASSUME NEW off \in Nat, NEW len \in Nat
  PROVE  Backed(off, len) \in Nat /\ Backed(off, len) <= len
BY MmanAssumption DEF Backed

\* mmap of a file: a new descriptor had no users before.
LEMMA MmapFileOK ==
  ASSUME MmanIInv, NEW len \in Nat \ {0}, NEW off \in Nat, NEW shared \in BOOLEAN,
         MmapFile(len, off, shared)
  PROVE  MmanIInv'
<1>1. PICK q, d : q = Acquired(len, "file") /\ d = Backed(off, len)
  OBVIOUS
<1>2. d \in Nat
  BY <1>1, BackedFits
<1>3. /\ TableOK /\ regs \in Table
      /\ refs \in [FileRefs -> Nat] /\ Agree(Live(regs), owner) /\ Counted(Live(regs), refs)
  BY DEF MmanIInv, TableOK
<1>4. PICK base \in Nat : AcquiredOK(q, base, len, "file")
  BY <1>1, <1>3, AcquiredIs
<1>5. /\ q.regs \in Table /\ q.idx \in 1 .. Len(q.regs) /\ q.regs[q.idx] = NewRegion(base, len, "file")
      /\ Len(q.regs) <= Len(regs) + 1 /\ q.brk \in Nat
      /\ \A s \in Live(regs) : End(s) <= base \/ s.base >= base + len
  BY <1>4 DEF AcquiredOK
<1>6. q.regs[q.idx].base = base
  BY <1>5, NewRegionIs
<1>7. /\ q.brk <= Pages * PAGE /\ capregs' = Reserved(2) /\ brk' = q.brk /\ peak' = Len(q.regs)
      /\ \E f \in FileRefs :
          /\ refs[f] = 0
          /\ regs' = [q.regs EXCEPT ![q.idx].off = off, ![q.idx].dlen = d,
                                    ![q.idx].fref = IF shared THEN f ELSE NULL]
          /\ refs' = IF shared THEN [refs EXCEPT ![f] = 1] ELSE refs
      /\ owner' = [a \in Addrs |->
                    IF a \notin Span(base, len) THEN owner[a]
                    ELSE [kind |-> "file", shared |-> shared,
                          off |-> IF a - base < d THEN off + (a - base) ELSE -1]]
  BY <1>1, <1>6 DEF MmapFile
<1>8. PICK f \in FileRefs :
          /\ refs[f] = 0
          /\ regs' = [q.regs EXCEPT ![q.idx].off = off, ![q.idx].dlen = d,
                                    ![q.idx].fref = IF shared THEN f ELSE NULL]
          /\ refs' = IF shared THEN [refs EXCEPT ![f] = 1] ELSE refs
  BY <1>7
<1>9. f \in Nat /\ f # NULL
  BY MmanAssumption DEF FileRefs, NULL
<1>10. PICK g \in Nat : g = IF shared THEN f ELSE NULL
  BY <1>9 DEF NULL
<1>11. PICK n : n = FileRegion(base, len, off, d, g)
  OBVIOUS
<1>12. /\ n \in Region /\ n.kind = "file" /\ n.kind # "free" /\ n.base = base /\ End(n) = base + len
       /\ n.fref = g /\ n.off = off /\ n.dlen = d
  <2>1. /\ n.kind = "file" /\ n.kind # "free" /\ n.base = base /\ n.len = len
        /\ n.fref = g /\ n.off = off /\ n.dlen = d
    BY <1>11 DEF FileRegion
  <2>2. n \in Region
    BY <1>2, <1>11 DEF FileRegion, Region
  <2> QED BY <2>1, <2>2 DEF End
<1>13. PICK U : U = [q.regs EXCEPT ![q.idx].off = off, ![q.idx].dlen = d, ![q.idx].fref = g]
  OBVIOUS
<1>14. Filled(U, q, n)
  <2>1. PICK T, i : T = q.regs /\ i = q.idx
    OBVIOUS
  <2>2. i \in DOMAIN T /\ T[i] = NewRegion(base, len, "file")
    BY <1>5, <2>1, TableIs
  <2>3. PICK W : W = [T EXCEPT ![i].off = off, ![i].dlen = d, ![i].fref = g]
    OBVIOUS
  <2>4. /\ DOMAIN W = DOMAIN T /\ W[i] = FileRegion(base, len, off, d, g)
        /\ \A j \in DOMAIN T : j # i => W[j] = T[j]
    <3>1. DOMAIN W = DOMAIN T /\ \A j \in DOMAIN T : j # i => W[j] = T[j]
      BY <2>3
    <3>2. PICK x : x = T[i]
      OBVIOUS
    <3>3. W[i] = [x EXCEPT !.off = off, !.dlen = d, !.fref = g]
      BY <2>2, <2>3, <3>2
    <3>4. W[i] = [NewRegion(base, len, "file") EXCEPT !.off = off, !.dlen = d, !.fref = g]
      BY <2>2, <3>2, <3>3
    <3> QED BY <3>1, <3>4, FilledRegion
  <2>5. W = U
    BY <1>13, <2>1, <2>3
  <2> QED BY <1>11, <2>1, <2>4, <2>5 DEF Filled
<1>15. regs' = U
  BY <1>8, <1>10, <1>13
<1>16. U \in Seq(Region)
  <2>1. PICK l \in Nat : l = Len(q.regs) /\ DOMAIN q.regs = 1 .. l /\ \A j \in 1 .. l : q.regs[j] \in Region
    BY <1>5, TableIs
  <2>2. DOMAIN U = 1 .. l /\ \A j \in 1 .. l : U[j] \in Region
    <3>1. ASSUME NEW j \in 1 .. l PROVE U[j] \in Region
      <4>1. CASE j = q.idx
        BY <1>12, <1>14, <4>1 DEF Filled
      <4>2. CASE j # q.idx
        BY <1>14, <2>1, <4>2 DEF Filled
      <4> QED BY <4>1, <4>2
    <3> QED BY <1>14, <2>1, <3>1 DEF Filled
  <2>3. U = [j \in 1 .. l |-> U[j]]
    <3>1. U = [j \in DOMAIN q.regs |-> U[j]]
      BY <1>13
    <3> QED BY <2>1, <3>1
  <2> QED BY <2>2, <2>3
<1>17. /\ U \in Table /\ Len(U) = Len(q.regs) /\ Ordered(U) /\ Apart(U) /\ Before(U, q.brk)
       /\ Live(U) = Live(regs) \cup {n} /\ n \notin Live(regs)
  BY <1>3, <1>4, <1>12, <1>14, <1>16, FilledTable
<1>18. TableOK'
  BY <1>5, <1>7, <1>15, <1>17 DEF TableOK, Ordered, Apart, Before, Table
<1>19. peak' \in Nat /\ peak' <= Reserved(2) /\ Len(regs') <= Reserved(2)
  <2>1. PICK l \in Nat, m \in Nat, c \in Nat : l = Len(regs) /\ m = Len(q.regs) /\ c = Reserved(2) /\ l + 2 <= c
    BY <1>3, <1>5, ReservedSizes, TableIs
  <2>2. m <= l + 1
    BY <1>5, <2>1
  <2>3. m <= c
    BY <2>1, <2>2
  <2> QED BY <1>7, <1>15, <1>17, <2>1, <2>3
<1>20. PICK L : L = Live(regs)
  OBVIOUS
<1>21. IsFiniteSet(L) /\ \A s \in L : s \in Region
  BY <1>3, <1>20, LiveIs
<1>22. Added(n, base, len, L)
  BY <1>5, <1>12, <1>20, <1>21 DEF Added
<1>23. Agree(L \cup {n}, owner')
  <2>1. \A a : Shown(n, a) = [kind |-> "file", shared |-> shared,
                              off |-> IF a - base < d THEN off + (a - base) ELSE -1]
    <3>1. (n.fref # NULL) = shared
      <4>1. CASE shared = TRUE
        BY <1>9, <1>10, <1>12, <4>1
      <4>2. CASE shared = FALSE
        BY <1>10, <1>12, <4>2
      <4> QED BY <4>1, <4>2
    <3> QED BY <1>12, <3>1 DEF Shown
  <2>2. \A a \in Addrs : owner'[a] = IF a \in Span(base, len) THEN Shown(n, a) ELSE owner[a]
    BY <1>7, <2>1
  <2> QED BY <1>3, <1>20, <1>22, <2>2, AddAgrees
<1>24. Counted(L \cup {n}, refs')
  <2>1. /\ n.fref = NULL => Counted(L \cup {n}, refs)
        /\ n.fref = f => Counted(L \cup {n}, [refs EXCEPT ![f] = 1])
    BY <1>3, <1>8, <1>17, <1>20, <1>21, AddCounts
  <2>2. CASE shared = TRUE
    <3>1. n.fref = f /\ refs' = [refs EXCEPT ![f] = 1]
      BY <1>8, <1>10, <1>12, <2>2
    <3> QED BY <2>1, <3>1
  <2>3. CASE shared = FALSE
    <3>1. n.fref = NULL /\ refs' = refs
      BY <1>8, <1>10, <1>12, <2>3
    <3> QED BY <2>1, <3>1
  <2> QED BY <2>2, <2>3
<1>25. Live(regs') = L \cup {n}
  BY <1>15, <1>17, <1>20
<1>26. refs' = [h \in FileRefs |-> refs'[h]]
  BY <1>3, <1>8
<1> QED BY <1>7, <1>18, <1>19, <1>23, <1>24, <1>25, <1>26, AfterCall

\* pread failed: the new region is given back, and nothing else changes.
LEMMA MmapFileFailsOK ==
  ASSUME MmanIInv, NEW len \in Nat \ {0}, NEW off \in Nat, MmapFileFails(len, off)
  PROVE  MmanIInv'
<1>1. PICK q : q = Acquired(len, "file")
  OBVIOUS
<1>2. /\ TableOK /\ regs \in Table
      /\ refs \in [FileRefs -> Nat] /\ Agree(Live(regs), owner) /\ Counted(Live(regs), refs)
  BY DEF MmanIInv, TableOK
<1>3. PICK base \in Nat : AcquiredOK(q, base, len, "file")
  BY <1>1, <1>2, AcquiredIs
<1>4. PICK end \in Nat : end = base + len /\ base < end
  OBVIOUS
<1>5. PICK x : x = NewRegion(base, len, "file")
  OBVIOUS
<1>6. x \in Region /\ x.kind = "file" /\ x.kind # "free" /\ x.base = base /\ End(x) = end
  BY <1>4, <1>5, NewRegionIs
<1>7. PICK T : T = q.regs
  OBVIOUS
<1>8. /\ T \in Table /\ Ordered(T) /\ Apart(T) /\ q.idx \in 1 .. Len(T) /\ T[q.idx] = x
      /\ Live(T) = Live(regs) \cup {x} /\ Len(T) <= Len(regs) + 1
      /\ q.brk \in Nat /\ Before(T, q.brk)
      /\ \A s \in Live(regs) : End(s) <= base \/ s.base >= end
  BY <1>3, <1>4, <1>5, <1>7 DEF AcquiredOK
<1>9. /\ q.brk <= Pages * PAGE /\ capregs' = Reserved(2) /\ brk' = q.brk /\ peak' = Len(T)
      /\ regs' = UnmapRange(T, base, end) /\ refs' = refs /\ owner' = owner
  BY <1>1, <1>4, <1>6, <1>7, <1>8 DEF MmapFileFails
<1>10. PICK U, C : U = UnmapRange(T, base, end) /\ C = CutAll(T, base, end)
  OBVIOUS
<1>11. /\ U \in Table /\ Ordered(U) /\ Apart(U)
       /\ Live(U) = UNION {Pieces(r, base, end) : r \in Live(T)}
       /\ C \in Table /\ Len(U) <= Len(C)
       /\ (\A i \in 1 .. Len(T) : HeadCut(T[i], base) = 0 /\ TailCut(T[i], end) = 0) => Len(C) <= Len(T)
       /\ \A addr \in Nat : Before(T, addr) => Before(U, addr)
  BY <1>4, <1>8, <1>10, UnmapRangeIs
<1>12. TableOK'
  BY <1>8, <1>9, <1>10, <1>11 DEF TableOK, Ordered, Apart, Before, Table
<1>13. ASSUME NEW i \in 1 .. Len(T) PROVE HeadCut(T[i], base) = 0 /\ TailCut(T[i], end) = 0
  <2>1. PICK b \in Nat, z \in Nat : b = T[i].base /\ z = End(T[i]) /\ b < z
    BY <1>8, TableIs
  <2>2. z <= base \/ b >= end \/ (b = base /\ z = end)
    <3>1. CASE i < q.idx
      BY <1>6, <1>8, <2>1, <3>1 DEF Ordered
    <3>2. CASE q.idx < i
      <4>1. end <= b
        BY <1>6, <1>8, <2>1, <3>2 DEF Ordered
      <4> QED BY <2>1, <4>1
    <3>3. CASE i = q.idx
      BY <1>6, <1>8, <2>1, <3>3
    <3>4. i \in Nat /\ q.idx \in Nat
      BY <1>8
    <3> QED BY <3>1, <3>2, <3>3, <3>4
  <2>3. ~(b < base /\ base < z) /\ ~(b < end /\ end < z)
    BY <1>4, <2>1, <2>2
  <2> QED BY <2>1, <2>3 DEF HeadCut, TailCut
<1>14. peak' \in Nat /\ peak' <= Reserved(2) /\ Len(regs') <= Reserved(2)
  <2>1. PICK l \in Nat, m \in Nat, c \in Nat : l = Len(regs) /\ m = Len(T) /\ c = Reserved(2) /\ l + 2 <= c
    BY <1>2, <1>8, ReservedSizes, TableIs
  <2>2. PICK u \in Nat, k \in Nat : u = Len(U) /\ k = Len(C)
    BY <1>11, TableIs
  <2>3. m <= l + 1 /\ u <= k /\ k <= m
    BY <1>8, <1>11, <1>13, <2>1, <2>2
  <2>4. m <= c /\ u <= c
    BY <2>1, <2>2, <2>3
  <2> QED BY <1>9, <1>10, <2>1, <2>2, <2>4
<1>15. ASSUME NEW s \in Live(regs) PROVE Pieces(s, base, end) = {s}
  <2>1. PICK b \in Nat, z \in Nat : b = s.base /\ z = End(s) /\ b < z
    BY <1>2, LiveIs, RegionIs
  <2>2. z <= base \/ b >= end
    BY <1>8, <2>1
  <2>3. ~ Overlaps(s, base, end)
    BY <2>1, <2>2 DEF Overlaps
  <2> QED BY <2>3 DEF Pieces
<1>16. Pieces(x, base, end) = {}
  <2>1. ~(base < base) /\ ~(end < end)
    BY <1>4
  <2>2. Overlaps(x, base, end)
    BY <1>4, <1>6 DEF Overlaps
  <2> QED BY <1>6, <2>1, <2>2 DEF Pieces
<1>17. Live(U) = Live(regs)
  <2>1. ASSUME NEW p \in Live(U) PROVE p \in Live(regs)
    <3>1. PICK r \in Live(T) : p \in Pieces(r, base, end)
      BY <1>11
    <3> QED BY <1>8, <1>15, <1>16, <3>1
  <2>2. ASSUME NEW p \in Live(regs) PROVE p \in Live(U)
    <3>1. p \in Live(T) /\ p \in Pieces(p, base, end)
      BY <1>8, <1>15
    <3> QED BY <1>11, <3>1
  <2> QED BY <2>1, <2>2
<1>18. PICK L : L = Live(regs)
  OBVIOUS
<1>19. Live(regs') = L
  BY <1>9, <1>10, <1>17, <1>18
<1>20. Agree(L, owner') /\ Counted(L, refs')
  BY <1>2, <1>9, <1>18
<1>21. refs' = [h \in FileRefs |-> refs'[h]]
  BY <1>2, <1>9
<1> QED BY <1>9, <1>12, <1>14, <1>19, <1>20, <1>21, AfterCall

\* The step relation
LEMMA MmanStep == MmanIInv /\ [MmanNext]_mmanVars => MmanIInv'
<1> SUFFICES ASSUME MmanIInv, [MmanNext]_mmanVars PROVE MmanIInv'
  OBVIOUS
<1>1. \A n \in Nat \ {0} : n * PAGE \in Nat \ {0}
  BY MmanAssumption
<1>2. ASSUME NEW n \in MapLens PROVE n * PAGE \in Nat \ {0}
  BY <1>1, MmanAssumption
<1>3. PageStarts \subseteq Nat
  <2>1. \A p \in Nat : p * PAGE \in Nat
    BY MmanAssumption
  <2> QED BY <2>1 DEF PageStarts
<1>4. PageLens \subseteq Nat \ {0}
  <2>1. \A p \in 1 .. Pages : p \in Nat \ {0}
    BY MmanAssumption
  <2> QED BY <1>1, <2>1 DEF PageLens
<1>5. ASSUME NEW n \in MapLens, MmapNoMemory(n * PAGE) PROVE MmanIInv'
  BY <1>5, CapacityOnly DEF MmapNoMemory
<1>6. ASSUME NEW n \in MapLens, MmapAnon(n * PAGE) PROVE MmanIInv'
  BY <1>2, <1>6, MmapAnonOK
<1>7. ASSUME NEW n \in MapLens, NEW off \in PageStarts, NEW shared \in BOOLEAN, MmapFile(n * PAGE, off, shared)
      PROVE  MmanIInv'
  BY <1>2, <1>3, <1>7, MmapFileOK
<1>8. ASSUME NEW n \in MapLens, NEW off \in PageStarts, MmapFileFails(n * PAGE, off)
      PROVE  MmanIInv'
  BY <1>2, <1>3, <1>8, MmapFileFailsOK
<1>9. ASSUME NEW start \in PageStarts, NEW len \in PageLens, Munmap(start, len) PROVE MmanIInv'
  BY <1>3, <1>4, <1>9, MunmapOK
<1>10. ASSUME NEW start \in PageStarts, NEW len \in PageLens, Msync(start, len) PROVE MmanIInv'
  BY <1>10, CapacityOnly DEF Msync
<1>11. CASE MunmapNoMemory
  BY <1>11, CapacityOnly DEF MunmapNoMemory
<1>12. CASE HeapGrow
  BY <1>12, HeapGrowOK
<1>13. ASSUME NEW a \in Addrs, AppWrite(a) PROVE MmanIInv'
  BY <1>13, CapacityOnly DEF AppWrite
<1>14. CASE UNCHANGED mmanVars
  BY <1>14, CapacityOnly DEF mmanVars
<1> QED BY <1>5, <1>6, <1>7, <1>8, <1>9, <1>10, <1>11, <1>12, <1>13, <1>14 DEF MmanNext

\* MmanTable, for tables of any length, files and memory of any size and any
\* sequence of calls: see Mman.
THEOREM TableAlwaysRight == MmanSpec => []MmanTable
<1>1. MmanInit => MmanIInv
  BY MmanIInvInit
<1>2. MmanIInv /\ [MmanNext]_mmanVars => MmanIInv'
  BY MmanStep
<1>3. MmanIInv => MmanTable
  BY MmanIInvIs
<1> QED BY <1>1, <1>2, <1>3, PTL DEF MmanSpec

-----------------------------------------------------------------------------
(* What is written back                                                     *)

\* The offset o of the file is at this address, if the region shows it at all.
Place(r, o) == r.base + (o - r.off)

\* writeback of the region r takes the offset o from memory.
Hit(r, start, end, o) ==
  /\ Place(r, o) >= From(r, start) /\ Place(r, o) < To(r, end)
  /\ Place(r, o) < r.base + r.dlen

\* writeback, offset by offset
LEMMA WritebackDef ==
  \A r, start, end, F :
    Writeback(r, start, end, F) = [o \in Offsets |-> IF Hit(r, start, end, o) THEN mem[Place(r, o)] ELSE F[o]]
BY DEF Writeback, Hit, Place

\* The loop of WritebackAll
IsWriting(w, R, W, start, end) ==
  w = [k \in 0 .. Len(R) |->
         IF k = 0 THEN file ELSE IF k \in W THEN Writeback(R[k], start, end, w[k - 1]) ELSE w[k - 1]]

\* WritebackAll takes the end of the loop.
LEMMA WritebackAllDef ==
  \A R, W, start, end : WritebackAll(R, W, start, end) = (CHOOSE w : IsWriting(w, R, W, start, end))[Len(R)]
BY DEF WritebackAll, IsWriting

\* What a file holds comes from the file or from memory.
Contents == {mem[a] : a \in Int} \cup {file[o] : o \in Offsets}

\* Offsets are natural numbers.
LEMMA OffsetsAre == Offsets \subseteq Nat
BY DEF Offsets

\* writeback leaves a file.
LEMMA WritebackIs ==
  ASSUME NEW r \in Region, NEW start, NEW end, NEW F \in [Offsets -> Contents]
  PROVE  Writeback(r, start, end, F) \in [Offsets -> Contents]
<1>1. ASSUME NEW o \in Offsets PROVE mem[Place(r, o)] \in Contents /\ F[o] \in Contents
  <2>1. r.base \in Nat /\ r.off \in Nat /\ o \in Nat
    BY RegionIs, OffsetsAre
  <2>2. Place(r, o) \in Int
    BY <2>1 DEF Place
  <2> QED BY <2>2 DEF Contents
<1> QED BY <1>1, WritebackDef

\* The loop is defined.
LEMMA WritingExists ==
  ASSUME NEW R \in Table, NEW W, NEW start, NEW end, file \in [Offsets -> Contents]
  PROVE  \E w : IsWriting(w, R, W, start, end) /\ w \in [0 .. Len(R) -> [Offsets -> Contents]]
<1>0. PICK n \in Nat : n = Len(R)
  BY TableIs
<1>s. PICK S : S = [Offsets -> Contents]
  OBVIOUS
<1>f. PICK first \in S : first = file
  BY <1>s
<1> DEFINE next(k, F) == IF k \in W THEN Writeback(R[k], start, end, F) ELSE F
           step == [x \in (1 .. n) \X S |-> next(x[1], x[2])]
<1>1. ASSUME NEW k \in 1 .. n, NEW F \in S PROVE next(k, F) \in S
  <2>1. R[k] \in Region
    BY <1>0, TableIs
  <2> QED BY <1>s, <2>1, WritebackIs
<1> HIDE DEF next
<1>2. ASSUME NEW k \in 1 .. n, NEW F \in S
      PROVE  step[<<k, F>>] = next(k, F)
  <2>1. <<k, F>> \in (1 .. n) \X S /\ <<k, F>>[1] = k /\ <<k, F>>[2] = F
    OBVIOUS
  <2> QED BY <2>1
<1>3. step \in [(1 .. n) \X S -> S]
  <2>1. ASSUME NEW x \in (1 .. n) \X S PROVE next(x[1], x[2]) \in S
    BY <1>1
  <2> QED BY <2>1
<1> HIDE DEF step
<1>4. PICK c \in [0 .. n -> S] : IsChain(c, n, first, step)
  BY <1>3, ChainExists
<1>5. ASSUME NEW k \in 0 .. n PROVE c[k] = IF k = 0 THEN first ELSE next(k, c[k - 1])
  <2>1. c[k] = IF k = 0 THEN first ELSE step[<<k, c[k - 1]>>]
    BY <1>4 DEF IsChain
  <2>2. CASE k # 0
    <3>1. k \in 1 .. n /\ k - 1 \in 0 .. n
      BY <2>2
    <3> QED BY <1>2, <2>1, <2>2, <3>1
  <2> QED BY <2>1, <2>2
<1>6. c = [k \in 0 .. n |-> IF k = 0 THEN first ELSE next(k, c[k - 1])]
  BY <1>5
<1>7. IsWriting(c, R, W, start, end)
  BY <1>0, <1>f, <1>6 DEF IsWriting, next
<1> QED BY <1>0, <1>s, <1>7

\* F is the file when the regions of W among the first k are written back.
WrittenInto(F, R, W, k, start, end) ==
  \A o \in Offsets :
    IF \E i \in 1 .. k : i \in W /\ Hit(R[i], start, end, o)
    THEN \E i \in 1 .. k : i \in W /\ Hit(R[i], start, end, o) /\ F[o] = mem[Place(R[i], o)]
    ELSE F[o] = file[o]

\* The loop goes on to the next region.
LEMMA WrittenMore ==
  ASSUME NEW R, NEW W, NEW start, NEW end, NEW n \in Nat, NEW k \in 1 .. n, NEW F,
         WrittenInto(F, R, W, k - 1, start, end)
  PROVE  WrittenInto(IF k \in W THEN Writeback(R[k], start, end, F) ELSE F, R, W, k, start, end)
<1>1. PICK G : G = IF k \in W THEN Writeback(R[k], start, end, F) ELSE F
  OBVIOUS
<1>2. \A i \in 1 .. k : i = k \/ i \in 1 .. k - 1
  OBVIOUS
<1>3. k \in 1 .. k /\ \A i \in 1 .. k - 1 : i \in 1 .. k
  OBVIOUS
<1>4. ASSUME NEW o \in Offsets
      PROVE  IF \E i \in 1 .. k : i \in W /\ Hit(R[i], start, end, o)
             THEN \E i \in 1 .. k : i \in W /\ Hit(R[i], start, end, o) /\ G[o] = mem[Place(R[i], o)]
             ELSE G[o] = file[o]
  <2>1. CASE k \in W /\ Hit(R[k], start, end, o)
    <3>1. G[o] = mem[Place(R[k], o)]
      BY <1>1, <2>1, WritebackDef
    <3> QED BY <1>3, <2>1, <3>1
  <2>2. CASE ~(k \in W /\ Hit(R[k], start, end, o))
    <3>1. G[o] = F[o]
      BY <1>1, <2>2, WritebackDef
    <3>2. CASE \E i \in 1 .. k - 1 : i \in W /\ Hit(R[i], start, end, o)
      <4>1. PICK i \in 1 .. k - 1 : i \in W /\ Hit(R[i], start, end, o) /\ F[o] = mem[Place(R[i], o)]
        BY <3>2 DEF WrittenInto
      <4> QED BY <1>3, <3>1, <4>1
    <3>3. CASE ~ \E i \in 1 .. k - 1 : i \in W /\ Hit(R[i], start, end, o)
      <4>1. F[o] = file[o]
        BY <3>3 DEF WrittenInto
      <4>2. ~ \E i \in 1 .. k : i \in W /\ Hit(R[i], start, end, o)
        BY <1>2, <2>2, <3>3
      <4> QED BY <3>1, <4>1, <4>2
    <3> QED BY <3>2, <3>3
  <2> QED BY <2>1, <2>2
<1> QED BY <1>1, <1>4 DEF WrittenInto

\* What the loop leaves in the file
LEMMA WritebackAllIs ==
  ASSUME NEW R \in Table, NEW W, NEW start, NEW end, file \in [Offsets -> Contents]
  PROVE  /\ WritebackAll(R, W, start, end) \in [Offsets -> Contents]
         /\ WrittenInto(WritebackAll(R, W, start, end), R, W, Len(R), start, end)
<1>0. PICK n \in Nat : n = Len(R)
  BY TableIs
<1>1. PICK w : w = CHOOSE d : IsWriting(d, R, W, start, end)
  OBVIOUS
<1>2. IsWriting(w, R, W, start, end) /\ WritebackAll(R, W, start, end) = w[n]
  BY <1>0, <1>1, WritingExists, WritebackAllDef
<1>3. \A k \in 0 .. n :
        w[k] = IF k = 0 THEN file ELSE IF k \in W THEN Writeback(R[k], start, end, w[k - 1]) ELSE w[k - 1]
  BY <1>0, <1>2 DEF IsWriting
<1> DEFINE T == {k \in 0 .. n : w[k] \in [Offsets -> Contents] /\ WrittenInto(w[k], R, W, k, start, end)}
<1>4. 0 \in T
  <2>1. w[0] = file /\ 1 .. 0 = {}
    <3>1. 0 \in 0 .. n
      OBVIOUS
    <3> QED BY <1>3, <3>1
  <2>2. WrittenInto(file, R, W, 0, start, end)
    BY <2>1 DEF WrittenInto
  <2> QED BY <2>1, <2>2
<1>5. ASSUME NEW k \in 1 .. n, k - 1 \in T PROVE k \in T
  <2>1. k \in 0 .. n /\ k # 0
    OBVIOUS
  <2>2. w[k] = IF k \in W THEN Writeback(R[k], start, end, w[k - 1]) ELSE w[k - 1]
    BY <1>3, <2>1
  <2>3. w[k - 1] \in [Offsets -> Contents] /\ WrittenInto(w[k - 1], R, W, k - 1, start, end)
    BY <1>5
  <2>4. WrittenInto(w[k], R, W, k, start, end)
    BY <2>2, <2>3, WrittenMore
  <2>5. w[k] \in [Offsets -> Contents]
    <3>1. R[k] \in Region
      BY <1>0, TableIs
    <3> QED BY <2>2, <2>3, <3>1, WritebackIs
  <2> QED BY <2>1, <2>4, <2>5
<1> HIDE DEF T
<1>6. \A k \in 0 .. n : k \in T
  BY <1>4, <1>5, Upwards
<1>7. n \in T
  BY <1>6
<1> QED BY <1>0, <1>2, <1>7 DEF T

\* The offset is taken from the address at which the region shows it.
LEMMA HitShows ==
  ASSUME NEW r \in Region, r.kind = "file", NEW start \in Nat, NEW end \in Nat, NEW o \in Offsets,
         Hit(r, start, end, o)
  PROVE  /\ Place(r, o) \in Nat /\ start <= Place(r, o) /\ Place(r, o) < end /\ Holds(r, Place(r, o))
         /\ Shown(r, Place(r, o)).shared = (r.fref # NULL) /\ Shown(r, Place(r, o)).off = o
<1>1. PICK b \in Nat, z \in Nat, d \in Nat, f \in Nat :
        b = r.base /\ z = End(r) /\ b < z /\ d = r.dlen /\ f = r.off
  BY RegionIs
<1>2. o \in Nat
  BY OffsetsAre
<1>3. PICK a \in Int : a = Place(r, o) /\ a = b + (o - f)
  BY <1>1, <1>2 DEF Place
<1>4. a >= b /\ a >= start /\ a < z /\ a < end /\ a < b + d
  <2>1. a >= From(r, start) /\ a < To(r, end) /\ a < b + d
    BY <1>1, <1>3 DEF Hit
  <2>2. From(r, start) = IF b > start THEN b ELSE start
    BY <1>1 DEF From
  <2>3. To(r, end) = IF z < end THEN z ELSE end
    BY <1>1 DEF To
  <2> QED BY <2>1, <2>2, <2>3
<1>5. a \in Nat /\ start <= a /\ b <= a /\ a - b < d /\ f + (a - b) = o
  BY <1>2, <1>3, <1>4
<1>6. Holds(r, a)
  BY <1>1, <1>4, <1>5 DEF Holds
<1>7. Shown(r, a) = [kind |-> "file", shared |-> r.fref # NULL, off |-> o]
  BY <1>1, <1>5 DEF Shown
<1> QED BY <1>3, <1>4, <1>5, <1>6, <1>7

\* An offset that the region shows at an address of the range is taken from it.
LEMMA ShowsHit ==
  ASSUME NEW r \in Region, r.kind = "file", NEW start \in Nat, NEW end \in Nat, NEW o \in Offsets,
         NEW a \in Nat, start <= a, a < end, Holds(r, a), Shown(r, a).off = o
  PROVE  Hit(r, start, end, o)
<1>1. PICK b \in Nat, z \in Nat, d \in Nat, f \in Nat :
        b = r.base /\ z = End(r) /\ b < z /\ d = r.dlen /\ f = r.off
  BY RegionIs
<1>2. o \in Nat
  BY OffsetsAre
<1>3. Shown(r, a).off = IF a - b < d THEN f + (a - b) ELSE -1
  BY <1>1 DEF Shown
<1>4. a - b < d /\ f + (a - b) = o
  BY <1>2, <1>3
<1>5. b <= a /\ a < z
  BY <1>1 DEF Holds
<1>6. Place(r, o) = a
  BY <1>1, <1>2, <1>4 DEF Place
<1>7. a >= From(r, start) /\ a < To(r, end) /\ a < b + d
  BY <1>1, <1>4, <1>5 DEF From, To
<1> QED BY <1>1, <1>6, <1>7 DEF Hit

\* The addresses of the range that the application knows as the file's offset o
Src(start, len, o) == {a \in Span(start, len) : owner[a].shared /\ owner[a].off = o}

\* When every write succeeds, what the file holds at an offset comes from an
\* address mapped to it, if there is one in the range.
LEMMA FileAfter ==
  ASSUME MmanIInv, file \in [Offsets -> Contents], NEW start \in Nat, NEW len \in Nat \ {0},
         start + len <= Pages * PAGE, NEW o \in Offsets, NEW F,
         F = WritebackAll(regs, ToWrite(regs, start, start + len), start, start + len)
  PROVE  IF Src(start, len, o) = {} THEN F[o] = file[o]
         ELSE F[o] \in {mem[a] : a \in Src(start, len, o)}
<1>1. PICK end \in Nat : end = start + len /\ start < end /\ end <= Pages * PAGE
  OBVIOUS
<1>2. regs \in Table /\ Agree(Live(regs), owner)
  BY DEF MmanIInv, TableOK
<1>3. PICK n \in Nat : n = Len(regs) /\ DOMAIN regs = 1 .. n
  BY <1>2, TableIs
<1>4. PICK W : W = ToWrite(regs, start, end)
  OBVIOUS
<1>5. WrittenInto(F, regs, W, n, start, end)
  BY <1>1, <1>2, <1>3, <1>4, WritebackAllIs
<1>6. ASSUME NEW a \in Span(start, len) PROVE a \in Nat /\ start <= a /\ a < end /\ a \in Addrs
  <2>1. a \in Int /\ start <= a /\ a <= start + len - 1
    BY DEF Span
  <2>2. a \in Nat /\ a < end
    BY <1>1, <2>1
  <2>3. PICK m \in Nat : m = Pages * PAGE
    BY PagesIs
  <2>4. a <= m - 1
    BY <1>1, <2>2, <2>3
  <2> QED BY <2>1, <2>2, <2>3, <2>4 DEF Addrs
<1>7. ASSUME NEW a \in Nat, start <= a, a < end PROVE a \in Span(start, len)
  BY <1>1, <1>7 DEF Span
<1>8. ASSUME NEW i \in 1 .. n, i \in W, Hit(regs[i], start, end, o)
      PROVE  Place(regs[i], o) \in Src(start, len, o)
  <2>1. PICK r \in Region : r = regs[i]
    BY <1>2, <1>3, TableIs
  <2>2. r.fref # NULL
    BY <1>4, <1>8, <2>1 DEF ToWrite
  <2>3. r.kind = "file"
    BY <2>2, RegionIs
  <2>4. r \in Live(regs)
    <3>1. regs[i].kind # "free" /\ i \in 1 .. Len(regs)
      BY <1>3, <2>1, <2>3
    <3> QED BY <1>2, <2>1, <3>1, LiveIs
  <2>5. PICK a : a = Place(r, o)
    OBVIOUS
  <2>6. a \in Nat /\ start <= a /\ a < end /\ Holds(r, a)
        /\ Shown(r, a).shared = (r.fref # NULL) /\ Shown(r, a).off = o
    BY <1>1, <1>8, <2>1, <2>3, <2>5, HitShows
  <2>7. a \in Span(start, len)
    BY <1>7, <2>6
  <2>8. owner[a] = Shown(r, a)
    BY <1>2, <1>6, <2>4, <2>6, <2>7 DEF Agree
  <2>9. owner[a].shared /\ owner[a].off = o
    BY <2>2, <2>6, <2>8
  <2> QED BY <2>1, <2>5, <2>7, <2>9 DEF Src
<1>9. ASSUME NEW a \in Src(start, len, o) PROVE \E i \in 1 .. n : i \in W /\ Hit(regs[i], start, end, o)
  <2>1. a \in Span(start, len) /\ owner[a].shared /\ owner[a].off = o
    BY DEF Src
  <2>2. a \in Nat /\ start <= a /\ a < end /\ a \in Addrs
    BY <1>6, <2>1
  <2>3. owner[a] # Unmapped
    BY <2>1 DEF Unmapped
  <2>4. PICK r \in Live(regs) : Holds(r, a)
    BY <1>2, <2>2, <2>3 DEF Agree
  <2>5. owner[a] = Shown(r, a)
    BY <1>2, <2>2, <2>4 DEF Agree
  <2>6. PICK i \in 1 .. n : r = regs[i] /\ r.kind # "free"
    BY <1>2, <1>3, LiveIs
  <2>7. r \in Region
    BY <1>2, LiveIs
  <2>8. r.kind = "file"
    <3> SUFFICES ASSUME r.kind # "file" PROVE FALSE
      OBVIOUS
    <3>1. r.kind = "anon"
      BY <2>6, <2>7, RegionIs
    <3>2. Shown(r, a).shared = FALSE
      BY <3>1 DEF Shown, Anonymous
    <3> QED BY <2>1, <2>5, <3>2
  <2>9. r.fref # NULL
    <3>1. Shown(r, a).shared = (r.fref # NULL)
      BY <2>8 DEF Shown
    <3> QED BY <2>1, <2>5, <3>1
  <2>10. Overlaps(r, start, end)
    <3>1. PICK b \in Nat, z \in Nat : b = r.base /\ z = End(r)
      BY <2>7, RegionIs
    <3>2. b <= a /\ a < z
      BY <2>4, <3>1 DEF Holds
    <3>3. z > start /\ b < end
      BY <2>2, <3>2
    <3> QED BY <3>1, <3>3 DEF Overlaps
  <2>11. i \in W
    BY <1>3, <1>4, <2>6, <2>9, <2>10 DEF ToWrite
  <2>12. Shown(r, a).off = o
    BY <2>1, <2>5
  <2>13. Hit(r, start, end, o)
    BY <2>2, <2>4, <2>7, <2>8, <2>12, ShowsHit
  <2> QED BY <2>6, <2>11, <2>13
<1>10. CASE \E i \in 1 .. n : i \in W /\ Hit(regs[i], start, end, o)
  <2>1. PICK i \in 1 .. n : i \in W /\ Hit(regs[i], start, end, o) /\ F[o] = mem[Place(regs[i], o)]
    BY <1>5, <1>10 DEF WrittenInto
  <2>2. Place(regs[i], o) \in Src(start, len, o)
    BY <1>8, <2>1
  <2> QED BY <2>1, <2>2
<1>11. CASE ~ \E i \in 1 .. n : i \in W /\ Hit(regs[i], start, end, o)
  <2>1. F[o] = file[o]
    BY <1>5, <1>11 DEF WrittenInto
  <2>2. Src(start, len, o) = {}
    BY <1>9, <1>11
  <2> QED BY <2>1, <2>2
<1> QED BY <1>10, <1>11

-----------------------------------------------------------------------------
(* Contents across the calls                                                *)

\* What was never mapped is zero, as sbrk delivers it.
ContentsOK ==
  /\ \A a \in Addrs : a >= brk => mem[a] = 0
  /\ DOMAIN mem = Addrs
  /\ file = [o \in Offsets |-> file[o]]
  /\ writes \in Nat

\* What the file holds
LEMMA FileIs == ContentsOK => file \in [Offsets -> Contents]
<1> SUFFICES ASSUME ContentsOK PROVE file \in [Offsets -> Contents]
  OBVIOUS
<1>1. \A o \in Offsets : file[o] \in Contents
  BY DEF Contents
<1>2. file = [o \in Offsets |-> file[o]]
  BY DEF ContentsOK
<1> QED BY <1>1, <1>2

\* Memory that stays, and no new mapping
LEMMA MemKept ==
  ASSUME mem' = mem, \A a \in Addrs : owner'[a] # Unmapped => owner[a] # Unmapped
  PROVE  MappingsKept
BY DEF MappingsKept

\* A call without a range leaves the file alone.
LEMMA FileKept ==
  ASSUME file' = file, mmcalls' = mmcalls \/ mmlast' = [start |-> 0, len |-> 0, saved |-> TRUE]
  PROVE  WritesReachFile
<1>1. CASE mmcalls' = mmcalls
  BY <1>1 DEF WritesReachFile
<1>2. CASE mmlast' = [start |-> 0, len |-> 0, saved |-> TRUE]
  <2>1. mmlast'.start = 0 /\ mmlast'.len = 0
    BY <1>2
  <2>2. Span(0, 0) = {}
    BY DEF Span
  <2>3. \A o : Sources(o) = {}
    BY <2>1, <2>2 DEF Sources
  <2> QED BY <2>3 DEF WritesReachFile
<1> QED BY <1>1, <1>2

\* A range that munmap or msync has written back
LEMMA FileWritten ==
  ASSUME MmanIInv, ContentsOK, NEW start \in Nat, NEW len \in Nat \ {0}, start + len <= Pages * PAGE,
         \E W \in SUBSET ToWrite(regs, start, start + len) :
           /\ Called(start, len, W = ToWrite(regs, start, start + len))
           /\ file' = WritebackAll(regs, W, start, start + len)
  PROVE  WritesReachFile /\ file' = [o \in Offsets |-> file'[o]]
<1>1. PICK W, T : /\ T = ToWrite(regs, start, start + len)
                  /\ Called(start, len, W = T)
                  /\ file' = WritebackAll(regs, W, start, start + len)
  OBVIOUS
<1>2. file \in [Offsets -> Contents] /\ regs \in Table
  BY FileIs DEF MmanIInv, TableOK
<1>3. file' \in [Offsets -> Contents]
  BY <1>1, <1>2, WritebackAllIs
<1>4. mmlast' = [start |-> start, len |-> len, saved |-> (W = T)]
  BY <1>1 DEF Called
<1>5. mmlast'.start = start /\ mmlast'.len = len /\ mmlast'.saved = (W = T)
  BY <1>4
<1>6. \A o : Sources(o) = Src(start, len, o)
  BY <1>5 DEF Sources, Src
<1>7. ASSUME mmlast'.saved, NEW o \in Offsets
      PROVE  IF Sources(o) = {} THEN file'[o] = file[o]
             ELSE file'[o] \in {mem[a] : a \in Sources(o)}
  <2>1. W = T
    BY <1>5, <1>7
  <2>2. file' = WritebackAll(regs, ToWrite(regs, start, start + len), start, start + len)
    BY <1>1, <2>1
  <2>3. IF Src(start, len, o) = {} THEN file'[o] = file[o]
        ELSE file'[o] \in {mem[a] : a \in Src(start, len, o)}
    BY <1>2, <2>2, FileAfter
  <2> QED BY <1>6, <2>3
<1>8. WritesReachFile
  BY <1>7 DEF WritesReachFile
<1> QED BY <1>3, <1>8

\* Nobody knows the addresses of a new region, and they are zeroed or have
\* never been mapped.
LEMMA NewIsClean ==
  ASSUME MmanIInv, ContentsOK, NEW len \in Nat \ {0}, NEW kind \in {"anon", "file"}, NEW base \in Nat,
         AcquiredOK(Acquired(len, kind), base, len, kind), AcquiredAt(len, base)
  PROVE  LET q == Acquired(len, kind) IN
         /\ q.zero \subseteq Span(base, len)
         /\ \A a \in Addrs : a \in Span(base, len) => owner[a] = Unmapped /\ (a \in q.zero \/ mem[a] = 0)
         /\ \A a \in Addrs : a >= q.brk => a \notin Span(base, len) /\ mem[a] = 0
<1>1. /\ TableOK /\ regs \in Table /\ brk \in Nat /\ Agree(Live(regs), owner)
      /\ \A a \in Addrs : a >= brk => mem[a] = 0
  BY DEF MmanIInv, TableOK, ContentsOK
<1>2. PICK q : q = Acquired(len, kind)
  OBVIOUS
<1>3. /\ q.regs \in Table /\ q.idx \in 1 .. Len(q.regs) /\ q.regs[q.idx] = NewRegion(base, len, kind)
      /\ q.brk \in Nat /\ q.brk >= brk /\ Before(q.regs, q.brk)
      /\ \A s \in Live(regs) : End(s) <= base \/ s.base >= base + len
  BY <1>2 DEF AcquiredOK
<1>4. ASSUME NEW a \in Addrs PROVE a \in Nat /\ (a \in Span(base, len) <=> base <= a /\ a < base + len)
  <2>1. a \in Nat
    BY AddrsAre
  <2> QED BY <2>1 DEF Span
<1>5. ASSUME NEW a \in Addrs, a \in Span(base, len) PROVE owner[a] = Unmapped
  <2> SUFFICES ASSUME owner[a] # Unmapped PROVE FALSE
    OBVIOUS
  <2>1. PICK r \in Live(regs) : Holds(r, a)
    BY <1>1 DEF Agree
  <2>2. PICK b \in Nat, z \in Nat : b = r.base /\ z = End(r)
    BY <1>1, LiveIs, RegionIs
  <2>3. z <= base \/ b >= base + len
    BY <1>3, <2>2
  <2>4. b <= a /\ a < z
    BY <2>1, <2>2 DEF Holds
  <2> QED BY <1>4, <1>5, <2>3, <2>4
<1>6. q.zero \subseteq Span(base, len)
      /\ \A a \in Addrs : a \in Span(base, len) => a \in q.zero \/ mem[a] = 0
  <2>1. CASE Fits(len) = {}
    <3>1. q.zero = {} /\ base = brk
      BY <1>2, <2>1 DEF Acquired, AcquiredAt
    <3>2. ASSUME NEW a \in Addrs, a \in Span(base, len) PROVE mem[a] = 0
      <4>1. a >= brk
        BY <1>1, <1>4, <3>1, <3>2
      <4> QED BY <1>1, <4>1
    <3> QED BY <3>1, <3>2
  <2>2. CASE Fits(len) # {}
    <3>1. PICK i : i = Min(Fits(len))
      OBVIOUS
    <3>2. i \in 1 .. Len(regs) /\ regs[i] \in Region /\ regs[i].kind = "free"
      BY <1>1, <2>2, <3>1, FitsIs
    <3>3. base = regs[i].base
      BY <2>2, <3>1 DEF AcquiredAt
    <3>4. q.zero = Zeroed(regs[i], len)
      BY <1>2, <2>2, <3>1 DEF Acquired
    <3>5. regs[i].dirty
      BY <3>2, RegionIs
    <3>6. q.zero = Span(base, len)
      BY <3>3, <3>4, <3>5 DEF Zeroed, Span
    <3> QED BY <3>6
  <2> QED BY <2>1, <2>2
<1>7. ASSUME NEW a \in Addrs, a >= q.brk PROVE a \notin Span(base, len) /\ mem[a] = 0
  <2>1. End(NewRegion(base, len, kind)) = base + len
    BY NewRegionIs
  <2>2. base + len <= q.brk
    BY <1>3, <2>1 DEF Before
  <2>3. PICK k \in Nat, m \in Nat : k = q.brk /\ m = brk
    BY <1>1, <1>3
  <2>4. a \in Nat /\ a >= k /\ k >= m /\ base + len <= k
    BY <1>3, <1>4, <1>7, <2>2, <2>3
  <2>5. ~(a < base + len) /\ a >= m
    BY <2>4
  <2> QED BY <1>1, <1>4, <2>3, <2>5
<1> QED BY <1>2, <1>5, <1>6, <1>7

\* mmap of anonymous memory: zeros
LEMMA MmapAnonContents ==
  ASSUME MmanIInv, ContentsOK, NEW len \in Nat \ {0}, MmapAnon(len)
  PROVE  MappingsKept /\ WritesReachFile /\ ContentsOK'
<1>1. PICK q : q = Acquired(len, "anon")
  OBVIOUS
<1>2. PICK base \in Nat : AcquiredOK(q, base, len, "anon") /\ AcquiredAt(len, base)
  <2>1. TableOK
    BY DEF MmanIInv
  <2> QED BY <1>1, <2>1, AcquiredIs
<1>3. q.regs[q.idx].base = base
  <2>1. q.regs[q.idx] = NewRegion(base, len, "anon")
    BY <1>2 DEF AcquiredOK
  <2>2. NewRegion(base, len, "anon").base = base
    BY DEF NewRegion
  <2> QED BY <2>1, <2>2
<1>4. /\ brk' = q.brk /\ file' = file /\ writes' = writes
      /\ \A a \in Addrs : mem'[a] = IF a \in q.zero THEN 0 ELSE mem[a]
      /\ DOMAIN mem' = Addrs
      /\ \A a \in Addrs : owner'[a] = IF a \in Span(base, len) THEN Anonymous ELSE owner[a]
      /\ mmlast' = [start |-> 0, len |-> 0, saved |-> TRUE]
  BY <1>1, <1>3 DEF MmapAnon, Called
<1>5. /\ q.zero \subseteq Span(base, len)
      /\ \A a \in Addrs : a \in Span(base, len) => owner[a] = Unmapped /\ (a \in q.zero \/ mem[a] = 0)
      /\ \A a \in Addrs : a >= q.brk => a \notin Span(base, len) /\ mem[a] = 0
  BY <1>1, <1>2, NewIsClean
<1>6. ASSUME NEW a \in Addrs, owner'[a] # Unmapped
      PROVE  mem'[a] = IF owner[a] = Unmapped THEN FirstContents(a) ELSE mem[a]
  <2>1. CASE a \in Span(base, len)
    <3>1. owner'[a].kind = "anon"
      BY <1>4, <2>1 DEF Anonymous
    <3>2. FirstContents(a) = 0
      BY <3>1 DEF FirstContents
    <3> QED BY <1>4, <1>5, <2>1, <3>2
  <2>2. CASE a \notin Span(base, len)
    BY <1>4, <1>5, <1>6, <2>2
  <2> QED BY <2>1, <2>2
<1>7. MappingsKept
  BY <1>6 DEF MappingsKept
<1>8. WritesReachFile
  BY <1>4, FileKept
<1>9. ContentsOK'
  <2>1. \A a \in Addrs : a >= brk' => mem'[a] = 0
    BY <1>4, <1>5
  <2>2. DOMAIN mem' = Addrs /\ file' = file /\ writes' = writes
    BY <1>4
  <2> QED BY <2>1, <2>2 DEF ContentsOK, Addrs, Offsets
<1> QED BY <1>7, <1>8, <1>9

\* Memory after a file was read into a new region
LEMMA PopulatedIs ==
  ASSUME NEW q, NEW base \in Nat, NEW off \in Nat, NEW len \in Nat, NEW n \in Nat, n <= len,
         q.zero \subseteq Span(base, len), NEW a \in Addrs
  PROVE  LET P == Populated(q, base, off, n) IN
         /\ a \in Span(base, len) /\ a - base < n => P[a] = file[off + (a - base)]
         /\ a \in Span(base, len) /\ ~(a - base < n) => P[a] = IF a \in q.zero THEN 0 ELSE mem[a]
         /\ a \notin Span(base, len) => P[a] = mem[a]
<1>1. a \in Nat
  BY AddrsAre
<1>2. a \in Span(base, len) <=> base <= a /\ a < base + len
  BY <1>1 DEF Span
<1>3. a \in Span(base, n) <=> base <= a /\ a < base + n
  BY <1>1 DEF Span
<1>4. a \in Span(base, len) => (a \in Span(base, n) <=> a - base < n)
  BY <1>1, <1>2, <1>3
<1>5. a \in Span(base, n) => a \in Span(base, len)
  BY <1>1, <1>2, <1>3
<1>6. Populated(q, base, off, n)[a] = IF a \in Span(base, n) THEN file[off + (a - base)]
                                      ELSE IF a \in q.zero THEN 0 ELSE mem[a]
  BY DEF Populated
<1> QED BY <1>4, <1>5, <1>6

\* mmap of a file: what was read, and zeros behind it
LEMMA MmapFileContents ==
  ASSUME MmanIInv, ContentsOK, NEW len \in Nat \ {0}, NEW off \in Nat, NEW shared \in BOOLEAN,
         MmapFile(len, off, shared)
  PROVE  MappingsKept /\ WritesReachFile /\ ContentsOK'
<1>1. PICK q, n : q = Acquired(len, "file") /\ n = Backed(off, len)
  OBVIOUS
<1>2. PICK base \in Nat : AcquiredOK(q, base, len, "file") /\ AcquiredAt(len, base)
  <2>1. TableOK
    BY DEF MmanIInv
  <2> QED BY <1>1, <2>1, AcquiredIs
<1>3. q.regs[q.idx].base = base
  <2>1. q.regs[q.idx] = NewRegion(base, len, "file")
    BY <1>2 DEF AcquiredOK
  <2>2. NewRegion(base, len, "file").base = base
    BY DEF NewRegion
  <2> QED BY <2>1, <2>2
<1>4. /\ brk' = q.brk /\ file' = file /\ writes' = writes
      /\ mem' = Populated(q, base, off, n)
      /\ mmlast' = [start |-> 0, len |-> 0, saved |-> TRUE]
  BY <1>1, <1>3 DEF MmapFile, Called
<1>o. ASSUME NEW a \in Addrs
      PROVE  owner'[a] = IF a \notin Span(base, len) THEN owner[a]
                         ELSE [kind |-> "file", shared |-> shared,
                               off |-> IF a - base < n THEN off + (a - base) ELSE -1]
  BY <1>1, <1>3 DEF MmapFile
<1>5. /\ q.zero \subseteq Span(base, len)
      /\ \A a \in Addrs : a \in Span(base, len) => owner[a] = Unmapped /\ (a \in q.zero \/ mem[a] = 0)
      /\ \A a \in Addrs : a >= q.brk => a \notin Span(base, len) /\ mem[a] = 0
  BY <1>1, <1>2, NewIsClean
<1>6. n \in Nat /\ n <= len
  BY <1>1, BackedFits
<1>7. ASSUME NEW a \in Addrs
      PROVE  /\ a \in Span(base, len) /\ a - base < n => mem'[a] = file[off + (a - base)]
             /\ a \in Span(base, len) /\ ~(a - base < n) => mem'[a] = 0
             /\ a \notin Span(base, len) => mem'[a] = mem[a]
  BY <1>4, <1>5, <1>6, PopulatedIs
<1>8. ASSUME NEW a \in Addrs, owner'[a] # Unmapped
      PROVE  mem'[a] = IF owner[a] = Unmapped THEN FirstContents(a) ELSE mem[a]
  <2>1. CASE a \in Span(base, len) /\ a - base < n
    <3>1. owner'[a].kind = "file" /\ owner'[a].off = off + (a - base)
      <4>1. PICK x : x = off + (a - base)
        OBVIOUS
      <4>2. owner'[a] = [kind |-> "file", shared |-> shared, off |-> x]
        BY <1>o, <2>1, <4>1
      <4> QED BY <4>1, <4>2
    <3>2. owner'[a].off # -1
      <4>1. a \in Nat /\ base <= a
        <5>1. a \in Nat
          BY AddrsAre
        <5> QED BY <2>1, <5>1 DEF Span
      <4>2. off + (a - base) # -1
        BY <4>1
      <4> QED BY <3>1, <4>2
    <3>3. FirstContents(a) = file[off + (a - base)]
      BY <3>1, <3>2 DEF FirstContents
    <3> QED BY <1>5, <1>7, <2>1, <3>3
  <2>2. CASE a \in Span(base, len) /\ ~(a - base < n)
    <3>1. owner'[a].off = -1
      <4>1. PICK x : x = -1
        OBVIOUS
      <4>2. owner'[a] = [kind |-> "file", shared |-> shared, off |-> x]
        BY <1>o, <2>2, <4>1
      <4> QED BY <4>1, <4>2
    <3>2. FirstContents(a) = 0
      BY <3>1 DEF FirstContents
    <3> QED BY <1>5, <1>7, <2>2, <3>2
  <2>3. CASE a \notin Span(base, len)
    BY <1>o, <1>7, <1>8, <2>3
  <2> QED BY <2>1, <2>2, <2>3
<1>9. MappingsKept
  BY <1>8 DEF MappingsKept
<1>10. WritesReachFile
  BY <1>4, FileKept
<1>11. ContentsOK'
  <2>1. \A a \in Addrs : a >= brk' => mem'[a] = 0
    BY <1>4, <1>5, <1>7
  <2>2. DOMAIN mem' = Addrs
    BY <1>4 DEF Populated
  <2>3. file' = file /\ writes' = writes
    BY <1>4
  <2> QED BY <2>1, <2>2, <2>3 DEF ContentsOK, Addrs, Offsets
<1> QED BY <1>9, <1>10, <1>11

\* pread failed: what was read is in memory that nobody has mapped.
LEMMA MmapFileFailsContents ==
  ASSUME MmanIInv, ContentsOK, NEW len \in Nat \ {0}, NEW off \in Nat, MmapFileFails(len, off)
  PROVE  MappingsKept /\ WritesReachFile /\ ContentsOK'
<1>1. PICK q : q = Acquired(len, "file")
  OBVIOUS
<1>2. PICK base \in Nat : AcquiredOK(q, base, len, "file") /\ AcquiredAt(len, base)
  <2>1. TableOK
    BY DEF MmanIInv
  <2> QED BY <1>1, <2>1, AcquiredIs
<1>3. q.regs[q.idx].base = base
  <2>1. q.regs[q.idx] = NewRegion(base, len, "file")
    BY <1>2 DEF AcquiredOK
  <2>2. NewRegion(base, len, "file").base = base
    BY DEF NewRegion
  <2> QED BY <2>1, <2>2
<1>4. /\ brk' = q.brk /\ file' = file /\ writes' = writes /\ owner' = owner
      /\ \E n \in 0 .. Backed(off, len) : mem' = Populated(q, base, off, n)
      /\ mmlast' = [start |-> 0, len |-> 0, saved |-> TRUE]
  BY <1>1, <1>3 DEF MmapFileFails, Called
<1>5. /\ q.zero \subseteq Span(base, len)
      /\ \A a \in Addrs : a \in Span(base, len) => owner[a] = Unmapped /\ (a \in q.zero \/ mem[a] = 0)
      /\ \A a \in Addrs : a >= q.brk => a \notin Span(base, len) /\ mem[a] = 0
  BY <1>1, <1>2, NewIsClean
<1>6. PICK n \in Nat : n <= len /\ mem' = Populated(q, base, off, n)
  <2>1. PICK n \in 0 .. Backed(off, len) : mem' = Populated(q, base, off, n)
    BY <1>4
  <2>2. PICK k \in Nat : k = Backed(off, len) /\ k <= len
    BY BackedFits
  <2>3. n \in Nat /\ n <= len
    BY <2>2
  <2> QED BY <2>1, <2>3
<1>7. ASSUME NEW a \in Addrs, a \notin Span(base, len) PROVE mem'[a] = mem[a]
  BY <1>5, <1>6, <1>7, PopulatedIs
<1>8. MappingsKept
  <2>1. ASSUME NEW a \in Addrs, owner[a] # Unmapped PROVE mem'[a] = mem[a]
    BY <1>5, <1>7, <2>1
  <2> QED BY <1>4, <2>1 DEF MappingsKept
<1>9. WritesReachFile
  BY <1>4, FileKept
<1>10. ContentsOK'
  <2>1. \A a \in Addrs : a >= brk' => mem'[a] = 0
    BY <1>4, <1>5, <1>7
  <2>2. DOMAIN mem' = Addrs
    BY <1>6 DEF Populated
  <2>3. file' = file /\ writes' = writes
    BY <1>4
  <2> QED BY <2>1, <2>2, <2>3 DEF ContentsOK, Addrs, Offsets
<1> QED BY <1>8, <1>9, <1>10

\* Nothing but the capacity and the counters
LEMMA ContentsSame ==
  ASSUME ContentsOK, mem' = mem, file' = file, owner' = owner, brk' = brk, writes' = writes,
         mmcalls' = mmcalls \/ mmlast' = [start |-> 0, len |-> 0, saved |-> TRUE]
  PROVE  MappingsKept /\ WritesReachFile /\ ContentsOK'
<1>1. MappingsKept
  BY MemKept
<1>2. WritesReachFile
  BY FileKept
<1>3. ContentsOK'
  BY DEF ContentsOK, Addrs, Offsets
<1> QED BY <1>1, <1>2, <1>3

\* munmap: what is written back, and nothing else changes.
LEMMA MunmapContents ==
  ASSUME MmanIInv, ContentsOK, NEW start \in Nat, NEW len \in Nat \ {0}, start + len <= Pages * PAGE,
         Munmap(start, len)
  PROVE  MappingsKept /\ WritesReachFile /\ ContentsOK'
<1>1. /\ mem' = mem /\ brk' = brk /\ writes' = writes
      /\ \A a \in Addrs : owner'[a] = IF a \in Span(start, len) THEN Unmapped ELSE owner[a]
      /\ \E W \in SUBSET ToWrite(regs, start, start + len) :
           /\ Called(start, len, W = ToWrite(regs, start, start + len))
           /\ file' = WritebackAll(regs, W, start, start + len)
  BY DEF Munmap
<1>2. WritesReachFile /\ file' = [o \in Offsets |-> file'[o]]
  BY <1>1, FileWritten
<1>3. MappingsKept
  BY <1>1, MemKept
<1>4. ContentsOK'
  BY <1>1, <1>2 DEF ContentsOK, Addrs, Offsets
<1> QED BY <1>2, <1>3, <1>4

\* msync: the same, if every address of the range is mapped
LEMMA MsyncContents ==
  ASSUME MmanIInv, ContentsOK, NEW start \in Nat, NEW len \in Nat \ {0}, start + len <= Pages * PAGE,
         Msync(start, len)
  PROVE  MappingsKept /\ WritesReachFile /\ ContentsOK'
<1>1. mem' = mem /\ brk' = brk /\ writes' = writes /\ owner' = owner
  BY DEF Msync
<1>2. CASE ~ Covered(start, start + len)
  <2>1. file' = file /\ mmlast' = [start |-> 0, len |-> 0, saved |-> TRUE]
    BY <1>2 DEF Msync, Called
  <2> QED BY <1>1, <2>1, ContentsSame
<1>3. CASE Covered(start, start + len)
  <2>1. \E W \in SUBSET ToWrite(regs, start, start + len) :
          /\ Called(start, len, W = ToWrite(regs, start, start + len))
          /\ file' = WritebackAll(regs, W, start, start + len)
    BY <1>3 DEF Msync
  <2>2. WritesReachFile /\ file' = [o \in Offsets |-> file'[o]]
    BY <2>1, FileWritten
  <2>3. MappingsKept
    BY <1>1, MemKept
  <2>4. ContentsOK'
    BY <1>1, <2>2 DEF ContentsOK, Addrs, Offsets
  <2> QED BY <2>2, <2>3, <2>4
<1> QED BY <1>2, <1>3

\* malloc takes memory behind every mapping.
LEMMA HeapGrowContents ==
  ASSUME MmanIInv, ContentsOK, HeapGrow
  PROVE  MappingsKept /\ WritesReachFile /\ ContentsOK'
<1>1. /\ brk' = brk + PAGE /\ mem' = mem /\ file' = file /\ owner' = owner
      /\ writes' = writes /\ mmcalls' = mmcalls
  BY DEF HeapGrow
<1>2. brk \in Nat
  BY DEF MmanIInv, TableOK
<1>3. MappingsKept /\ WritesReachFile
  BY <1>1, MemKept, FileKept
<1>4. ASSUME NEW a \in Addrs, a >= brk' PROVE mem'[a] = 0
  <2>1. a \in Nat
    BY AddrsAre
  <2>2. PICK b \in Nat, p \in Nat : b = brk /\ p = PAGE
    BY <1>2, MmanAssumption
  <2>3. a >= b + p
    BY <1>1, <1>4, <2>2
  <2>4. a >= b
    BY <2>1, <2>2, <2>3
  <2> QED BY <1>1, <2>2, <2>4 DEF ContentsOK
<1>5. ContentsOK'
  BY <1>1, <1>4 DEF ContentsOK, Addrs, Offsets
<1> QED BY <1>3, <1>5

\* The application writes only to what it has mapped, below the end of memory.
LEMMA AppWriteContents ==
  ASSUME MmanIInv, ContentsOK, NEW a \in Addrs, AppWrite(a)
  PROVE  MappingsKept /\ WritesReachFile /\ ContentsOK'
<1>1. /\ owner[a] # Unmapped /\ mem' = [mem EXCEPT ![a] = -1] /\ writes' = writes + 1
      /\ file' = file /\ brk' = brk /\ mmcalls' = mmcalls
  BY DEF AppWrite
<1>2. writes \in Nat
  BY DEF ContentsOK
<1>3. MappingsKept
  <2>1. writes' # writes
    BY <1>1, <1>2
  <2> QED BY <2>1 DEF MappingsKept
<1>4. WritesReachFile
  BY <1>1, FileKept
<1>5. regs \in Table /\ brk \in Nat /\ Before(regs, brk) /\ Agree(Live(regs), owner)
  BY DEF MmanIInv, TableOK
<1>6. ~(a >= brk)
  <2>1. PICK r \in Live(regs) : Holds(r, a)
    BY <1>1, <1>5 DEF Agree
  <2>2. PICK z \in Nat, m \in Nat : z = End(r) /\ m = brk
    BY <1>5, LiveIs, RegionIs
  <2>3. a < z /\ a \in Nat
    BY <2>1, <2>2, AddrsAre DEF Holds
  <2>4. z <= m
    <3>1. PICK i \in 1 .. Len(regs) : r = regs[i]
      BY <1>5, LiveIs
    <3> QED BY <1>5, <2>2, <3>1 DEF Before
  <2>5. ~(a >= m)
    BY <2>3, <2>4
  <2> QED BY <2>2, <2>5
<1>7. \A b \in Addrs : b >= brk => mem'[b] = 0
  <2>1. ASSUME NEW b \in Addrs, b >= brk PROVE mem'[b] = 0
    <3>1. b # a
      BY <1>6, <2>1
    <3>2. mem[b] = 0 /\ b \in DOMAIN mem
      BY <2>1 DEF ContentsOK
    <3> QED BY <1>1, <3>1, <3>2
  <2> QED BY <2>1
<1>8. DOMAIN mem' = Addrs /\ writes' \in Nat /\ file' = [o \in Offsets |-> file'[o]]
  BY <1>1, <1>2 DEF ContentsOK
<1>9. ContentsOK'
  BY <1>1, <1>7, <1>8 DEF ContentsOK, Addrs, Offsets
<1> QED BY <1>3, <1>4, <1>9

\* Memory starts as zeros.
LEMMA ContentsInit == MmanInit => ContentsOK
<1> SUFFICES ASSUME MmanInit PROVE ContentsOK
  OBVIOUS
<1>1. mem = [a \in Addrs |-> 0] /\ file = [o \in Offsets |-> o + 1] /\ writes = 0
  BY DEF MmanInit
<1> QED BY <1>1 DEF ContentsOK

\* Every call
LEMMA ContentsStep ==
  ASSUME MmanIInv, ContentsOK, MmanNext
  PROVE  MappingsKept /\ WritesReachFile /\ ContentsOK'
<1>1. \A n \in Nat \ {0} : n * PAGE \in Nat \ {0}
  BY MmanAssumption
<1>2. ASSUME NEW n \in MapLens PROVE n * PAGE \in Nat \ {0}
  BY <1>1, MmanAssumption
<1>3. PageStarts \subseteq Nat
  <2>1. \A p \in Nat : p * PAGE \in Nat
    BY MmanAssumption
  <2> QED BY <2>1 DEF PageStarts
<1>4. PageLens \subseteq Nat \ {0}
  <2>1. \A p \in 1 .. Pages : p \in Nat \ {0}
    BY MmanAssumption
  <2> QED BY <1>1, <2>1 DEF PageLens
<1>5. ASSUME NEW n \in MapLens, MmapNoMemory(n * PAGE) PROVE MappingsKept /\ WritesReachFile /\ ContentsOK'
  BY <1>5, ContentsSame DEF MmapNoMemory, Called
<1>6. ASSUME NEW n \in MapLens, MmapAnon(n * PAGE) PROVE MappingsKept /\ WritesReachFile /\ ContentsOK'
  BY <1>2, <1>6, MmapAnonContents
<1>7. ASSUME NEW n \in MapLens, NEW off \in PageStarts, NEW shared \in BOOLEAN, MmapFile(n * PAGE, off, shared)
      PROVE  MappingsKept /\ WritesReachFile /\ ContentsOK'
  BY <1>2, <1>3, <1>7, MmapFileContents
<1>8. ASSUME NEW n \in MapLens, NEW off \in PageStarts, MmapFileFails(n * PAGE, off) PROVE MappingsKept /\ WritesReachFile /\ ContentsOK'
  BY <1>2, <1>3, <1>8, MmapFileFailsContents
<1>9. ASSUME NEW start \in PageStarts, NEW len \in PageLens, start + len <= Pages * PAGE, Munmap(start, len)
      PROVE  MappingsKept /\ WritesReachFile /\ ContentsOK'
  BY <1>3, <1>4, <1>9, MunmapContents
<1>10. ASSUME NEW start \in PageStarts, NEW len \in PageLens, start + len <= Pages * PAGE, Msync(start, len)
       PROVE  MappingsKept /\ WritesReachFile /\ ContentsOK'
  BY <1>3, <1>4, <1>10, MsyncContents
<1>11. CASE MunmapNoMemory
  BY <1>11, ContentsSame DEF MunmapNoMemory, Called
<1>12. CASE HeapGrow
  BY <1>12, HeapGrowContents
<1>13. ASSUME NEW a \in Addrs, AppWrite(a) PROVE MappingsKept /\ WritesReachFile /\ ContentsOK'
  BY <1>13, AppWriteContents
<1>14. CASE \E n \in MapLens : MmapNoMemory(n * PAGE) \/ MmapAnon(n * PAGE)
  BY <1>5, <1>6, <1>14
<1>15. CASE \E n \in MapLens, off \in PageStarts, shared \in BOOLEAN :
              off <= FileLen /\ (MmapFile(n * PAGE, off, shared) \/ MmapFileFails(n * PAGE, off))
  BY <1>7, <1>8, <1>15
<1>16. CASE \E start \in PageStarts, len \in PageLens :
              start + len <= Pages * PAGE /\ (Munmap(start, len) \/ Msync(start, len))
  BY <1>9, <1>10, <1>16
<1> QED BY <1>11, <1>12, <1>13, <1>14, <1>15, <1>16 DEF MmanNext

\* MmanContents, for the same: what a new mapping holds, what the calls leave
\* alone, and what reaches the file.  See Mman.
THEOREM ContentsAlwaysRight == MmanSpec => MmanContents
<1>1. MmanInit => MmanIInv /\ ContentsOK
  BY MmanIInvInit, ContentsInit
<1>2. MmanIInv /\ ContentsOK /\ [MmanNext]_mmanVars => (MmanIInv /\ ContentsOK)'
  <2>1. CASE UNCHANGED mmanVars
    BY <2>1, MmanStep, ContentsSame DEF mmanVars
  <2> QED BY <2>1, MmanStep, ContentsStep
<1>3. MmanIInv /\ ContentsOK /\ [MmanNext]_mmanVars
      => [MappingsKept /\ WritesReachFile]_mmanVars
  BY ContentsStep
<1> QED BY <1>1, <1>2, <1>3, PTL DEF MmanSpec, MmanContents

=============================================================================

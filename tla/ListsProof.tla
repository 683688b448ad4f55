----------------------------- MODULE ListsProof -----------------------------
(***************************************************************************)
(* Proofs about the linked lists, for any number of lists and nodes.       *)
(***************************************************************************)
EXTENDS Lists, Basics

-----------------------------------------------------------------------------
(* The loops.                                                              *)

N == Cardinality(Addr)

\* There are finitely many nodes.
LEMMA NodeCount == N \in Nat
  BY ListAssumption, FS_CardinalityType DEF N

\* The rounds of a loop exist, and are what the loop says.
LEMMA RoundsAre ==
    ASSUME NEW T, NEW body \in [T -> T], NEW x \in T
    PROVE  /\ Rounds(body, x) \in [0 .. N -> T]
           /\ Rounds(body, x)[0] = x
           /\ \A k \in 1 .. N : Rounds(body, x)[k] = body[Rounds(body, x)[k - 1]]
<1>. DEFINE Runs(n) == {f \in [0 .. n -> T] : f[0] = x /\ \A k \in 1 .. n : f[k] = body[f[k - 1]]}
            K == {n \in Nat : Runs(n) # {}}
<1>1. 0 \in K
  <2>1. [k \in 0 .. 0 |-> x] \in Runs(0)
    OBVIOUS
  <2>. QED
    BY <2>1
<1>2. ASSUME NEW n \in Nat, n \in K PROVE n + 1 \in K
  <2>1. PICK f \in [0 .. n -> T] : f[0] = x /\ \A k \in 1 .. n : f[k] = body[f[k - 1]]
    BY <1>2
  <2>. DEFINE g == [k \in 0 .. n + 1 |-> IF k \in 0 .. n THEN f[k] ELSE body[f[n]]]
  <2>2. g \in [0 .. n + 1 -> T] /\ g[0] = x
    BY <2>1
  <2>3. ASSUME NEW k \in 1 .. n + 1 PROVE g[k] = body[g[k - 1]]
    <3>1. CASE k \in 1 .. n
      BY <2>1, <3>1
    <3>2. CASE k = n + 1
      BY <2>1, <3>2
    <3>. QED
      BY <3>1, <3>2
  <2>. QED
    BY <2>2, <2>3
<1>3. N \in K
  <2>. HIDE DEF K
  <2>. QED
    BY <1>1, <1>2, NatInduct, NodeCount
<1>4. PICK f \in Runs(N) : TRUE
  BY <1>3
<1>. DEFINE r == Rounds(body, x)
<1>5. f = [k \in 0 .. N |-> IF k = 0 THEN x ELSE body[f[k - 1]]]
  BY <1>4, NodeCount
<1>6. r = [k \in 0 .. N |-> IF k = 0 THEN x ELSE body[r[k - 1]]]
  BY <1>5 DEF Rounds, N
<1>. HIDE DEF r
<1>7. r[0] = x /\ \A k \in 1 .. N : r[k] = body[r[k - 1]]
  BY <1>6, NodeCount
<1>. DEFINE J == {k \in Nat : k <= N => r[k] \in T}
<1>8. 0 \in J
  BY <1>7
<1>9. \A k \in Nat : k \in J => k + 1 \in J
  BY <1>7, NodeCount
<1>10. Nat \subseteq J
  <2>. HIDE DEF J
  <2>. QED
    BY <1>8, <1>9, NatInduct
<1>11. r \in [0 .. N -> T]
  BY <1>6, <1>10, NodeCount
<1>. QED
  BY <1>7, <1>11 DEF r

\* What holds before a loop, and stays true in each of its rounds.
LEMMA RoundsKeep ==
    ASSUME NEW T, NEW body \in [T -> T], NEW x \in T,
           NEW J, x \in J[0],
           \A k \in 0 .. N - 1 : \A v \in T : v \in J[k] => body[v] \in J[k + 1]
    PROVE  \A k \in 0 .. N : Rounds(body, x)[k] \in J[k]
<1>. DEFINE r == Rounds(body, x)
            K == {k \in Nat : k <= N => r[k] \in J[k]}
<1>1. /\ r \in [0 .. N -> T] /\ r[0] = x
      /\ \A k \in 1 .. N : r[k] = body[r[k - 1]]
  BY RoundsAre
<1>. HIDE DEF r
<1>2. 0 \in K
  BY <1>1
<1>3. ASSUME NEW k \in Nat, k \in K, k + 1 <= N PROVE r[k + 1] \in J[k + 1]
  <2>1. k \in 0 .. N - 1 /\ k + 1 \in 1 .. N /\ (k + 1) - 1 = k /\ k \in 0 .. N
    BY <1>3, NodeCount
  <2>. QED
    BY <1>1, <1>3, <2>1
<1>4. \A k \in Nat : k \in K => k + 1 \in K
  BY <1>3
<1>5. Nat \subseteq K
  <2>. HIDE DEF K
  <2>. QED
    BY <1>2, <1>4, NatInduct
<1>. QED
  BY <1>5, NodeCount DEF r

-----------------------------------------------------------------------------
(* Paths.  s is the nodes that are met from p on, and e the null pointer   *)
(* after the last of them or the one of them that it points at.            *)

Chain(h, p, s, e) ==
  /\ s \in Seq(Addr) /\ \A i, j \in 1 .. Len(s) : s[i] = s[j] => i = j
  /\ IF s = << >> THEN p = e ELSE p = s[1]
  /\ \A i \in 1 .. Len(s) : h[s[i]].next = IF i < Len(s) THEN s[i + 1] ELSE e

\* Following next N times from p.
LEMMA WalkIs ==
    ASSUME NEW h \in Heaps, NEW p \in Pointer
    PROVE  /\ Walk(h, p) \in [0 .. N -> Pointer]
           /\ Walk(h, p)[0] = p
           /\ \A k \in 1 .. N : Walk(h, p)[k] = Follow(h, Walk(h, p)[k - 1])
<1>. DEFINE body == [a \in Pointer |-> Follow(h, a)]
<1>1. body \in [Pointer -> Pointer]
  BY DEF Follow, Heaps, Pointer
<1>2. Walk(h, p) = Rounds(body, p)
  BY DEF Walk
<1>. HIDE DEF body
<1>3. /\ Walk(h, p) \in [0 .. N -> Pointer]
      /\ Walk(h, p)[0] = p
      /\ \A k \in 1 .. N : Walk(h, p)[k] = body[Walk(h, p)[k - 1]]
  BY <1>1, <1>2, RoundsAre
<1>4. ASSUME NEW k \in 1 .. N PROVE Walk(h, p)[k] = Follow(h, Walk(h, p)[k - 1])
  <2>1. Walk(h, p)[k - 1] \in Pointer
    BY <1>3, NodeCount
  <2>. QED
    BY <1>3, <2>1 DEF body
<1>. QED
  BY <1>3, <1>4

\* No path has more nodes than there are.
LEMMA PathBound ==
    ASSUME NEW s \in Seq(Addr), \A i, j \in 1 .. Len(s) : s[i] = s[j] => i = j
    PROVE  Len(s) \in 0 .. N
<1>. DEFINE f == [i \in 1 .. Len(s) |-> s[i]]
<1>1. Len(s) \in Nat /\ f \in Injection(1 .. Len(s), Addr)
  BY DEF Injection, IsInjective
<1>2. Cardinality(1 .. Len(s)) <= N
  BY <1>1, FS_Injection, ListAssumption DEF N
<1>. QED
  BY <1>1, <1>2, FS_Interval, NodeCount

\* A walk runs along the chain it starts on.
LEMMA WalkOnChain ==
    ASSUME NEW h \in Heaps, NEW p \in Pointer, NEW s, NEW e \in Range(s) \cup {nullptr},
           Chain(h, p, s, e)
    PROVE  /\ \A k \in 0 .. N : k < Len(s) => Walk(h, p)[k] = s[k + 1]
           /\ Len(s) <= N => Walk(h, p)[Len(s)] = e
<1>. DEFINE w == Walk(h, p)
            K == {k \in Nat : k <= N /\ k < Len(s) => w[k] = s[k + 1]}
<1>1. Len(s) \in Nat /\ N \in Nat /\ nullptr \notin Addr
  BY NodeCount, ListAssumption DEF Chain
<1>2. w[0] = p /\ \A k \in 1 .. N : w[k] = Follow(h, w[k - 1])
  BY WalkIs
<1>. HIDE DEF w
<1>3. 0 \in K
  BY <1>1, <1>2 DEF Chain
<1>4. ASSUME NEW k \in Nat, k \in K, k + 1 <= N, k + 1 < Len(s) PROVE w[k + 1] = s[k + 2]
  <2>1. w[k] = s[k + 1] /\ s[k + 1] \in Addr /\ h[s[k + 1]].next = s[k + 2]
    BY <1>1, <1>4 DEF Chain
  <2>2. k + 1 \in 1 .. N /\ w[k + 1] = Follow(h, w[k])
    BY <1>1, <1>2, <1>4
  <2>. QED
    BY <1>1, <2>1, <2>2 DEF Follow
<1>5. \A k \in Nat : k \in K => k + 1 \in K
  BY <1>1, <1>4
<1>6. Nat \subseteq K
  <2>. HIDE DEF K
  <2>. QED
    BY <1>3, <1>5, NatInduct
<1>7. ASSUME Len(s) <= N PROVE w[Len(s)] = e
  <2>1. CASE Len(s) = 0
    BY <1>1, <1>2, <2>1 DEF Chain
  <2>2. CASE Len(s) # 0
    <3>1. Len(s) \in 1 .. N /\ Len(s) - 1 \in Nat /\ Len(s) - 1 \in K
      BY <1>1, <1>6, <1>7, <2>2
    <3>2. w[Len(s) - 1] = s[Len(s)] /\ s[Len(s)] \in Addr /\ h[s[Len(s)]].next = e
      BY <1>1, <1>7, <3>1 DEF Chain
    <3>. QED
      BY <1>1, <1>2, <3>1, <3>2 DEF Follow
  <2>. QED
    BY <2>1, <2>2
<1>. QED
  BY <1>1, <1>6, <1>7 DEF w

\* A chain that ends, or points back at one of its own nodes, is the path.
LEMMA ChainIsPath ==
    ASSUME NEW h \in Heaps, NEW p \in Pointer, NEW s, NEW e \in Range(s) \cup {nullptr},
           Chain(h, p, s, e)
    PROVE  Path(h, p) = s
<1>. DEFINE w == Walk(h, p)
            Unmet(i) == w[i - 1] # nullptr /\ \A j \in 1 .. i - 1 : w[j - 1] # w[i - 1]
            D == {i \in 1 .. N : Unmet(i)}
<1>1. N \in Nat /\ nullptr \notin Addr /\ s \in Seq(Addr) /\ Len(s) \in 0 .. N
  BY NodeCount, ListAssumption, PathBound DEF Chain
<1>2. \A k \in 1 .. N : w[k] = Follow(h, w[k - 1])
  BY WalkIs
<1>3. \A k \in 0 .. N : k < Len(s) => w[k] = s[k + 1]
  BY WalkOnChain
<1>4. w[Len(s)] = e
  BY <1>1, WalkOnChain
<1>. HIDE DEF w
<1>5. ASSUME NEW i \in 1 .. Len(s) PROVE Unmet(i) /\ w[i - 1] = s[i]
  <2>1. \A j \in 1 .. i : w[j - 1] = s[j]
    BY <1>1, <1>3
  <2>2. i \in 1 .. i /\ s[i] \in Addr
    BY <1>1
  <2>3. ASSUME NEW j \in 1 .. i - 1 PROVE s[j] # s[i] /\ j \in 1 .. i
    BY <1>1 DEF Chain
  <2>. QED
    BY <1>1, <2>1, <2>2, <2>3
<1>6. ASSUME NEW i \in Len(s) + 1 .. N PROVE ~ Unmet(i)
  <2>. DEFINE K == {k \in Nat : Len(s) + k <= N => w[Len(s) + k] \in Range(s) \cup {nullptr}}
  <2>1. 0 \in K
    BY <1>1, <1>4
  <2>2. ASSUME NEW k \in Nat, k \in K, Len(s) + (k + 1) <= N
        PROVE  w[Len(s) + (k + 1)] \in Range(s) \cup {nullptr}
    <3>1. /\ w[Len(s) + k] \in Range(s) \cup {nullptr}
          /\ w[Len(s) + (k + 1)] = Follow(h, w[Len(s) + k])
      BY <1>1, <1>2, <2>2
    <3>2. \A j \in 1 .. Len(s) : h[s[j]].next \in Range(s) \cup {nullptr}
      BY <1>1 DEF Chain, Range
    <3>. QED
      BY <3>1, <3>2 DEF Follow, Range
  <2>3. \A k \in Nat : k \in K => k + 1 \in K
    BY <2>2
  <2>4. Nat \subseteq K
    <3>. HIDE DEF K
    <3>. QED
      BY <2>1, <2>3, NatInduct
  <2>5. w[i - 1] \in Range(s) \cup {nullptr}
    <3>1. (i - 1) - Len(s) \in Nat /\ Len(s) + ((i - 1) - Len(s)) = i - 1
      BY <1>1
    <3>. QED
      BY <1>1, <2>4, <3>1
  <2>6. ASSUME NEW j \in 1 .. Len(s) PROVE w[j - 1] = s[j] /\ j \in 1 .. i - 1
    BY <1>1, <1>3
  <2>. QED
    BY <2>5, <2>6 DEF Range
<1>7. D = 1 .. Len(s)
  BY <1>1, <1>5, <1>6
<1>8. CASE p = nullptr
  <2>1. Len(s) = 0
    BY <1>1, <1>8 DEF Chain
  <2>. QED
    BY <1>1, <1>8, <2>1 DEF Path
<1>9. CASE p # nullptr
  <2>1. Path(h, p) = [i \in D |-> w[i - 1]]
    BY <1>9 DEF Path, N, w
  <2>. HIDE DEF D
  <2>. QED
    BY <1>1, <1>5, <1>7, <2>1
<1>. HIDE DEF D
<1>. QED
  BY <1>8, <1>9

\* In every heap the path from p is a chain: it ends, or comes back.
LEMMA PathIsChain ==
    ASSUME NEW h \in Heaps, NEW p \in Pointer
    PROVE  \E e \in Range(Path(h, p)) \cup {nullptr} : Chain(h, p, Path(h, p), e)
<1>. DEFINE w == Walk(h, p)
            Back == {k \in 0 .. N : w[k] = nullptr \/ \E j \in 0 .. k - 1 : w[j] = w[k]}
<1>1. N \in Nat /\ nullptr \notin Addr /\ IsFiniteSet(Addr) /\ Cardinality(Addr) = N
  BY NodeCount, ListAssumption DEF N
<1>2. /\ w \in [0 .. N -> Pointer] /\ w[0] = p
      /\ \A k \in 1 .. N : w[k] = Follow(h, w[k - 1])
  BY WalkIs
<1>. HIDE DEF w
<1>3. Back # {}
  <2>. SUFFICES ASSUME Back = {} PROVE FALSE
    OBVIOUS
  <2>1. \A k \in 0 .. N : w[k] # nullptr
    OBVIOUS
  <2>2. w \in [0 .. N -> Addr]
    BY <1>2, <2>1 DEF Pointer
  <2>3. IsFiniteSet(0 .. N) /\ Cardinality(0 .. N) = N + 1
    BY <1>1, FS_Interval
  <2>4. PICK x, y \in 0 .. N : x # y /\ w[x] = w[y]
    BY <1>1, <2>2, <2>3, FS_PigeonHole
  <2>. QED
    BY <2>4
<1>4. PICK k \in Back : \A m \in Back : k <= m
  <2>1. Back \in SUBSET Nat
    BY <1>1
  <2>. HIDE DEF Back
  <2>. QED
    BY <1>3, <2>1, LeastNat
<1>. DEFINE s == [i \in 1 .. k |-> w[i - 1]]
            e == w[k]
<1>5. k \in 0 .. N /\ \A i \in 0 .. k - 1 : i \in 0 .. N /\ i \notin Back
  BY <1>1, <1>4
<1>6. \A i \in 0 .. k - 1 : w[i] \in Addr /\ \A j \in 0 .. i - 1 : w[j] # w[i]
  BY <1>2, <1>5 DEF Pointer
<1>7. Len(s) = k /\ s \in Seq(Addr) /\ \A i \in 1 .. k : s[i] = w[i - 1]
  BY <1>5, <1>6
<1>8. e \in Range(s) \cup {nullptr}
  <2>1. CASE w[k] = nullptr
    BY <2>1
  <2>2. CASE \E j \in 0 .. k - 1 : w[j] = w[k]
    <3>1. PICK j \in 0 .. k - 1 : w[j] = w[k]
      BY <2>2
    <3>2. j + 1 \in 1 .. k /\ s[j + 1] = w[k]
      BY <1>5, <1>7, <3>1
    <3>. QED
      BY <1>7, <3>2 DEF Range
  <2>. QED
    BY <1>4, <2>1, <2>2
<1>9. Chain(h, p, s, e)
  <2>. HIDE DEF s
  <2>1. ASSUME NEW i \in 1 .. Len(s), NEW j \in 1 .. Len(s), s[i] = s[j], i < j PROVE FALSE
    BY <1>5, <1>6, <1>7, <2>1
  <2>2. \A i, j \in 1 .. Len(s) : s[i] = s[j] => i = j
    BY <1>5, <1>7, <2>1
  <2>3. IF s = << >> THEN p = e ELSE p = s[1]
    BY <1>2, <1>5, <1>7
  <2>4. ASSUME NEW i \in 1 .. Len(s) PROVE h[s[i]].next = IF i < Len(s) THEN s[i + 1] ELSE e
    <3>1. i \in 1 .. N /\ w[i] = Follow(h, w[i - 1]) /\ w[i - 1] \in Addr
      BY <1>1, <1>2, <1>5, <1>6, <1>7
    <3>2. h[s[i]].next = w[i]
      BY <1>1, <1>7, <3>1 DEF Follow
    <3>3. CASE i < Len(s)
      BY <1>5, <1>7, <3>2, <3>3
    <3>4. CASE i = Len(s)
      BY <1>5, <1>7, <3>2, <3>4
    <3>. QED
      BY <1>5, <1>7, <3>3, <3>4
  <2>. QED
    BY <1>7, <2>2, <2>3, <2>4 DEF Chain
<1>. HIDE DEF s, e
<1>10. Path(h, p) = s
  BY <1>8, <1>9, ChainIsPath
<1>. QED
  BY <1>8, <1>9, <1>10

-----------------------------------------------------------------------------
(* What a call makes of a chain: h2 is the heap after it, and e2 what the  *)
(* last node points at then.                                               *)

\* A node that is linked in becomes the i-th.
LEMMA ChainInsert ==
    ASSUME NEW h, NEW h2, NEW p, NEW s, NEW e, NEW e2, Chain(h, p, s, e),
           NEW n \in Addr, n \notin Range(s), NEW i \in 1 .. Len(s) + 1,
           h2[n].next = IF i <= Len(s) THEN s[i] ELSE e2,
           \A j \in 1 .. Len(s) :
              h2[s[j]].next = IF j = i - 1 THEN n ELSE IF j < Len(s) THEN s[j + 1] ELSE e2
    PROVE  Chain(h2, IF i = 1 THEN n ELSE p, InsertAt(s, i, n), e2)
<1>. DEFINE t == InsertAt(s, i, n)
            m == Len(s)
<1>1. /\ s \in Seq(Addr) /\ m \in Nat /\ (m > 0 => p = s[1])
      /\ \A j, k \in 1 .. m : s[j] = s[k] => j = k
      /\ \A j \in 1 .. m : s[j] \in Addr /\ s[j] # n
  BY DEF Chain, Range
<1>2. /\ t \in Seq(Addr) /\ Len(t) = m + 1
      /\ \A j \in 1 .. m + 1 : t[j] = IF j < i THEN s[j] ELSE IF j = i THEN n ELSE s[j - 1]
  BY <1>1, InsertAtIs
<1>. HIDE DEF t
<1>3. /\ i \in 1 .. m + 1 /\ t[i] = n
      /\ \A j \in 1 .. i - 1 : j \in 1 .. m /\ t[j] = s[j]
      /\ \A j \in i + 1 .. m + 1 : j - 1 \in 1 .. m /\ t[j] = s[j - 1]
  BY <1>1, <1>2
<1>7. ASSUME NEW j \in 1 .. m + 1, NEW k \in 1 .. m + 1, t[j] = t[k], j < k PROVE FALSE
  <2>1. CASE k < i
    BY <1>1, <1>3, <1>7, <2>1
  <2>2. CASE k = i
    BY <1>1, <1>3, <1>7, <2>2
  <2>3. CASE k > i /\ j < i
    <3>1. k - 1 \in 1 .. m /\ j \in 1 .. m /\ k - 1 # j /\ t[k] = s[k - 1] /\ t[j] = s[j]
      BY <1>1, <1>3, <2>3
    <3>. QED
      BY <1>1, <1>7, <3>1
  <2>4. CASE k > i /\ j = i
    <3>1. k - 1 \in 1 .. m /\ t[k] = s[k - 1] /\ t[j] = n
      BY <1>1, <1>3, <2>4
    <3>. QED
      BY <1>1, <1>7, <3>1
  <2>5. CASE j > i
    <3>1. k - 1 \in 1 .. m /\ j - 1 \in 1 .. m /\ t[k] = s[k - 1] /\ t[j] = s[j - 1]
      BY <1>1, <1>3, <1>7, <2>5
    <3>. QED
      BY <1>1, <1>7, <3>1
  <2>. QED
    BY <1>1, <1>7, <2>1, <2>2, <2>3, <2>4, <2>5
<1>8. \A j, k \in 1 .. m + 1 : t[j] = t[k] => j = k
  BY <1>1, <1>7
<1>4. ASSUME NEW j \in 1 .. m + 1 PROVE h2[t[j]].next = IF j < m + 1 THEN t[j + 1] ELSE e2
  <2>1. CASE j < i
    <3>1. /\ j \in 1 .. m /\ j + 1 \in 1 .. m + 1 /\ t[j] = s[j]
          /\ t[j + 1] = IF j = i - 1 THEN n ELSE s[j + 1]
      BY <1>1, <1>2, <2>1
    <3>2. h2[s[j]].next = IF j = i - 1 THEN n ELSE IF j < m THEN s[j + 1] ELSE e2
      BY <3>1
    <3>3. j # i - 1 => j < m
      BY <1>1, <2>1
    <3>. QED
      BY <1>1, <2>1, <3>1, <3>2, <3>3
  <2>2. CASE j = i
    BY <1>1, <1>2, <2>2
  <2>3. CASE j > i
    <3>1. j - 1 \in 1 .. m /\ t[j] = s[j - 1] /\ (j - 1) + 1 = j
      BY <1>1, <1>2, <2>3
    <3>2. h2[s[j - 1]].next = IF j - 1 < m THEN s[j] ELSE e2
      BY <1>1, <2>3, <3>1
    <3>3. j < m + 1 => t[j + 1] = s[j]
      BY <1>1, <1>2, <2>3
    <3>. QED
      BY <1>1, <3>1, <3>2, <3>3
  <2>. QED
    BY <1>1, <2>1, <2>2, <2>3
<1>5. (IF i = 1 THEN n ELSE p) = t[1] /\ t # << >>
  BY <1>1, <1>2
<1>6. Chain(h2, IF i = 1 THEN n ELSE p, t, e2)
  BY <1>2, <1>4, <1>5, <1>8 DEF Chain
<1>. QED
  BY <1>6 DEF t

\* The i-th node is taken out.
LEMMA ChainRemove ==
    ASSUME NEW h, NEW h2, NEW p, NEW s, NEW e, NEW e2, Chain(h, p, s, e),
           NEW i \in 1 .. Len(s),
           \A j \in (1 .. Len(s)) \ {i} :
              h2[s[j]].next = IF j = Len(s) \/ (j = i - 1 /\ i = Len(s)) THEN e2
                              ELSE IF j = i - 1 THEN s[i + 1] ELSE s[j + 1]
    PROVE  Chain(h2, IF i > 1 THEN p ELSE IF Len(s) > 1 THEN s[2] ELSE e2, RemoveAt(s, i), e2)
<1>. DEFINE t == RemoveAt(s, i)
            m == Len(s)
            p2 == IF i > 1 THEN p ELSE IF Len(s) > 1 THEN s[2] ELSE e2
<1>1. /\ s \in Seq(Addr) /\ m \in Nat /\ (m > 0 => p = s[1])
      /\ \A j, k \in 1 .. m : s[j] = s[k] => j = k
  BY DEF Chain, Range
<1>2. /\ t \in Seq(Addr) /\ Len(t) = m - 1
      /\ \A j \in 1 .. m - 1 : t[j] = IF j < i THEN s[j] ELSE s[j + 1]
  BY <1>1, RemoveAtIs
<1>. HIDE DEF t
<1>3. ASSUME NEW j \in 1 .. m - 1, NEW k \in 1 .. m - 1, t[j] = t[k] PROVE j = k
  <2>1. j \in 1 .. m /\ k \in 1 .. m /\ j + 1 \in 1 .. m /\ k + 1 \in 1 .. m
    BY <1>1
  <2>. QED
    BY <1>1, <1>2, <1>3, <2>1
<1>4. ASSUME NEW j \in 1 .. m - 1 PROVE h2[t[j]].next = IF j < m - 1 THEN t[j + 1] ELSE e2
  <2>1. CASE j < i - 1
    <3>1. j \in (1 .. m) \ {i} /\ j + 1 \in 1 .. m - 1 /\ t[j] = s[j] /\ t[j + 1] = s[j + 1]
      BY <1>1, <1>2, <2>1
    <3>. QED
      BY <1>1, <2>1, <3>1
  <2>2. CASE j = i - 1
    <3>1. j \in (1 .. m) \ {i} /\ t[j] = s[j]
      BY <1>1, <1>2, <2>2
    <3>2. j < m - 1 => t[j + 1] = s[i + 1]
      BY <1>1, <1>2, <2>2
    <3>. QED
      BY <1>1, <2>2, <3>1, <3>2
  <2>3. CASE j > i - 1
    <3>1. j + 1 \in (1 .. m) \ {i} /\ t[j] = s[j + 1]
      BY <1>1, <1>2, <2>3
    <3>2. h2[s[j + 1]].next = IF j + 1 = m THEN e2 ELSE s[(j + 1) + 1]
      BY <1>1, <2>3, <3>1
    <3>. QED
      BY <1>1, <1>2, <2>3, <3>1, <3>2
  <2>. QED
    BY <1>1, <2>1, <2>2, <2>3
<1>5. IF t = << >> THEN p2 = e2 ELSE p2 = t[1]
  BY <1>1, <1>2
<1>6. Chain(h2, p2, t, e2)
  BY <1>2, <1>3, <1>4, <1>5 DEF Chain
<1>. QED
  BY <1>6 DEF t

\* The last node is made to point somewhere else.
LEMMA ChainEnd ==
    ASSUME NEW h, NEW h2, NEW p, NEW s, NEW e, NEW e2, Chain(h, p, s, e), s # << >>,
           \A j \in 1 .. Len(s) : h2[s[j]].next = IF j < Len(s) THEN h[s[j]].next ELSE e2
    PROVE  Chain(h2, p, s, e2)
  BY DEF Chain

\* One chain goes on in another one.
LEMMA ChainConcat ==
    ASSUME NEW h, NEW p, NEW q, NEW e, NEW s, NEW t, Chain(h, p, s, q), Chain(h, q, t, e),
           Range(s) \cap Range(t) = {}
    PROVE  Chain(h, p, s \o t, e) /\ Range(s \o t) = Range(s) \cup Range(t)
<1>. DEFINE u == s \o t
            m == Len(s)
            k == Len(t)
<1>1. /\ s \in Seq(Addr) /\ t \in Seq(Addr) /\ m \in Nat /\ k \in Nat
      /\ \A i, j \in 1 .. m : s[i] = s[j] => i = j
      /\ \A i, j \in 1 .. k : t[i] = t[j] => i = j
      /\ \A i \in 1 .. m : h[s[i]].next = IF i < m THEN s[i + 1] ELSE q
      /\ \A i \in 1 .. k : h[t[i]].next = IF i < k THEN t[i + 1] ELSE e
      /\ IF m = 0 THEN p = q ELSE p = s[1]
      /\ IF k = 0 THEN q = e ELSE q = t[1]
  BY DEF Chain
<1>2. /\ Range(s) = {s[i] : i \in 1 .. m} /\ Range(t) = {t[i] : i \in 1 .. k}
      /\ \A i \in 1 .. m, j \in 1 .. k : s[i] # t[j]
  <2>1. Range(s) = {s[i] : i \in 1 .. m} /\ Range(t) = {t[i] : i \in 1 .. k}
    BY <1>1 DEF Range
  <2>. QED
    BY <2>1
<1>3. /\ u \in Seq(Addr) /\ Len(u) = m + k
      /\ \A i \in 1 .. m + k : u[i] = IF i <= m THEN s[i] ELSE t[i - m]
  BY <1>1, ConcatProperties
<1>. HIDE DEF u, m, k
<1>4. /\ \A i \in 1 .. m : i \in 1 .. m + k /\ u[i] = s[i]
      /\ \A i \in m + 1 .. m + k : i - m \in 1 .. k /\ u[i] = t[i - m]
      /\ \A i \in 1 .. k : m + i \in 1 .. m + k /\ u[m + i] = t[i]
  BY <1>1, <1>3
<1>5. Range(u) = Range(s) \cup Range(t)
  <2>1. Range(u) = {u[i] : i \in 1 .. m + k}
    BY <1>3 DEF Range
  <2>2. ASSUME NEW i \in 1 .. m + k PROVE u[i] \in Range(s) \cup Range(t)
    <3>1. CASE i <= m
      BY <1>1, <1>2, <1>4, <3>1
    <3>2. CASE i > m
      <4>1. i - m \in 1 .. k /\ u[i] = t[i - m]
        BY <1>1, <1>4, <3>2
      <4>. QED
        BY ONLY <1>2, <4>1
    <3>. QED
      BY <1>1, <3>1, <3>2
  <2>. QED
    BY <1>2, <1>4, <2>1, <2>2
<1>6. ASSUME NEW i \in 1 .. m + k, NEW j \in 1 .. m + k, u[i] = u[j] PROVE i = j
  <2>1. CASE i <= m /\ j <= m
    BY <1>1, <1>4, <1>6, <2>1
  <2>2. CASE i > m /\ j > m
    <3>1. i - m \in 1 .. k /\ j - m \in 1 .. k /\ t[i - m] = t[j - m]
      BY <1>1, <1>4, <1>6, <2>2
    <3>. QED
      BY <1>1, <3>1
  <2>3. CASE i <= m /\ j > m
    <3>1. i \in 1 .. m /\ j - m \in 1 .. k /\ s[i] = t[j - m]
      BY <1>1, <1>4, <1>6, <2>3
    <3>. QED
      BY <1>2, <3>1
  <2>4. CASE i > m /\ j <= m
    <3>1. j \in 1 .. m /\ i - m \in 1 .. k /\ s[j] = t[i - m]
      BY <1>1, <1>4, <1>6, <2>4
    <3>. QED
      BY <1>2, <3>1
  <2>. QED
    BY <1>1, <2>1, <2>2, <2>3, <2>4
<1>7. ASSUME NEW i \in 1 .. m + k PROVE h[u[i]].next = IF i < m + k THEN u[i + 1] ELSE e
  <2>1. CASE i < m
    <3>1. i \in 1 .. m /\ i + 1 \in 1 .. m
      BY <1>1, <2>1
    <3>2. u[i] = s[i] /\ u[i + 1] = s[i + 1]
      BY <1>4, <3>1
    <3>. QED
      BY <1>1, <2>1, <3>1, <3>2
  <2>2. CASE i = m
    <3>1. u[i] = s[i] /\ h[s[i]].next = q
      BY <1>1, <1>4, <2>2
    <3>2. CASE k = 0
      BY <1>1, <2>2, <3>1, <3>2
    <3>3. CASE k # 0
      <4>1. 1 \in 1 .. k /\ u[i + 1] = t[1]
        BY <1>1, <1>4, <2>2, <3>3
      <4>. QED
        BY <1>1, <2>2, <3>1, <3>3, <4>1
    <3>. QED
      BY <3>2, <3>3
  <2>3. CASE i > m
    <3>1. i - m \in 1 .. k /\ u[i] = t[i - m] /\ (i < m + k <=> i - m < k)
      BY <1>1, <1>4, <2>3
    <3>2. i < m + k => u[i + 1] = t[(i - m) + 1]
      <4>1. (i + 1) - m = (i - m) + 1
        BY <1>1
      <4>. QED
        BY <1>1, <1>4, <2>3, <4>1
    <3>. QED
      BY <1>1, <3>1, <3>2
  <2>. QED
    BY <1>1, <2>1, <2>2, <2>3
<1>8. IF u = << >> THEN p = e ELSE p = u[1]
  <2>1. CASE m = 0
    <3>1. k > 0 => u[1] = t[1]
      BY <1>1, <1>4, <2>1
    <3>. QED
      BY <1>1, <1>3, <2>1, <3>1
  <2>2. CASE m # 0
    BY <1>1, <1>3, <1>4, <2>2
  <2>. QED
    BY <2>1, <2>2
<1>9. Chain(h, p, u, e)
  BY <1>3, <1>6, <1>7, <1>8 DEF Chain
<1>. QED
  BY <1>5, <1>9 DEF u

-----------------------------------------------------------------------------
(* The values of a chain.                                                  *)

Data(h, s) == [i \in 1 .. Len(s) |-> h[s[i]].data]

\* The values at the nodes of s.
LEMMA DataIs ==
    ASSUME NEW h \in Heaps, NEW s \in Seq(Addr)
    PROVE  /\ Data(h, s) \in Seq(Int) /\ Len(Data(h, s)) = Len(s)
           /\ \A i \in 1 .. Len(s) : Data(h, s)[i] = h[s[i]].data
  BY DEF Data, Heaps

\* Values reads them along the chain.
LEMMA ValuesIs ==
    ASSUME NEW h \in Heaps, NEW p \in Pointer, NEW s, NEW e \in Range(s) \cup {nullptr},
           Chain(h, p, s, e)
    PROVE  Values(h, p) = Data(h, s)
<1>1. s \in Seq(Addr) /\ Path(h, p) = s
  BY ChainIsPath DEF Chain
<1>2. DOMAIN s = 1 .. Len(s)
  BY <1>1
<1>. QED
  BY <1>1, <1>2 DEF Values, Data

\* They are the same where no data is written.
LEMMA DataSame ==
    ASSUME NEW h \in Heaps, NEW h2 \in Heaps, NEW s \in Seq(Addr),
           \A a \in Range(s) : h2[a].data = h[a].data
    PROVE  Data(h2, s) = Data(h, s)
<1>1. \A j \in 1 .. Len(s) : s[j] \in Range(s)
  BY DEF Range
<1>. QED
  BY <1>1 DEF Data

\* A node that is put into the chain puts its value into the values ...
LEMMA DataInsert ==
    ASSUME NEW h \in Heaps, NEW h2 \in Heaps, NEW s \in Seq(Addr),
           NEW n \in Addr, NEW i \in 1 .. Len(s) + 1,
           \A a \in Range(s) : h2[a].data = h[a].data
    PROVE  Data(h2, InsertAt(s, i, n)) = InsertAt(Data(h, s), i, h2[n].data)
<1>. DEFINE t == InsertAt(s, i, n)
            d == Data(h, s)
            d2 == Data(h2, t)
<1>1. /\ t \in Seq(Addr) /\ Len(t) = Len(s) + 1
      /\ \A j \in 1 .. Len(s) + 1 : t[j] = IF j < i THEN s[j] ELSE IF j = i THEN n ELSE s[j - 1]
  BY InsertAtIs
<1>2. /\ d \in Seq(Int) /\ Len(d) = Len(s)
      /\ \A j \in 1 .. Len(s) : d[j] = h[s[j]].data
  BY DataIs
<1>. HIDE DEF t, d
<1>3. /\ d2 \in Seq(Int) /\ Len(d2) = Len(t)
      /\ \A j \in 1 .. Len(t) : d2[j] = h2[t[j]].data
  BY <1>1, DataIs
<1>. HIDE DEF d2
<1>4. \A j \in 1 .. Len(s) : h2[s[j]].data = h[s[j]].data
  BY DEF Range
<1>5. ASSUME NEW j \in 1 .. Len(d) + 1
      PROVE  d2[j] = IF j < i THEN d[j] ELSE IF j = i THEN h2[n].data ELSE d[j - 1]
  <2>1. CASE j < i
    <3>1. j \in 1 .. Len(s) /\ j \in 1 .. Len(t) /\ t[j] = s[j]
      BY <1>1, <1>2, <2>1
    <3>. QED
      BY <1>2, <1>3, <1>4, <2>1, <3>1
  <2>2. CASE j = i
    BY <1>1, <1>2, <1>3, <1>4, <2>2
  <2>3. CASE j > i
    <3>1. j - 1 \in 1 .. Len(s) /\ j \in 1 .. Len(t) /\ t[j] = s[j - 1] /\ j # i /\ ~ (j < i)
      BY <1>1, <1>2, <2>3
    <3>. QED
      BY <1>2, <1>3, <1>4, <3>1
  <2>. QED
    BY <1>2, <2>1, <2>2, <2>3
<1>6. h2[n].data \in Int
  BY DEF Heaps
<1>7. i \in 1 .. Len(d) + 1 /\ Len(d2) = Len(d) + 1
  BY <1>1, <1>2, <1>3
<1>8. d2 = InsertAt(d, i, h2[n].data)
  BY <1>2, <1>3, <1>5, <1>6, <1>7, InsertAtEqual
<1>. QED
  BY <1>8 DEF d, d2, t

\* ... one that is taken out takes it out ...
LEMMA DataRemove ==
    ASSUME NEW h \in Heaps, NEW h2 \in Heaps, NEW s \in Seq(Addr), NEW i \in 1 .. Len(s),
           \A j \in (1 .. Len(s)) \ {i} : h2[s[j]].data = h[s[j]].data
    PROVE  Data(h2, RemoveAt(s, i)) = RemoveAt(Data(h, s), i)
<1>. DEFINE t == RemoveAt(s, i)
            d == Data(h, s)
            u == RemoveAt(d, i)
            d2 == Data(h2, t)
<1>1. /\ t \in Seq(Addr) /\ Len(t) = Len(s) - 1
      /\ \A j \in 1 .. Len(s) - 1 : t[j] = IF j < i THEN s[j] ELSE s[j + 1]
  BY RemoveAtIs
<1>2. /\ d \in Seq(Int) /\ Len(d) = Len(s)
      /\ \A j \in 1 .. Len(s) : d[j] = h[s[j]].data
  BY DataIs
<1>. HIDE DEF t, d
<1>3. /\ d2 \in Seq(Int) /\ Len(d2) = Len(t)
      /\ \A j \in 1 .. Len(t) : d2[j] = h2[t[j]].data
  BY <1>1, DataIs
<1>4. /\ u \in Seq(Int) /\ Len(u) = Len(d) - 1
      /\ \A j \in 1 .. Len(d) - 1 : u[j] = IF j < i THEN d[j] ELSE d[j + 1]
  BY <1>2, RemoveAtIs
<1>. HIDE DEF d2, u
<1>5. ASSUME NEW j \in 1 .. Len(d2) PROVE d2[j] = u[j]
  <2>1. CASE j < i
    <3>1. j \in (1 .. Len(s)) \ {i} /\ j \in 1 .. Len(t) /\ t[j] = s[j]
      BY <1>1, <1>3, <2>1
    <3>2. j \in 1 .. Len(d) - 1 /\ u[j] = d[j]
      BY <1>1, <1>2, <1>3, <1>4, <2>1
    <3>. QED
      BY <1>2, <1>3, <3>1, <3>2
  <2>2. CASE j >= i
    <3>1. j + 1 \in (1 .. Len(s)) \ {i} /\ j \in 1 .. Len(t) /\ t[j] = s[j + 1] /\ u[j] = d[j + 1]
      BY <1>1, <1>2, <1>3, <1>4, <2>2
    <3>. QED
      BY <1>2, <1>3, <3>1
  <2>. QED
    BY <1>1, <1>3, <2>1, <2>2
<1>6. \A j \in 1 .. Len(d2) : d2[j] = u[j]
  BY <1>5
<1>7. d2 = u
  BY <1>1, <1>2, <1>3, <1>4, <1>6, SeqEqual
<1>. QED
  BY <1>7 DEF d2, u, d, t

\* ... and a chain behind another one has its values behind the other's.
LEMMA DataConcat ==
    ASSUME NEW h \in Heaps, NEW s \in Seq(Addr), NEW t \in Seq(Addr)
    PROVE  Data(h, s \o t) = Data(h, s) \o Data(h, t)
<1>. DEFINE u == s \o t
            c == Data(h, s)
            d == Data(h, t)
            x == Data(h, u)
            y == c \o d
<1>1. /\ u \in Seq(Addr) /\ Len(u) = Len(s) + Len(t)
      /\ \A i \in 1 .. Len(s) + Len(t) : u[i] = IF i <= Len(s) THEN s[i] ELSE t[i - Len(s)]
  BY ConcatProperties
<1>2. /\ c \in Seq(Int) /\ Len(c) = Len(s) /\ \A i \in 1 .. Len(s) : c[i] = h[s[i]].data
      /\ d \in Seq(Int) /\ Len(d) = Len(t) /\ \A i \in 1 .. Len(t) : d[i] = h[t[i]].data
  BY DataIs
<1>. HIDE DEF u, c, d
<1>3. x \in Seq(Int) /\ Len(x) = Len(u) /\ \A i \in 1 .. Len(u) : x[i] = h[u[i]].data
  BY <1>1, DataIs
<1>4. /\ y \in Seq(Int) /\ Len(y) = Len(c) + Len(d)
      /\ \A i \in 1 .. Len(c) + Len(d) : y[i] = IF i <= Len(c) THEN c[i] ELSE d[i - Len(c)]
  <2>1. c \in Seq(Int) /\ d \in Seq(Int)
    BY <1>2
  <2>. QED
    BY ONLY <2>1, ConcatProperties
<1>. HIDE DEF x, y
<1>5. ASSUME NEW i \in 1 .. Len(x) PROVE x[i] = y[i]
  <2>1. CASE i <= Len(s)
    <3>1. i \in 1 .. Len(s) /\ u[i] = s[i] /\ y[i] = c[i]
      BY <1>1, <1>2, <1>3, <1>4, <2>1
    <3>. QED
      BY <1>2, <1>3, <3>1
  <2>2. CASE i > Len(s)
    <3>1. i - Len(s) \in 1 .. Len(t) /\ u[i] = t[i - Len(s)] /\ y[i] = d[i - Len(s)]
      BY <1>1, <1>2, <1>3, <1>4, <2>2
    <3>. QED
      BY <1>2, <1>3, <3>1
  <2>. QED
    BY <1>1, <1>3, <2>1, <2>2
<1>6. \A i \in 1 .. Len(x) : x[i] = y[i]
  BY <1>5
<1>7. x = y
  BY <1>1, <1>2, <1>3, <1>4, <1>6, SeqEqual
<1>. QED
  BY <1>7 DEF x, y, c, d, u

-----------------------------------------------------------------------------
(* The lists in use.                                                       *)

\* The path of a list in use ends at null, in nodes that are allocated.
LEMMA ListIs ==
    ASSUME TypeOK, WellLinked, NEW l \in Lists \ given
    PROVE  /\ Chain(node, first[l], PathOf(l), nullptr)
           /\ PathOf(l) \in Seq(Addr) /\ Range(PathOf(l)) \subseteq live
           /\ Contents(l) = Data(node, PathOf(l))
           /\ \A m \in Lists \ (given \cup {l}) : Range(PathOf(l)) \cap Range(PathOf(m)) = {}
<1>. DEFINE s == PathOf(l)
<1>1. node \in Heaps /\ first[l] \in Pointer
  BY DEF TypeOK
<1>2. PICK e \in Range(s) \cup {nullptr} : Chain(node, first[l], s, e)
  BY <1>1, PathIsChain DEF PathOf
<1>3. /\ Range(s) \subseteq live /\ (s # << >> => next(Last(s)) = nullptr)
      /\ \A m \in Lists \ (given \cup {l}) : Range(s) \cap Range(PathOf(m)) = {}
  BY DEF WellLinked
<1>. HIDE DEF s
<1>4. e = nullptr
  <2>1. CASE s = << >>
    BY <1>2, <2>1 DEF Range
  <2>2. CASE s # << >>
    <3>1. Len(s) \in 1 .. Len(s) /\ s \in Seq(Addr)
      BY <1>2, <2>2 DEF Chain
    <3>2. node[s[Len(s)]].next = e /\ s[Len(s)] \in Addr
      BY <1>2, <3>1 DEF Chain
    <3>. QED
      BY <1>3, <2>2, <3>2, ListAssumption DEF next, Follow, Last
  <2>. QED
    BY <2>1, <2>2
<1>5. Contents(l) = Data(node, s)
  BY <1>1, <1>2, ValuesIs DEF Contents
<1>. QED
  BY <1>2, <1>3, <1>4, <1>5 DEF Chain, s

\* And a list that has such a path is linked well.
LEMMA EndsAtNull ==
    ASSUME NEW h \in Heaps, NEW p \in Pointer, NEW s, Chain(h, p, s, nullptr)
    PROVE  Path(h, p) = s /\ (s # << >> => Follow(h, Last(s)) = nullptr)
<1>1. Path(h, p) = s
  BY ChainIsPath
<1>2. ASSUME s # << >> PROVE Follow(h, Last(s)) = nullptr
  <2>1. Len(s) \in 1 .. Len(s) /\ s[Len(s)] \in Addr
    BY <1>2 DEF Chain
  <2>. QED
    BY <2>1, ListAssumption DEF Chain, Follow, Last
<1>. QED
  BY <1>1, <1>2

\* A call on l that leaves it the path t touches no node but those of X: no
\* other list that is still in use notices.
LEMMA CallOn ==
    ASSUME TypeOK, TypeOK', WellLinked, NEW l \in Lists, NEW t, NEW X,
           l \notin given, given \subseteq given',
           \A m \in Lists \ (given' \cup {l}) :
              first'[m] = first[m] /\ Range(PathOf(m)) \cap X = {},
           \A a \in Addr \ X : node'[a] = node[a],
           live \ X \subseteq live',
           l \notin given' => /\ Chain(node', first'[l], t, nullptr)
                              /\ Range(t) \subseteq X \cap live'
    PROVE  /\ WellLinked'
           /\ \A m \in Lists \ (given' \cup {l}) : Contents(m)' = Contents(m)
           /\ l \notin given' => PathOf(l)' = t /\ Contents(l)' = Data(node', t)
<1>1. node \in Heaps /\ node' \in Heaps /\ \A m \in Lists : first'[m] \in Pointer
  BY DEF TypeOK
<1>2. ASSUME NEW m \in Lists \ (given' \cup {l})
      PROVE  /\ Chain(node', first'[m], PathOf(m), nullptr)
             /\ PathOf(m)' = PathOf(m) /\ Range(PathOf(m)) \subseteq live'
             /\ Contents(m)' = Contents(m)
  <2>. DEFINE s == PathOf(m)
  <2>1. /\ Chain(node, first[m], s, nullptr) /\ s \in Seq(Addr) /\ Range(s) \subseteq live
        /\ Contents(m) = Data(node, s)
    BY <1>2, ListIs
  <2>2. \A a \in Range(s) : a \in Addr /\ node'[a] = node[a] /\ a \in live'
    BY <1>2, <2>1 DEF TypeOK
  <2>3. Path(node', first'[m]) = PathOf(m)' /\ Values(node', first'[m]) = Contents(m)'
    BY DEF PathOf, Contents
  <2>. HIDE DEF s
  <2>4. \A j \in 1 .. Len(s) : s[j] \in Range(s)
    BY <2>1 DEF Range
  <2>5. Chain(node', first'[m], s, nullptr)
    BY <1>2, <2>1, <2>2, <2>4 DEF Chain
  <2>6. PathOf(m)' = s /\ Contents(m)' = Data(node', s)
    BY <1>1, <2>3, <2>5, ChainIsPath, ValuesIs
  <2>7. Data(node', s) = Data(node, s)
    BY <1>1, <2>1, <2>2, DataSame
  <2>. QED
    BY <2>1, <2>2, <2>5, <2>6, <2>7 DEF s
<1>3. ASSUME l \notin given' PROVE PathOf(l)' = t /\ Contents(l)' = Data(node', t)
  <2>1. Path(node', first'[l]) = PathOf(l)' /\ Values(node', first'[l]) = Contents(l)'
    BY DEF PathOf, Contents
  <2>. QED
    BY <1>1, <1>3, <2>1, ChainIsPath, ValuesIs
<1>4. WellLinked'
  <2>. SUFFICES ASSUME NEW m \in Lists \ given'
                PROVE  /\ Range(PathOf(m)') \subseteq live'
                       /\ PathOf(m)' # << >> => Follow(node', Last(PathOf(m)')) = nullptr
                       /\ \A k \in Lists \ (given' \cup {m}) :
                             Range(PathOf(m)') \cap Range(PathOf(k)') = {}
    BY DEF WellLinked, next
  <2>1. CASE m = l
    <3>1. PathOf(m)' = t /\ Chain(node', first'[l], t, nullptr) /\ Range(t) \subseteq X \cap live'
      BY <1>3, <2>1
    <3>2. t # << >> => Follow(node', Last(t)) = nullptr
      BY <1>1, <3>1, EndsAtNull
    <3>. QED
      BY <1>2, <2>1, <3>1, <3>2
  <2>2. CASE m # l
    <3>1. PathOf(m)' # << >> => Follow(node', Last(PathOf(m)')) = nullptr
      BY <1>1, <1>2, <2>2, EndsAtNull
    <3>2. ASSUME NEW k \in Lists \ (given' \cup {m})
          PROVE  Range(PathOf(m)') \cap Range(PathOf(k)') = {}
      <4>1. CASE k = l
        BY <1>2, <1>3, <2>2, <3>2, <4>1
      <4>2. CASE k # l
        <5>1. Range(PathOf(m)) \cap Range(PathOf(k)) = {}
          BY <2>2, <3>2, <4>2, ListIs
        <5>. QED
          BY <1>2, <2>2, <3>2, <4>2, <5>1
      <4>. QED
        BY <4>1, <4>2
    <3>. QED
      BY <1>2, <2>2, <3>1, <3>2
  <2>. QED
    BY <2>1, <2>2
<1>. QED
  BY <1>2, <1>3, <1>4

-----------------------------------------------------------------------------
(* The calls on one list.                                                  *)

\* The step changed l as Becomes says, and no other list that is in use.
LeavesOthers(l) == \A m \in Lists \ (given' \cup {l}) : Contents(m)' = Contents(m)

\* new returns a node that is not allocated.
LEMMA NewIsFree == Free # {} => New \in Addr /\ New \notin live
  BY DEF Free, New

\* insert (linkedlist_adt.cpp:94): the value is at its place, no other list
\* changes, and all lists are linked as they should be.
LEMMA InsertStep ==
    ASSUME TypeOK, WellLinked, NEW l \in Lists, NEW i \in Nat, NEW v \in Int, insert(l, i, v)
    PROVE  /\ TypeOK' /\ WellLinked' /\ LeavesOthers(l) /\ given' = given /\ l \notin given
           /\ i + 1 \in 1 .. Len(Contents(l)) + 1
           /\ Contents(l)' = InsertAt(Contents(l), i + 1, v)
<1>. DEFINE s == PathOf(l)
            n == New
            t == InsertAt(s, i + 1, n)
            X == Range(s) \cup {n}
<1>1. /\ Chain(node, first[l], s, nullptr) /\ s \in Seq(Addr) /\ Range(s) \subseteq live
      /\ Contents(l) = Data(node, s)
      /\ \A m \in Lists \ (given \cup {l}) : Range(s) \cap Range(PathOf(m)) = {}
  BY ListIs DEF insert, Usable
<1>2. /\ l \notin given /\ i \in 0 .. Len(s) /\ n \in Addr /\ n \notin live
      /\ live' = live \cup {n} /\ given' = given
  BY NewIsFree DEF insert, Usable, length
<1>3. /\ Val \subseteq Int /\ first \in [Lists -> Pointer] /\ node \in Heaps
      /\ live \subseteq Addr /\ given \subseteq Lists
  BY ListAssumption DEF TypeOK
<1>. HIDE DEF s, n
<1>4. \A j \in 1 .. Len(s) : s[j] \in Addr /\ s[j] # n /\ s[j] \in Range(s)
  BY <1>1, <1>2 DEF Range
<1>5. /\ first' = [first EXCEPT ![l] = IF i = 0 THEN n ELSE @]
      /\ node' \in Heaps /\ node'[n].data = v
      /\ node'[n].next = IF i + 1 <= Len(s) THEN s[i + 1] ELSE nullptr
      /\ \A a \in Addr \ {n} : node'[a].data = node[a].data
      /\ \A a \in Addr \ X : node'[a] = node[a]
      /\ \A j \in 1 .. Len(s) : node'[s[j]].next = IF j = i THEN n ELSE node[s[j]].next
  <2>1. CASE i = 0
    <3>1. /\ node' = [node EXCEPT ![n] = [data |-> v, next |-> first[l]]]
          /\ first' = [first EXCEPT ![l] = n]
      BY <2>1 DEF insert, n
    <3>2. first[l] = (IF 1 <= Len(s) THEN s[1] ELSE nullptr) /\ first[l] \in Pointer
      BY <1>1, <1>3 DEF Chain
    <3>. QED
      BY <1>2, <1>3, <1>4, <2>1, <3>1, <3>2 DEF Heaps
  <2>2. CASE i # 0
    <3>. DEFINE prev == s[i]
    <3>1. i \in 1 .. Len(s) /\ prev \in Addr /\ prev # n /\ prev \in Range(s)
      BY <1>1, <1>2, <1>4, <2>2
    <3>2. /\ node' = Link([node EXCEPT ![n] = [data |-> v, next |-> next(prev)]], prev, n)
          /\ first' = first
      BY <2>2 DEF insert, n, s
    <3>3. next(prev) = (IF i + 1 <= Len(s) THEN s[i + 1] ELSE nullptr)
      BY <1>1, <3>1, ListAssumption DEF Chain, next, Follow
    <3>4. next(prev) \in Pointer
      BY <1>1, <1>4, <3>1, <3>3 DEF Pointer
    <3>5. \A j \in 1 .. Len(s) : s[j] = prev => j = i
      BY <1>1, <3>1 DEF Chain
    <3>. HIDE DEF prev
    <3>6. node' \in Heaps
      BY <1>2, <1>3, <3>1, <3>2, <3>4 DEF Heaps, Link, Pointer
    <3>7. \A a \in Addr : node'[a] = IF a = prev THEN [node[prev] EXCEPT !.next = n]
                                     ELSE IF a = n THEN [data |-> v, next |-> next(prev)]
                                     ELSE node[a]
      BY <1>2, <1>3, <3>1, <3>2 DEF Heaps, Link
    <3>8. \A a \in Addr : node[a] \in [data : Int, next : Pointer]
      BY <1>3 DEF Heaps
    <3>9. \A j \in 1 .. Len(s) : node'[s[j]].next = IF j = i THEN n ELSE node[s[j]].next
      BY <1>4, <3>1, <3>5, <3>7, <3>8 DEF prev
    <3>10. \A a \in Addr \ {n} : node'[a].data = node[a].data
      BY <3>7, <3>8
    <3>11. first' = [first EXCEPT ![l] = IF i = 0 THEN n ELSE @]
      BY <1>3, <2>2, <3>2
    <3>12. node'[n].data = v /\ node'[n].next = next(prev)
      BY <1>2, <3>1, <3>7
    <3>13. \A a \in Addr \ X : node'[a] = node[a]
      BY <3>1, <3>7
    <3>. QED
      BY <3>3, <3>6, <3>9, <3>10, <3>11, <3>12, <3>13
  <2>. QED
    BY <2>1, <2>2
<1>6. TypeOK'
  BY <1>2, <1>3, <1>5 DEF TypeOK, Pointer
<1>7. first'[l] = IF i + 1 = 1 THEN n ELSE first[l]
  BY <1>2, <1>3, <1>5
<1>8. \A j \in 1 .. Len(s) :
         node'[s[j]].next = IF j = (i + 1) - 1 THEN n ELSE IF j < Len(s) THEN s[j + 1] ELSE nullptr
  BY <1>1, <1>2, <1>5 DEF Chain
<1>9. Chain(node', first'[l], t, nullptr)
  <2>1. i + 1 \in 1 .. Len(s) + 1 /\ n \notin Range(s) /\ n \in Addr
    BY <1>1, <1>2
  <2>2. node'[n].next = IF i + 1 <= Len(s) THEN s[i + 1] ELSE nullptr
    BY <1>5
  <2>3. Chain(node', IF i + 1 = 1 THEN n ELSE first[l], t, nullptr)
    BY ONLY <1>1, <1>8, <2>1, <2>2, ChainInsert
  <2>. QED
    BY <1>7, <2>3
<1>10. Range(t) \subseteq X \cap live'
  <2>1. i + 1 \in 1 .. Len(s) + 1
    BY <1>1, <1>2
  <2>2. Range(t) = Range(s) \cup {n}
    BY ONLY <1>1, <1>2, <2>1, InsertAtRange
  <2>. QED
    BY <1>1, <1>2, <2>2
<1>11. \A m \in Lists \ (given' \cup {l}) : first'[m] = first[m] /\ Range(PathOf(m)) \cap X = {}
  <2>. SUFFICES ASSUME NEW m \in Lists \ (given \cup {l})
                PROVE  first'[m] = first[m] /\ Range(PathOf(m)) \cap X = {}
    BY <1>2
  <2>1. Range(PathOf(m)) \subseteq live
    BY ListIs
  <2>. QED
    BY <1>1, <1>2, <1>3, <1>5, <2>1
<1>12. /\ WellLinked' /\ LeavesOthers(l) /\ Contents(l)' = Data(node', t)
  <2>. HIDE DEF t, X
  <2>1. live \ X \subseteq live' /\ given \subseteq given' /\ l \notin given'
    BY <1>2
  <2>. QED
    BY <1>2, <1>5, <1>6, <1>9, <1>10, <1>11, <2>1, CallOn DEF LeavesOthers
<1>13. Data(node', t) = InsertAt(Data(node, s), i + 1, v)
  <2>1. \A a \in Range(s) : node'[a].data = node[a].data
    BY <1>1, <1>2, <1>3, <1>5
  <2>2. i + 1 \in 1 .. Len(s) + 1
    BY <1>1, <1>2
  <2>. QED
    BY <1>1, <1>2, <1>3, <1>5, <2>1, <2>2, DataInsert
<1>14. i + 1 \in 1 .. Len(Contents(l)) + 1
  BY <1>1, <1>2, <1>3, DataIs
<1>. QED
  BY <1>1, <1>2, <1>6, <1>12, <1>13, <1>14

\* del (linkedlist_adt.cpp:136): the value at the place is gone.
LEMMA DeleteStep ==
    ASSUME TypeOK, WellLinked, NEW l \in Lists, NEW i \in Nat, del(l, i)
    PROVE  /\ TypeOK' /\ WellLinked' /\ LeavesOthers(l) /\ given' = given /\ l \notin given
           /\ i \in 1 .. Len(Contents(l))
           /\ Contents(l)' = RemoveAt(Contents(l), i)
<1>. DEFINE s == PathOf(l)
            p == s[i]
            t == RemoveAt(s, i)
            X == Range(s)
<1>1. /\ Chain(node, first[l], s, nullptr) /\ s \in Seq(Addr) /\ Range(s) \subseteq live
      /\ Contents(l) = Data(node, s)
      /\ \A m \in Lists \ (given \cup {l}) : Range(s) \cap Range(PathOf(m)) = {}
  BY ListIs DEF del, Usable
<1>2. /\ l \notin given /\ i \in 1 .. Len(s)
      /\ live' = live \ {p} /\ given' = given
  BY DEF del, Usable, length
<1>3. /\ first \in [Lists -> Pointer] /\ node \in Heaps
      /\ live \subseteq Addr /\ given \subseteq Lists
      /\ \A a \in Addr : node[a] \in [data : Int, next : Pointer]
  BY DEF TypeOK, Heaps
<1>. DEFINE after == IF i < Len(s) THEN s[i + 1] ELSE nullptr
<1>4. next(p) = after /\ after \in Pointer /\ nullptr \notin Addr /\ p \in Addr
  BY <1>1, <1>2, ListAssumption DEF Chain, next, Follow, Pointer
<1>5. /\ IF i = 1 THEN first' = [first EXCEPT ![l] = after] /\ node' = [node EXCEPT ![p] = Blank]
                  ELSE first' = first /\ node' = [Link(node, s[i - 1], after) EXCEPT ![p] = Blank]
  BY <1>4 DEF del
<1>6. \A j \in 1 .. Len(s) : s[j] \in Addr /\ s[j] \in Range(s) /\ (s[j] = p => j = i)
  BY <1>1, <1>2 DEF Chain, Range
<1>7. \A j, k \in 1 .. Len(s) : s[j] = s[k] => j = k
  BY <1>1 DEF Chain
<1>. HIDE DEF s, p, after
<1>8. /\ node' \in Heaps
      /\ \A a \in Addr \ X : node'[a] = node[a]
      /\ \A j \in (1 .. Len(s)) \ {i} :
            /\ node'[s[j]].data = node[s[j]].data
            /\ node'[s[j]].next = IF j = i - 1 THEN after ELSE node[s[j]].next
  <2>0. Blank \in [data : Int, next : Pointer]
    BY DEF Blank, Pointer
  <2>1. CASE i = 1
    <3>1. node' = [node EXCEPT ![p] = Blank]
      BY <1>5, <2>1
    <3>2. p \in X
      BY <1>2, <1>6 DEF p
    <3>. QED
      BY <1>3, <1>4, <1>6, <2>0, <2>1, <3>1, <3>2 DEF Heaps
  <2>2. CASE i # 1
    <3>. DEFINE prev == s[i - 1]
    <3>1. i - 1 \in 1 .. Len(s) /\ i \in 1 .. Len(s)
      BY <1>1, <1>2, <2>2
    <3>2. prev \in Addr /\ prev \in X /\ p \in X /\ \A j \in 1 .. Len(s) : s[j] = prev => j = i - 1
      BY <1>6, <1>7, <3>1 DEF p
    <3>3. node' = [Link(node, prev, after) EXCEPT ![p] = Blank]
      BY <1>5, <2>2
    <3>. HIDE DEF prev
    <3>4. node' \in Heaps
      BY <1>3, <1>4, <2>0, <3>2, <3>3 DEF Heaps, Link
    <3>5. \A a \in Addr : node'[a] = IF a = p THEN Blank
                                     ELSE IF a = prev THEN [node[prev] EXCEPT !.next = after]
                                     ELSE node[a]
      BY <1>3, <1>4, <3>2, <3>3 DEF Heaps, Link
    <3>6. \A a \in Addr \ X : node'[a] = node[a]
      BY <3>2, <3>5
    <3>7. ASSUME NEW j \in (1 .. Len(s)) \ {i}
          PROVE  /\ node'[s[j]].data = node[s[j]].data
                 /\ node'[s[j]].next = IF j = i - 1 THEN after ELSE node[s[j]].next
      <4>1. s[j] \in Addr /\ s[j] # p /\ (s[j] = prev <=> j = i - 1)
        BY <1>6, <3>2 DEF prev
      <4>. QED
        BY <1>3, <3>5, <4>1
    <3>. QED
      BY <3>4, <3>6, <3>7
  <2>. QED
    BY <2>1, <2>2
<1>9. TypeOK'
  BY <1>2, <1>3, <1>4, <1>5, <1>8 DEF TypeOK
<1>10. first'[l] = IF i > 1 THEN first[l] ELSE IF Len(s) > 1 THEN s[2] ELSE nullptr
  BY <1>2, <1>3, <1>5 DEF after
<1>11. ASSUME NEW j \in (1 .. Len(s)) \ {i}
       PROVE  node'[s[j]].next = IF j = Len(s) \/ (j = i - 1 /\ i = Len(s)) THEN nullptr
                                 ELSE IF j = i - 1 THEN s[i + 1] ELSE s[j + 1]
  <2>1. node[s[j]].next = IF j < Len(s) THEN s[j + 1] ELSE nullptr
    BY <1>1 DEF Chain
  <2>. QED
    BY <1>1, <1>2, <1>8, <2>1 DEF after
<1>12. Chain(node', first'[l], t, nullptr)
  <2>1. Chain(node', IF i > 1 THEN first[l] ELSE IF Len(s) > 1 THEN s[2] ELSE nullptr, t, nullptr)
    BY ONLY <1>1, <1>2, <1>11, ChainRemove
  <2>. QED
    BY <1>10, <2>1
<1>13. Range(t) \subseteq X \cap live'
  <2>1. Range(t) = Range(s) \ {p}
    BY <1>1, <1>2, <1>7, RemoveAtRange DEF p
  <2>. QED
    BY <1>1, <1>2, <2>1
<1>14. \A m \in Lists \ (given' \cup {l}) : first'[m] = first[m] /\ Range(PathOf(m)) \cap X = {}
  BY <1>1, <1>2, <1>3, <1>5
<1>15. /\ WellLinked' /\ LeavesOthers(l) /\ Contents(l)' = Data(node', t)
  <2>. HIDE DEF t, X
  <2>1. live \ X \subseteq live' /\ given \subseteq given' /\ l \notin given'
    BY <1>2, <1>6 DEF X, p
  <2>. QED
    BY <1>2, <1>8, <1>9, <1>12, <1>13, <1>14, <2>1, CallOn DEF LeavesOthers
<1>16. Data(node', t) = RemoveAt(Data(node, s), i)
  BY <1>1, <1>2, <1>3, <1>8, DataRemove
<1>17. i \in 1 .. Len(Contents(l))
  BY <1>1, <1>2, <1>3, DataIs
<1>. QED
  BY <1>1, <1>2, <1>9, <1>15, <1>16, <1>17

\* sorted_insert is an insert behind the values at the front that are less.
LEMMA SortedInsertIsInsert ==
    ASSUME TypeOK, WellLinked, NEW l \in Lists, NEW v \in Int, sorted_insert(l, v)
    PROVE  \E k \in 1 .. Len(Contents(l)) :
              /\ insert(l, k, v)
              /\ \A j \in 1 .. k : Contents(l)[j] < v
              /\ k < Len(Contents(l)) => v <= Contents(l)[k + 1]
<1>. DEFINE s == PathOf(l)
            c == Contents(l)
            Below(i) == \A j \in 1 .. i : node[s[j]].data < v
            less == {i \in DOMAIN s : Below(i)}
            k == Max(less)
<1>1. s \in Seq(Addr) /\ c = Data(node, s) /\ node \in Heaps
  BY ListIs DEF sorted_insert, Usable, TypeOK
<1>2. c \in Seq(Int) /\ Len(c) = Len(s) /\ \A j \in 1 .. Len(s) : c[j] = node[s[j]].data
  BY <1>1, DataIs
<1>3. /\ Usable(l) /\ Free # {} /\ less # {}
      /\ live' = live \cup {New}
      /\ node' = Link([node EXCEPT ![New] = [data |-> v, next |-> next(s[k])]], s[k], New)
      /\ UNCHANGED <<first, given>>
  BY DEF sorted_insert
<1>. HIDE DEF s, c
<1>4. less = {i \in 1 .. Len(s) : Below(i)}
  BY <1>1
<1>5. k \in less /\ \A i \in less : i <= k
  <2>. DEFINE K == {Len(s) - i : i \in less}
  <2>1. K \in SUBSET Nat /\ K # {}
    BY <1>1, <1>3, <1>4
  <2>2. PICK n \in K : \A x \in K : n <= x
    <3>. HIDE DEF K
    <3>. QED
      BY <2>1, LeastNat
  <2>3. PICK m \in less : n = Len(s) - m
    BY <2>2
  <2>4. m \in Int /\ less \subseteq Int
    BY <1>1, <1>4
  <2>5. ASSUME NEW i \in less PROVE m >= i
    <3>1. Len(s) - i \in K
      OBVIOUS
    <3>2. Len(s) - m <= Len(s) - i
      BY <2>2, <2>3, <3>1
    <3>. QED
      BY <1>1, <2>4, <3>2
  <2>. HIDE DEF less
  <2>6. k \in less /\ \A i \in less : k >= i
    BY <2>3, <2>5 DEF Max
  <2>. QED
    BY <2>4, <2>6
<1>6. k \in 1 .. Len(s) /\ Below(k)
  BY <1>4, <1>5
<1>7. k < Len(s) => v <= c[k + 1]
  <2>. SUFFICES ASSUME k < Len(s) PROVE v <= c[k + 1]
    OBVIOUS
  <2>. HIDE DEF k
  <2>1. k + 1 \in 1 .. Len(s) /\ k \in Nat
    BY <1>1, <1>6
  <2>2. k + 1 \notin less
    BY <1>5, <2>1
  <2>3. PICK j \in 1 .. k + 1 : ~ (node[s[j]].data < v)
    BY <1>4, <2>1, <2>2
  <2>4. j = k + 1
    BY <1>6, <2>1, <2>3
  <2>5. c[k + 1] = node[s[k + 1]].data /\ c[k + 1] \in Int
    BY <1>2, <2>1
  <2>. QED
    BY <2>3, <2>4, <2>5
<1>8. insert(l, k, v)
  <2>. HIDE DEF k
  <2>1. k \in 0 .. length(l) /\ k # 0
    BY <1>1, <1>6 DEF length, s
  <2>. QED
    BY <1>3, <2>1 DEF insert, s
<1>9. k \in 1 .. Len(c) /\ \A j \in 1 .. k : c[j] < v
  <2>. HIDE DEF k
  <2>. QED
    BY <1>1, <1>2, <1>6
<1>. QED
  BY <1>2, <1>7, <1>8, <1>9 DEF c

\* The destructor deletes every node of its list and of no other.
LEMMA DestroyStep ==
    ASSUME TypeOK, WellLinked, NEW l \in Lists, Destroy(l)
    PROVE  /\ TypeOK' /\ WellLinked' /\ LeavesOthers(l) /\ given' = given /\ l \notin given
           /\ Contents(l)' = << >>
<1>. DEFINE s == PathOf(l)
            X == Range(s)
<1>1. /\ s \in Seq(Addr) /\ Range(s) \subseteq live
      /\ \A m \in Lists \ (given \cup {l}) : Range(s) \cap Range(PathOf(m)) = {}
  BY ListIs DEF Destroy, Usable
<1>2. /\ l \notin given /\ given' = given /\ live' = live \ X
      /\ first' = [first EXCEPT ![l] = nullptr]
      /\ node' = [a \in Addr |-> IF a \in X THEN Blank ELSE node[a]]
  BY DEF Destroy, Usable
<1>. HIDE DEF s
<1>3. /\ first \in [Lists -> Pointer] /\ node \in Heaps
      /\ live \subseteq Addr /\ given \subseteq Lists
  BY DEF TypeOK
<1>4. TypeOK'
  <2>1. Blank \in [data : Int, next : Pointer] /\ nullptr \in Pointer
    BY DEF Blank, Pointer
  <2>. QED
    BY <1>2, <1>3, <2>1 DEF TypeOK, Heaps
<1>5. Chain(node', first'[l], << >>, nullptr) /\ Range(<< >>) = {}
  BY <1>2, <1>3 DEF Chain, Range
<1>6. \A m \in Lists \ (given' \cup {l}) : first'[m] = first[m] /\ Range(PathOf(m)) \cap X = {}
  BY <1>1, <1>2, <1>3
<1>7. /\ WellLinked' /\ LeavesOthers(l) /\ Contents(l)' = Data(node', << >>)
  <2>1. live \ X \subseteq live' /\ given \subseteq given' /\ l \notin given'
    BY <1>2
  <2>2. \A a \in Addr \ X : node'[a] = node[a]
    BY <1>2
  <2>. HIDE DEF X
  <2>. QED
    BY <1>2, <1>4, <1>5, <1>6, <2>1, <2>2, CallOn DEF LeavesOthers
<1>8. Data(node', << >>) = << >>
  BY DEF Data
<1>. QED
  BY <1>2, <1>4, <1>7, <1>8

\* The list that main() bends into a loop is never walked to its end again.
LEMMA CloseLoopStep ==
    ASSUME TypeOK, WellLinked, NEW l \in Lists, CloseLoop(l)
    PROVE  /\ TypeOK' /\ WellLinked' /\ LeavesOthers(l) /\ l \notin given
           /\ given' = given \cup {l}
<1>. DEFINE s == PathOf(l)
            X == Range(s)
<1>1. /\ s \in Seq(Addr) /\ Range(s) \subseteq live /\ Chain(node, first[l], s, nullptr)
      /\ \A m \in Lists \ (given \cup {l}) : Range(s) \cap Range(PathOf(m)) = {}
  BY ListIs DEF CloseLoop, Usable
<1>2. /\ l \notin given /\ given' = given \cup {l} /\ live' = live /\ first' = first
      /\ first[l] # nullptr /\ node' = Link(node, s[Len(s)], first[l])
  BY DEF CloseLoop, Usable, Last
<1>. HIDE DEF s
<1>3. /\ first \in [Lists -> Pointer] /\ node \in Heaps
      /\ live \subseteq Addr /\ given \subseteq Lists
  BY DEF TypeOK
<1>4. s # << >>
  BY <1>1, <1>2 DEF Chain
<1>5. s[Len(s)] \in X /\ s[Len(s)] \in Addr
  BY <1>1, <1>4 DEF Range
<1>6. TypeOK' /\ \A a \in Addr \ X : node'[a] = node[a]
  BY <1>2, <1>3, <1>5 DEF TypeOK, Heaps, Link
<1>7. \A m \in Lists \ (given' \cup {l}) : first'[m] = first[m] /\ Range(PathOf(m)) \cap X = {}
  BY <1>1, <1>2
<1>8. /\ WellLinked' /\ LeavesOthers(l)
  <2>1. live \ X \subseteq live' /\ given \subseteq given' /\ l \in given'
    BY <1>2
  <2>. HIDE DEF X
  <2>. QED
    BY <1>2, <1>6, <1>7, <2>1, CallOn DEF LeavesOthers
<1>. QED
  BY <1>2, <1>6, <1>8

\* concat (linkedlist_adt.cpp:202): the values of the second list follow those
\* of the first, and the second list is not used again.
LEMMA ConcatStep ==
    ASSUME TypeOK, WellLinked, NEW l \in Lists, NEW m \in Lists, concat(l, m)
    PROVE  /\ TypeOK' /\ WellLinked' /\ LeavesOthers(l)
           /\ l # m /\ l \notin given /\ m \notin given /\ given' = given \cup {m}
           /\ Contents(l)' = Contents(l) \o Contents(m)
<1>. DEFINE s == PathOf(l)
            u == PathOf(m)
            t == s \o u
            X == Range(s) \cup Range(u)
<1>1. /\ l \notin given /\ m \notin given /\ l # m /\ given' = given \cup {m}
      /\ live' = live /\ first' = first
      /\ first[l] # nullptr /\ node' = Link(node, s[Len(s)], first[m])
  BY DEF concat, Usable, Last
<1>2. /\ s \in Seq(Addr) /\ Range(s) \subseteq live /\ Chain(node, first[l], s, nullptr)
      /\ u \in Seq(Addr) /\ Range(u) \subseteq live /\ Chain(node, first[m], u, nullptr)
      /\ Range(s) \cap Range(u) = {}
      /\ \A k \in Lists \ (given' \cup {l}) : Range(PathOf(k)) \cap X = {}
      /\ Contents(l) = Data(node, s) /\ Contents(m) = Data(node, u)
  BY <1>1, ListIs
<1>. HIDE DEF s, u
<1>3. /\ first \in [Lists -> Pointer] /\ node \in Heaps
      /\ live \subseteq Addr /\ given \subseteq Lists
  BY DEF TypeOK
<1>4. s # << >>
  BY <1>1, <1>2 DEF Chain
<1>5. Len(s) \in 1 .. Len(s) /\ s[Len(s)] \in Range(s) /\ s[Len(s)] \in Addr
  BY <1>2, <1>4 DEF Range
<1>6. /\ TypeOK' /\ (\A a \in Addr \ X : node'[a] = node[a])
      /\ \A a \in Addr : /\ node'[a].data = node[a].data
                         /\ node'[a].next = IF a = s[Len(s)] THEN first[m] ELSE node[a].next
  BY <1>1, <1>3, <1>5 DEF TypeOK, Heaps, Link
<1>7. Chain(node', first[l], s, first[m])
  <2>1. \A j \in 1 .. Len(s) : s[j] \in Addr /\ (s[j] = s[Len(s)] <=> j = Len(s))
    BY <1>2, <1>5 DEF Chain
  <2>2. \A j \in 1 .. Len(s) :
           node'[s[j]].next = IF j < Len(s) THEN node[s[j]].next ELSE first[m]
    BY <1>2, <1>6, <2>1
  <2>. QED
    BY <1>2, <1>4, <2>2, ChainEnd
<1>8. Chain(node', first[m], u, nullptr)
  <2>1. \A j \in 1 .. Len(u) : u[j] \in Addr /\ u[j] \in Range(u)
    BY <1>2 DEF Range
  <2>2. \A j \in 1 .. Len(u) : node'[u[j]].next = node[u[j]].next
    BY <1>2, <1>5, <1>6, <2>1
  <2>. QED
    BY <1>2, <2>2 DEF Chain
<1>9. Chain(node', first'[l], t, nullptr) /\ Range(t) = X
  BY <1>1, <1>2, <1>7, <1>8, ChainConcat
<1>10. /\ WellLinked' /\ LeavesOthers(l) /\ Contents(l)' = Data(node', t)
  <2>1. /\ live \ X \subseteq live' /\ given \subseteq given' /\ l \notin given'
        /\ \A k \in Lists \ (given' \cup {l}) : first'[k] = first[k]
    BY <1>1
  <2>2. Range(t) \subseteq X \cap live'
    BY <1>1, <1>2, <1>9
  <2>3. /\ \A k \in Lists \ (given' \cup {l}) : first'[k] = first[k] /\ Range(PathOf(k)) \cap X = {}
        /\ l \notin given' => Chain(node', first'[l], t, nullptr) /\ Range(t) \subseteq X \cap live'
        /\ l \notin given /\ TypeOK' /\ \A a \in Addr \ X : node'[a] = node[a]
    BY <1>1, <1>2, <1>6, <1>9, <2>1, <2>2
  <2>. HIDE DEF X, t
  <2>4. /\ WellLinked' /\ \A k \in Lists \ (given' \cup {l}) : Contents(k)' = Contents(k)
        /\ l \notin given' => Contents(l)' = Data(node', t)
    BY <2>1, <2>3, CallOn
  <2>. QED
    BY <2>1, <2>4 DEF LeavesOthers
<1>11. Data(node', t) = Data(node, s) \o Data(node, u)
  <2>1. node' \in Heaps
    BY <1>6 DEF TypeOK
  <2>2. Data(node', s) = Data(node, s) /\ Data(node', u) = Data(node, u)
    BY <1>2, <1>3, <1>6, <2>1, DataSame
  <2>. QED
    BY <1>2, <2>1, <2>2, DataConcat
<1>. QED
  BY <1>1, <1>2, <1>6, <1>10, <1>11

\* The first n nodes of those that are free.
LEMMA FrontIs ==
    ASSUME NEW a \in Seq(Addr), \A i, j \in 1 .. Len(a) : a[i] = a[j] => i = j,
           NEW n \in 1 .. Len(a)
    PROVE  \E t \in Seq(Addr) :
              /\ Len(t) = n /\ \A j \in 1 .. n : t[j] = a[j]
              /\ \A i, j \in 1 .. n : t[i] = t[j] => i = j
              /\ Range(t) = {a[j] : j \in 1 .. n}
<1>. DEFINE t == [j \in 1 .. n |-> a[j]]
<1>1. t \in Seq(Addr) /\ Len(t) = n /\ \A j \in 1 .. n : t[j] = a[j] /\ j \in 1 .. Len(a)
  OBVIOUS
<1>2. Range(t) = {a[j] : j \in 1 .. n}
  BY DEF Range
<1>. HIDE DEF t
<1>. QED
  BY <1>1, <1>2

\* The nodes that the constructor takes, one after the other.
LEMMA FreeIs ==
    /\ SetToSeq(Free) \in Seq(Addr) /\ Len(SetToSeq(Free)) \in 0 .. N
    /\ \A i, j \in 1 .. Len(SetToSeq(Free)) : SetToSeq(Free)[i] = SetToSeq(Free)[j] => i = j
    /\ \A i \in 1 .. Len(SetToSeq(Free)) : SetToSeq(Free)[i] \in Free
<1>1. IsFiniteSet(Free) /\ Cardinality(Free) \in 0 .. N
  BY ListAssumption, FS_Subset, FS_CardinalityType DEF Free, N
<1>. DEFINE a == SetToSeq(Free)
<1>2. /\ a \in Seq(Free) /\ Len(a) = Cardinality(Free)
      /\ \A i, j \in 1 .. Cardinality(Free) : a[i] = a[j] => i = j
  BY <1>1, SetToSeqIs
<1>. HIDE DEF a
<1>3. a \in Seq(Addr)
  <2>1. Free \subseteq Addr
    BY DEF Free
  <2>. HIDE DEF Free
  <2>. QED
    BY <1>2, <2>1
<1>4. a \in Seq(Addr) /\ Len(a) \in 0 .. N
      /\ (\A i, j \in 1 .. Len(a) : a[i] = a[j] => i = j)
      /\ \A i \in 1 .. Len(a) : a[i] \in Free
  BY <1>1, <1>2, <1>3
<1>. QED
  BY <1>4 DEF a

\* The constructor from an array: the list holds the array's values in order.
LEMMA FromArrayStep ==
    ASSUME TypeOK, WellLinked, NEW l \in Lists, NEW n \in 1 .. N, NEW A \in [1 .. n -> Val],
           FromArray(l, A)
    PROVE  /\ TypeOK' /\ WellLinked' /\ LeavesOthers(l) /\ given' = given /\ l \notin given
           /\ Contents(l) = << >> /\ Contents(l)' = A
<1>. DEFINE a == SetToSeq(Free)
            X == {a[i] : i \in 1 .. n}
            Has(b, i) == a[i] = b
<1>0. n \in Nat /\ n >= 1 /\ Len(A) = n
  BY NodeCount
<1>1. /\ l \notin given /\ first[l] = nullptr /\ given' = given /\ n \in 1 .. Len(a)
      /\ live' = live \cup {a[i] : i \in 1 .. n}
      /\ first' = [first EXCEPT ![l] = a[1]]
      /\ node' = [b \in Addr |->
                   IF \E i \in 1 .. n : Has(b, i)
                   THEN [data |-> A[CHOOSE i \in 1 .. n : Has(b, i)],
                         next |-> IF (CHOOSE i \in 1 .. n : Has(b, i)) = n THEN nullptr
                                  ELSE a[(CHOOSE i \in 1 .. n : Has(b, i)) + 1]]
                   ELSE node[b]]
  BY <1>0 DEF FromArray, Usable
<1>2. /\ a \in Seq(Addr) /\ \A i, j \in 1 .. Len(a) : a[i] = a[j] => i = j
      /\ \A i \in 1 .. Len(a) : a[i] \in Addr /\ a[i] \notin live
  BY FreeIs DEF Free
<1>. HIDE DEF a
<1>3. /\ first \in [Lists -> Pointer] /\ node \in Heaps /\ Val \subseteq Int
      /\ live \subseteq Addr /\ given \subseteq Lists
  BY ListAssumption DEF TypeOK
<1>4. ASSUME NEW j \in 1 .. n
      PROVE  /\ a[j] \in Addr /\ node'[a[j]] \in [data : Int, next : Pointer]
             /\ node'[a[j]].data = A[j]
             /\ node'[a[j]].next = IF j = n THEN nullptr ELSE a[j + 1]
  <2>1. j \in 1 .. Len(a) /\ a[j] \in Addr /\ Has(a[j], j)
    BY <1>1, <1>2
  <2>2. (CHOOSE i \in 1 .. n : Has(a[j], i)) = j
    BY <1>1, <1>2, <2>1
  <2>3. node'[a[j]] = [data |-> A[j], next |-> IF j = n THEN nullptr ELSE a[j + 1]]
    BY <1>1, <2>1, <2>2
  <2>4. A[j] \in Int /\ (j # n => a[j + 1] \in Addr)
    <3>1. A[j] \in Val
      OBVIOUS
    <3>2. j # n => j + 1 \in 1 .. Len(a)
      BY <1>0, <1>1
    <3>. QED
      BY <1>2, <1>3, <3>1, <3>2
  <2>. QED
    BY <2>1, <2>3, <2>4 DEF Pointer
<1>5. ASSUME NEW b \in Addr, \A j \in 1 .. n : a[j] # b PROVE node'[b] = node[b]
  BY <1>1, <1>5
<1>6. node' \in Heaps
  <2>1. ASSUME NEW b \in Addr PROVE node'[b] \in [data : Int, next : Pointer]
    <3>1. CASE \E j \in 1 .. n : a[j] = b
      <4>1. PICK j \in 1 .. n : a[j] = b
        BY <3>1
      <4>. QED
        BY <1>4, <4>1
    <3>2. CASE \A j \in 1 .. n : a[j] # b
      BY <1>3, <1>5, <3>2 DEF Heaps
    <3>. QED
      BY <3>1, <3>2
  <2>2. node' = [b \in Addr |-> node'[b]]
    BY <1>1
  <2>. QED
    BY <2>1, <2>2 DEF Heaps
<1>7. TypeOK'
  <2>1. 1 \in 1 .. n /\ a[1] \in Pointer
    <3>1. 1 \in 1 .. n
      BY <1>0
    <3>2. a[1] \in Addr
      BY <3>1, <1>4
    <3>. QED
      BY <3>1, <3>2 DEF Pointer
  <2>2. first' \in [Lists -> Pointer]
    BY <1>1, <1>3, <2>1
  <2>3. live' \subseteq Addr
    <3>1. live' = live \cup {a[i] : i \in 1 .. n} /\ live \subseteq Addr
      BY <1>1, <1>3
    <3>. QED
      BY <1>4, <3>1
  <2>4. given' \subseteq Lists
    BY <1>1, <1>3
  <2>. QED
    BY ONLY <1>6, <2>2, <2>3, <2>4 DEF TypeOK
<1>8. PICK t \in Seq(Addr) : /\ Len(t) = n /\ \A j \in 1 .. n : t[j] = a[j]
                             /\ \A i, j \in 1 .. n : t[i] = t[j] => i = j
                             /\ Range(t) = X
  BY ONLY <1>1, <1>2, FrontIs
<1>13. Chain(node', first'[l], t, nullptr) /\ Data(node', t) = A
  <2>1. ASSUME NEW j \in 1 .. n
        PROVE  /\ node'[t[j]].data = A[j]
               /\ node'[t[j]].next = IF j = n THEN nullptr ELSE t[j + 1]
    BY <1>0, <1>4, <1>8
  <2>2. A \in [1 .. n -> Int]
    BY <1>3
  <2>3. first'[l] = t[1]
    BY <1>0, <1>1, <1>3, <1>8
  <2>4. Chain(node', t[1], t, nullptr)
    <3>1. t # << >>
      BY <1>0, <1>8
    <3>2. ASSUME NEW i \in 1 .. Len(t)
          PROVE  node'[t[i]].next = IF i < Len(t) THEN t[i + 1] ELSE nullptr
      BY <1>0, <1>8, <2>1
    <3>. QED
      BY <1>8, <3>1, <3>2 DEF Chain
  <2>5. Data(node', t) = A
    BY <1>8, <2>1 DEF Data
  <2>. QED
    BY <2>3, <2>4, <2>5
<1>9. X \cap live = {} /\ X \subseteq live' /\ \A b \in Addr \ X : node'[b] = node[b]
  BY <1>1, <1>2, <1>5
<1>10. \A m \in Lists \ (given' \cup {l}) : first'[m] = first[m] /\ Range(PathOf(m)) \cap X = {}
  <2>. SUFFICES ASSUME NEW m \in Lists \ (given \cup {l})
                PROVE  first'[m] = first[m] /\ Range(PathOf(m)) \cap X = {}
    BY <1>1
  <2>1. Range(PathOf(m)) \subseteq live
    BY ListIs
  <2>. QED
    BY <1>1, <1>3, <1>9, <2>1
<1>11. /\ WellLinked' /\ LeavesOthers(l) /\ Contents(l)' = Data(node', t)
  <2>1. live \ X \subseteq live' /\ given \subseteq given' /\ l \notin given'
    BY <1>1
  <2>2. Range(t) \subseteq X \cap live'
    BY <1>8, <1>9
  <2>. HIDE DEF X
  <2>. QED
    BY <1>1, <1>7, <1>9, <1>10, <1>13, <2>1, <2>2, CallOn DEF LeavesOthers
<1>12. Contents(l) = << >>
  <2>1. Chain(node, first[l], << >>, nullptr) /\ nullptr \in Pointer
    BY <1>1 DEF Chain, Pointer
  <2>2. Contents(l) = Data(node, << >>)
    BY <1>1, <1>3, <2>1, ValuesIs DEF Contents
  <2>. QED
    BY <2>2 DEF Data
<1>. QED
  BY <1>1, <1>7, <1>11, <1>12, <1>13

-----------------------------------------------------------------------------
(* reverse.  After r rounds the first r nodes of s point back, q is the    *)
(* r-th and p the next one.                                                *)

Turned(s, r, c) ==
  /\ c.q = IF r = 0 THEN nullptr ELSE s[r]
  /\ c.p = IF r < Len(s) THEN s[r + 1] ELSE nullptr
  /\ \A a \in Addr : c.heap[a].data = node[a].data
  /\ \A a \in Addr \ Range(s) : c.heap[a] = node[a]
  /\ \A j \in 1 .. Len(s) :
        c.heap[s[j]].next = IF j > r THEN IF j < Len(s) THEN s[j + 1] ELSE nullptr
                            ELSE IF j > 1 THEN s[j - 1] ELSE nullptr

TurnStates == [heap : Heaps, p : Pointer, q : Pointer]

TurnRound(c) ==
  IF c.p = nullptr THEN c
  ELSE [heap |-> Link(c.heap, c.p, c.q), p |-> c.heap[c.p].next, q |-> c.p]

\* An assignment to a next pointer changes nothing else.
LEMMA LinkIs ==
    ASSUME NEW h \in Heaps, NEW a \in Addr, NEW q \in Pointer
    PROVE  /\ Link(h, a, q) \in Heaps
           /\ Link(h, a, q)[a].data = h[a].data /\ Link(h, a, q)[a].next = q
           /\ \A b \in Addr : b # a => Link(h, a, q)[b] = h[b]
  BY DEF Heaps, Link

\* A round of reverse moves the three pointers and turns one link ...
LEMMA TurnRoundType ==
    ASSUME NEW c \in TurnStates
    PROVE  /\ TurnRound(c) \in TurnStates
           /\ c.p # nullptr => TurnRound(c) = [heap |-> Link(c.heap, c.p, c.q),
                                              p |-> c.heap[c.p].next, q |-> c.p]
<1>1. c.heap \in Heaps /\ c.p \in Pointer /\ c.q \in Pointer
  BY DEF TurnStates
<1>2. CASE c.p # nullptr
  <2>1. c.p \in Addr
    BY <1>1, <1>2 DEF Pointer
  <2>2. c.heap[c.p].next \in Pointer /\ Link(c.heap, c.p, c.q) \in Heaps
    BY <1>1, <2>1, LinkIs DEF Heaps
  <2>. QED
    BY <1>1, <1>2, <2>2 DEF TurnStates, TurnRound
<1>. QED
  BY <1>2 DEF TurnRound

\* ... so that one more node points back ...
LEMMA TurnRoundIs ==
    ASSUME NEW c \in TurnStates, NEW s \in Seq(Addr), NEW r \in 0 .. Len(s), Turned(s, r, c),
           \A i, j \in 1 .. Len(s) : s[i] = s[j] => i = j
    PROVE  /\ r < Len(s) => Turned(s, r + 1, TurnRound(c))
           /\ r = Len(s) => TurnRound(c) = c
<1>1. /\ nullptr \notin Addr /\ c.heap \in Heaps /\ c.p \in Pointer /\ c.q \in Pointer
      /\ \A j \in 1 .. Len(s) : s[j] \in Addr /\ s[j] \in Range(s)
      /\ Len(s) \in Nat
  BY ListAssumption DEF TurnStates, Range
<1>2. CASE r = Len(s)
  BY <1>1, <1>2 DEF Turned, TurnRound
<1>3. CASE r < Len(s)
  <2>. DEFINE a == s[r + 1]
              d == TurnRound(c)
  <2>1. c.p = a /\ a \in Addr /\ a \in Range(s) /\ r + 1 \in 1 .. Len(s)
    BY <1>1, <1>3 DEF Turned
  <2>2. d = [heap |-> Link(c.heap, a, c.q), p |-> c.heap[a].next, q |-> a]
    BY <1>1, <2>1, TurnRoundType
  <2>3. /\ d.p = c.heap[a].next /\ d.q = a
        /\ d.heap[a].data = c.heap[a].data /\ d.heap[a].next = c.q
        /\ \A b \in Addr : b # a => d.heap[b] = c.heap[b]
    <3>1. d.p = c.heap[a].next /\ d.q = a /\ d.heap = Link(c.heap, a, c.q)
      BY <2>2
    <3>. HIDE DEF a, d
    <3>2. c.heap \in Heaps /\ a \in Addr /\ c.q \in Pointer
      BY <1>1, <2>1
    <3>3. /\ Link(c.heap, a, c.q)[a].data = c.heap[a].data
          /\ Link(c.heap, a, c.q)[a].next = c.q
          /\ \A b \in Addr : b # a => Link(c.heap, a, c.q)[b] = c.heap[b]
      BY ONLY <3>2, LinkIs
    <3>. QED
      BY <3>1, <3>3
  <2>5. \A j \in 1 .. Len(s) : s[j] = a <=> j = r + 1
    BY <2>1
  <2>. HIDE DEF a, d
  <2>6. d.q = s[r + 1] /\ d.p = IF r + 1 < Len(s) THEN s[(r + 1) + 1] ELSE nullptr
    BY <1>1, <1>3, <2>1, <2>3 DEF Turned, a
  <2>7. \A b \in Addr : d.heap[b].data = node[b].data
    BY <2>1, <2>3 DEF Turned
  <2>8. \A b \in Addr \ Range(s) : d.heap[b] = node[b]
    BY <2>1, <2>3 DEF Turned
  <2>9. ASSUME NEW j \in 1 .. Len(s)
        PROVE  d.heap[s[j]].next = IF j > r + 1 THEN IF j < Len(s) THEN s[j + 1] ELSE nullptr
                                   ELSE IF j > 1 THEN s[j - 1] ELSE nullptr
    <3>1. CASE j = r + 1
      <4>1. d.heap[s[j]].next = c.q
        BY <1>1, <2>1, <2>3, <2>5, <3>1
      <4>2. c.q = IF j > 1 THEN s[j - 1] ELSE nullptr
        BY <1>1, <3>1 DEF Turned
      <4>. QED
        BY <3>1, <4>1, <4>2
    <3>2. CASE j # r + 1
      <4>1. d.heap[s[j]].next = c.heap[s[j]].next
        BY <1>1, <2>3, <2>5, <3>2
      <4>2. j > r <=> j > r + 1
        BY <1>1, <3>2
      <4>. QED
        BY <4>1, <4>2 DEF Turned
    <3>. QED
      BY <3>1, <3>2
  <2>10. Turned(s, r + 1, d)
    BY <1>1, <2>6, <2>7, <2>8, <2>9 DEF Turned
  <2>. QED
    BY <1>3, <2>10 DEF d
<1>. QED
  BY <1>1, <1>2, <1>3

\* ... and at the end all of them do.
LEMMA ReversedIs ==
    ASSUME TypeOK, NEW l \in Lists, NEW s, Chain(node, first[l], s, nullptr)
    PROVE  Reversed(l) \in TurnStates /\ Turned(s, Len(s), Reversed(l))
<1>. DEFINE x == [heap |-> node, p |-> first[l], q |-> nullptr]
            body == [c \in TurnStates |-> TurnRound(c)]
            Upto(k) == IF k < Len(s) THEN k ELSE Len(s)
            J == [k \in 0 .. N |-> {c \in TurnStates : Turned(s, Upto(k), c)}]
<1>1. Reversed(l) = Rounds(body, x)[N]
  BY DEF Reversed, Final, TurnStates, TurnRound, N
<1>2. body \in [TurnStates -> TurnStates]
  BY TurnRoundType
<1>3. /\ node \in Heaps /\ first[l] \in Pointer /\ s \in Seq(Addr) /\ Len(s) \in 0 .. N
      /\ \A i, j \in 1 .. Len(s) : s[i] = s[j] => i = j
  BY PathBound DEF TypeOK, Chain
<1>4. x \in TurnStates /\ Turned(s, 0, x)
  <2>1. x \in TurnStates
    BY <1>3 DEF TurnStates, Pointer
  <2>2. first[l] = IF 0 < Len(s) THEN s[1] ELSE nullptr
    BY <1>3 DEF Chain
  <2>3. \A j \in 1 .. Len(s) : node[s[j]].next = IF j < Len(s) THEN s[j + 1] ELSE nullptr
    BY DEF Chain
  <2>. QED
    BY <1>3, <2>1, <2>2, <2>3 DEF Turned
<1>5. x \in J[0]
  BY <1>3, <1>4, NodeCount
<1>6. ASSUME NEW k \in 0 .. N - 1, NEW c \in TurnStates, c \in J[k] PROVE body[c] \in J[k + 1]
  <2>1. Turned(s, Upto(k), c) /\ Upto(k) \in 0 .. Len(s) /\ k + 1 \in 0 .. N
    BY <1>3, <1>6, NodeCount
  <2>2. body[c] = TurnRound(c) /\ TurnRound(c) \in TurnStates
    BY TurnRoundType
  <2>3. Turned(s, Upto(k + 1), TurnRound(c))
    <3>1. CASE k < Len(s)
      <4>1. Upto(k) = k /\ Upto(k + 1) = k + 1
        BY <1>3, <3>1, NodeCount
      <4>. QED
        BY <1>3, <2>1, <3>1, <4>1, TurnRoundIs
    <3>2. CASE k >= Len(s)
      <4>1. Upto(k) = Len(s) /\ Upto(k + 1) = Len(s)
        BY <1>3, <3>2, NodeCount
      <4>. QED
        BY <1>3, <2>1, <3>2, <4>1, TurnRoundIs
    <3>. QED
      BY <1>3, <3>1, <3>2, NodeCount
  <2>. QED
    BY <2>1, <2>2, <2>3
<1>7. Rounds(body, x)[N] \in J[N]
  <2>. HIDE DEF body, x, J
  <2>1. \A k \in 0 .. N : Rounds(body, x)[k] \in J[k]
    BY <1>2, <1>4, <1>5, <1>6, RoundsKeep
  <2>. QED
    BY <2>1, NodeCount
<1>8. Upto(N) = Len(s) /\ N \in 0 .. N
  BY <1>3, NodeCount
<1>. QED
  BY <1>1, <1>7, <1>8

\* reverse (linkedlist_adt.cpp:181): the same nodes in the opposite order.
LEMMA ReverseStep ==
    ASSUME TypeOK, WellLinked, NEW l \in Lists, reverse(l)
    PROVE  /\ TypeOK' /\ WellLinked' /\ LeavesOthers(l) /\ given' = given /\ l \notin given
           /\ Contents(l)' = Reverse(Contents(l))
<1>. DEFINE s == PathOf(l)
            t == Reverse(s)
            m == Len(s)
            c == Reversed(l)
            X == Range(s)
<1>1. /\ s \in Seq(Addr) /\ Range(s) \subseteq live /\ Chain(node, first[l], s, nullptr)
      /\ \A k \in Lists \ (given \cup {l}) : Range(s) \cap Range(PathOf(k)) = {}
      /\ Contents(l) = Data(node, s)
  BY ListIs DEF reverse, Usable
<1>2. /\ l \notin given /\ given' = given /\ live' = live
      /\ node' = c.heap /\ first' = [first EXCEPT ![l] = c.q]
  BY DEF reverse, Usable
<1>3. c \in TurnStates /\ Turned(s, m, c)
  BY <1>1, ReversedIs
<1>. HIDE DEF s, c
<1>4. /\ first \in [Lists -> Pointer] /\ node \in Heaps
      /\ live \subseteq Addr /\ given \subseteq Lists
      /\ node' \in Heaps /\ c.q \in Pointer /\ first'[l] = c.q
  BY <1>2, <1>3 DEF TypeOK, TurnStates
<1>5. TypeOK'
  BY <1>2, <1>4 DEF TypeOK
<1>6. /\ m \in Nat /\ t \in Seq(Addr) /\ Len(t) = m
      /\ \A j \in 1 .. m : m - j + 1 \in 1 .. m /\ t[j] = s[m - j + 1]
  BY <1>1, ReverseIs
<1>7. /\ first'[l] = IF m = 0 THEN nullptr ELSE s[m]
      /\ \A a \in Addr : node'[a].data = node[a].data
      /\ \A a \in Addr \ X : node'[a] = node[a]
      /\ \A j \in 1 .. m : node'[s[j]].next = IF j > 1 THEN s[j - 1] ELSE nullptr
  BY <1>2, <1>3, <1>4, <1>6 DEF Turned
<1>12. /\ DOMAIN s = 1 .. m /\ \A j \in 1 .. m : s[j] \in Addr
       /\ \A i, j \in 1 .. m : s[i] = s[j] => i = j
  BY <1>1 DEF Chain
<1>. HIDE DEF t, m
<1>8. Range(t) = X
  <2>1. /\ Range(t) = {t[j] : j \in 1 .. m} /\ X = {s[j] : j \in 1 .. m}
    BY <1>6, <1>12 DEF Range
  <2>2. \A j \in 1 .. m : t[j] \in X
    BY <1>6, <2>1
  <2>3. ASSUME NEW j \in 1 .. m PROVE s[j] \in Range(t)
    <3>1. m - j + 1 \in 1 .. m /\ m - (m - j + 1) + 1 = j
      BY <1>6
    <3>2. t[m - j + 1] = s[j]
      BY <1>6, <3>1
    <3>. QED
      BY <2>1, <3>1, <3>2
  <2>. QED
    BY <2>1, <2>2, <2>3
<1>9. Chain(node', first'[l], t, nullptr)
  <2>1. ASSUME NEW i \in 1 .. m, NEW j \in 1 .. m, t[i] = t[j] PROVE i = j
    <3>0. m - i + 1 \in 1 .. m /\ m - j + 1 \in 1 .. m /\ s[m - i + 1] = s[m - j + 1]
      BY <1>6, <2>1
    <3>1. m - i + 1 = m - j + 1
      BY <1>12, <3>0
    <3>. QED
      BY <1>6, <3>1
  <2>2. ASSUME NEW j \in 1 .. m PROVE node'[t[j]].next = IF j < m THEN t[j + 1] ELSE nullptr
    <3>1. m - j + 1 \in 1 .. m /\ t[j] = s[m - j + 1]
      BY <1>6
    <3>2. node'[t[j]].next = IF m - j + 1 > 1 THEN s[(m - j + 1) - 1] ELSE nullptr
      BY <1>7, <3>1
    <3>3. CASE j < m
      <4>1. j + 1 \in 1 .. m /\ m - (j + 1) + 1 = (m - j + 1) - 1 /\ m - j + 1 > 1
        BY <1>6, <3>3
      <4>2. t[j + 1] = s[(m - j + 1) - 1]
        BY <1>6, <4>1
      <4>. QED
        BY <3>2, <3>3, <4>1, <4>2
    <3>4. CASE j = m
      <4>1. ~ (m - j + 1 > 1)
        BY <1>6, <3>4
      <4>. QED
        BY <1>6, <3>2, <3>4, <4>1
    <3>. QED
      BY <1>6, <3>3, <3>4
  <2>3. IF t = << >> THEN first'[l] = nullptr ELSE first'[l] = t[1]
    <3>1. CASE m = 0
      BY <1>6, <1>7, <3>1
    <3>2. CASE m # 0
      <4>1. 1 \in 1 .. m /\ m - 1 + 1 = m /\ t # << >>
        BY <1>6, <3>2
      <4>2. t[1] = s[m]
        BY <1>6, <4>1
      <4>. QED
        BY <1>7, <3>2, <4>1, <4>2
    <3>. QED
      BY <3>1, <3>2
  <2>. QED
    BY <1>6, <2>1, <2>2, <2>3 DEF Chain
<1>10. /\ WellLinked' /\ LeavesOthers(l) /\ Contents(l)' = Data(node', t)
  <2>1. /\ live \ X \subseteq live' /\ given \subseteq given' /\ l \notin given'
        /\ \A k \in Lists \ (given' \cup {l}) : first'[k] = first[k] /\ Range(PathOf(k)) \cap X = {}
    BY <1>1, <1>2, <1>4
  <2>2. Range(t) \subseteq X \cap live'
    BY <1>1, <1>2, <1>8
  <2>. HIDE DEF X
  <2>. QED
    BY <1>2, <1>5, <1>7, <1>9, <2>1, <2>2, CallOn DEF LeavesOthers
<1>11. Data(node', t) = Reverse(Data(node, s))
  <2>. DEFINE d == Data(node, s)
              x == Data(node', t)
              y == Reverse(d)
  <2>1. d \in Seq(Int) /\ Len(d) = m /\ \A j \in 1 .. m : d[j] = node[s[j]].data
    BY <1>1, <1>4, DataIs DEF m
  <2>2. x \in Seq(Int) /\ Len(x) = m /\ \A j \in 1 .. m : x[j] = node'[t[j]].data
    BY <1>4, <1>6, DataIs
  <2>. HIDE DEF d, x
  <2>3. y \in Seq(Int) /\ Len(y) = m /\ \A j \in 1 .. m : y[j] = d[m - j + 1]
    BY <2>1, ReverseIs
  <2>. HIDE DEF y
  <2>4. ASSUME NEW j \in 1 .. Len(x) PROVE x[j] = y[j]
    <3>1. j \in 1 .. m /\ m - j + 1 \in 1 .. m /\ t[j] = s[m - j + 1] /\ s[m - j + 1] \in Addr
      BY <1>6, <1>12, <2>2
    <3>2. x[j] = node[s[m - j + 1]].data
      BY <1>7, <2>2, <3>1
    <3>. QED
      BY <2>1, <2>3, <3>1, <3>2
  <2>5. x = y
    <3>1. \A j \in 1 .. Len(x) : x[j] = y[j]
      BY <2>4
    <3>. QED
      BY <2>2, <2>3, <3>1, SeqEqual
  <2>. QED
    BY <2>5 DEF x, y, d
<1>. QED
  BY <1>1, <1>2, <1>5, <1>10, <1>11

-----------------------------------------------------------------------------
(* merge.  The chain r that is linked so far holds the first i - 1 nodes   *)
(* of s and the first j - 1 of u, in order.                                *)

Value(a) == node[a].data

Merged(s, u, f, r, i, j, h) ==
  /\ i \in 1 .. Len(s) + 1 /\ j \in 1 .. Len(u) + 1
  /\ h \in Heaps /\ r # << >> /\ Chain(h, f, r, h[r[Len(r)]].next)
  /\ \A a \in Addr : h[a].data = Value(a)
  /\ \A a \in Addr \ Range(r) : h[a] = node[a]
  /\ Range(r) = {s[x] : x \in 1 .. i - 1} \cup {u[y] : y \in 1 .. j - 1}
  /\ \A x, y \in 1 .. Len(r) : x <= y => Value(r[x]) <= Value(r[y])
  /\ i <= Len(s) => Value(r[Len(r)]) <= Value(s[i])
  /\ j <= Len(u) => Value(r[Len(r)]) <= Value(u[j])

\* Neither list is the first one.
LEMMA MergedSwaps ==
    ASSUME NEW s, NEW u, NEW f, NEW r, NEW i, NEW j, NEW h, Merged(s, u, f, r, i, j, h)
    PROVE  Merged(u, s, f, r, j, i, h)
  BY DEF Merged

\* A node is linked behind the last one.
LEMMA ChainAppend ==
    ASSUME NEW h \in Heaps, NEW f, NEW r, NEW e, Chain(h, f, r, e), r # << >>,
           NEW a \in Addr, a \notin Range(r), NEW h2,
           h2[r[Len(r)]].next = a,
           \A b \in Range(r) : b # r[Len(r)] => h2[b].next = h[b].next
    PROVE  Chain(h2, f, Append(r, a), h2[a].next)
<1>. DEFINE t == Append(r, a)
            m == Len(r)
<1>1. /\ r \in Seq(Addr) /\ m \in Nat /\ m >= 1 /\ f = r[1] /\ 1 \in 1 .. m /\ m \in 1 .. m
      /\ \A x, y \in 1 .. m : r[x] = r[y] => x = y
      /\ \A x \in 1 .. m : r[x] \in Range(r) /\ h[r[x]].next = IF x < m THEN r[x + 1] ELSE e
  BY DEF Chain, Range
<1>2. /\ t \in Seq(Addr) /\ Len(t) = m + 1 /\ t[m + 1] = a
      /\ \A x \in 1 .. m : t[x] = r[x]
  BY <1>1, AppendIs
<1>. HIDE DEF t, m
<1>3. ASSUME NEW x \in 1 .. m + 1, NEW y \in 1 .. m + 1, t[x] = t[y] PROVE x = y
  <2>1. \A z \in 1 .. m + 1 : z = m + 1 \/ (z \in 1 .. m /\ t[z] # a)
    BY <1>1, <1>2
  <2>. QED
    BY <1>1, <1>2, <1>3, <2>1
<1>4. ASSUME NEW x \in 1 .. m + 1 PROVE h2[t[x]].next = IF x < m + 1 THEN t[x + 1] ELSE h2[a].next
  <2>1. CASE x < m
    <3>1. x \in 1 .. m /\ x + 1 \in 1 .. m /\ r[x] # r[m]
      BY <1>1, <2>1
    <3>2. h2[r[x]].next = r[x + 1]
      BY <1>1, <2>1, <3>1 DEF m
    <3>. QED
      BY <1>1, <1>2, <2>1, <3>1, <3>2
  <2>2. CASE x = m
    BY <1>1, <1>2, <2>2 DEF m
  <2>3. CASE x = m + 1
    BY <1>1, <1>2, <2>3
  <2>. QED
    BY <1>1, <2>1, <2>2, <2>3
<1>5. t # << >> /\ f = t[1]
  BY <1>1, <1>2
<1>6. Chain(h2, f, t, h2[a].next)
  BY <1>2, <1>3, <1>4, <1>5 DEF Chain
<1>. QED
  BY <1>6 DEF t

\* A round of the loop: the next node of s is taken.
LEMMA MergeTake ==
    ASSUME NEW s \in Seq(Addr), NEW u \in Seq(Addr), NEW f, NEW r, NEW i, NEW j, NEW h,
           Merged(s, u, f, r, i, j, h), node \in Heaps,
           \A x, y \in 1 .. Len(s) : s[x] = s[y] => x = y,
           Range(s) \cap Range(u) = {},
           i <= Len(s), i < Len(s) => Value(s[i]) <= Value(s[i + 1]),
           j <= Len(u) => Value(s[i]) <= Value(u[j]),
           NEW h2, h2 = Link(Link(h, r[Len(r)], s[i]), s[i], nullptr)
    PROVE  /\ Merged(s, u, f, Append(r, s[i]), i + 1, j, h2)
           /\ h[s[i]].next = node[s[i]].next
           /\ r[Len(r)] # s[i]
<1>. DEFINE a == s[i]
            z == r[Len(r)]
            t == Append(r, a)
<1>1. /\ i \in 1 .. Len(s) /\ a \in Addr /\ i \in Nat
      /\ j \in 1 .. Len(u) + 1
      /\ h \in Heaps /\ r \in Seq(Addr) /\ r # << >> /\ Chain(h, f, r, h[z].next)
  BY DEF Merged, Chain
<1>2. z \in Range(r) /\ z \in Addr /\ Len(r) \in 1 .. Len(r) /\ Range(r) \subseteq Addr
  BY <1>1 DEF Range
<1>3. a \notin Range(r)
  <2>1. \A x \in 1 .. i - 1 : x \in 1 .. Len(s) /\ s[x] # a
    BY <1>1
  <2>2. \A y \in 1 .. j - 1 : y \in 1 .. Len(u) /\ u[y] \in Range(u)
    BY <1>1 DEF Range
  <2>3. a \in Range(s)
    BY <1>1 DEF Range
  <2>. QED
    BY <2>1, <2>2, <2>3 DEF Merged
<1>. HIDE DEF a, z
<1>4. /\ h2 \in Heaps /\ h2[z].next = a /\ h2[a].next = nullptr
      /\ \A b \in Addr : h2[b].data = h[b].data
      /\ \A b \in Addr : b # a /\ b # z => h2[b] = h[b]
  <2>. DEFINE h1 == Link(h, z, a)
  <2>1. a \in Pointer /\ nullptr \in Pointer
    BY <1>1 DEF Pointer
  <2>2. /\ h1 \in Heaps /\ h1[z].data = h[z].data /\ h1[z].next = a
        /\ \A b \in Addr : b # z => h1[b] = h[b]
    BY ONLY <1>1, <1>2, <2>1, LinkIs
  <2>3. h2 = Link(h1, a, nullptr)
    BY DEF a, z
  <2>. HIDE DEF h1
  <2>4. /\ h2 \in Heaps /\ h2[a].data = h1[a].data /\ h2[a].next = nullptr
        /\ \A b \in Addr : b # a => h2[b] = h1[b]
    <3>1. h1 \in Heaps /\ a \in Addr /\ nullptr \in Pointer
      BY <1>1, <2>1, <2>2
    <3>2. /\ Link(h1, a, nullptr) \in Heaps /\ Link(h1, a, nullptr)[a].data = h1[a].data
          /\ Link(h1, a, nullptr)[a].next = nullptr
          /\ \A b \in Addr : b # a => Link(h1, a, nullptr)[b] = h1[b]
      BY ONLY <3>1, LinkIs
    <3>. QED
      BY <2>3, <3>2
  <2>. QED
    BY <1>1, <1>2, <1>3, <2>2, <2>4
<1>5. /\ t \in Seq(Addr) /\ Len(t) = Len(r) + 1 /\ t # << >> /\ t[Len(t)] = a
      /\ \A x \in 1 .. Len(r) : t[x] = r[x]
      /\ Range(t) = Range(r) \cup {a}
  BY <1>1, <1>2, AppendIs
<1>6. Chain(h2, f, t, h2[t[Len(t)]].next)
  <2>1. \A b \in Range(r) : b # z => h2[b].next = h[b].next
    BY <1>2, <1>3, <1>4
  <2>2. Chain(h2, f, t, h2[a].next)
    BY <1>1, <1>3, <1>4, <2>1, ChainAppend DEF z
  <2>. QED
    BY <1>5, <2>2
<1>. HIDE DEF t
<1>7. Range(t) = {s[x] : x \in 1 .. (i + 1) - 1} \cup {u[y] : y \in 1 .. j - 1}
  <2>1. Range(r) = {s[x] : x \in 1 .. i - 1} \cup {u[y] : y \in 1 .. j - 1}
    BY DEF Merged
  <2>2. \A x \in 1 .. (i + 1) - 1 : x \in 1 .. i - 1 \/ x = i
    BY <1>1
  <2>3. \A x \in 1 .. i - 1 : x \in 1 .. (i + 1) - 1
    BY <1>1
  <2>4. i \in 1 .. (i + 1) - 1
    BY <1>1
  <2>. QED
    BY <1>5, <2>1, <2>2, <2>3, <2>4 DEF a
<1>8. \A b \in Addr : Value(b) \in Int
  BY DEF Value, Heaps
<1>9. ASSUME NEW x \in 1 .. Len(t), NEW y \in 1 .. Len(t), x <= y PROVE Value(t[x]) <= Value(t[y])
  <2>1. \A v \in 1 .. Len(r) : r[v] \in Addr /\ t[v] = r[v] /\ Value(r[v]) <= Value(z)
    BY <1>1, <1>2, <1>5 DEF Merged, z
  <2>2. Value(z) <= Value(a)
    BY <1>1 DEF Merged, z, a
  <2>3. CASE y \in 1 .. Len(r)
    <3>1. x \in 1 .. Len(r)
      BY <1>1, <1>9, <2>3
    <3>. QED
      BY <1>9, <2>1, <2>3, <3>1 DEF Merged
  <2>4. CASE y = Len(t) /\ x = Len(t)
    BY <1>1, <1>5, <1>8, <2>4
  <2>5. CASE y = Len(t) /\ x \in 1 .. Len(r)
    <3>1. Value(t[x]) <= Value(z) /\ Value(z) <= Value(a) /\ t[y] = a /\ t[x] \in Addr
      BY <1>5, <2>1, <2>2, <2>5
    <3>2. Value(t[x]) \in Int /\ Value(z) \in Int /\ Value(a) \in Int
      BY <1>1, <1>2, <1>8, <3>1
    <3>. QED
      BY <3>1, <3>2
  <2>. QED
    BY <1>1, <1>5, <2>3, <2>4, <2>5
<1>10. /\ \A b \in Addr : h2[b].data = Value(b)
       /\ \A b \in Addr \ Range(t) : h2[b] = node[b]
  BY <1>2, <1>4, <1>5 DEF Merged
<1>11. /\ i + 1 \in 1 .. Len(s) + 1
       /\ i + 1 <= Len(s) => Value(a) <= Value(s[i + 1])
       /\ j <= Len(u) => Value(a) <= Value(u[j])
  BY <1>1 DEF a
<1>12. Merged(s, u, f, t, i + 1, j, h2)
  BY <1>1, <1>4, <1>5, <1>6, <1>7, <1>9, <1>10, <1>11 DEF Merged
<1>13. h[a] = node[a] /\ z # a
  BY <1>1, <1>2, <1>3 DEF Merged
<1>. QED
  BY <1>12, <1>13 DEF t, a, z

\* The node at a position, null behind the last.
At(s, i) == IF i <= Len(s) THEN s[i] ELSE nullptr

\* Only the last assignment to a next pointer counts.
LEMMA LinkTwice ==
    ASSUME NEW h \in Heaps, NEW a \in Addr, NEW q \in Pointer, NEW r \in Pointer
    PROVE  Link(Link(h, a, q), a, r) = Link(h, a, r)
  BY DEF Heaps, Link

\* "clear remaining": curr points at the last of the nodes that were left.
LEMMA RestIs ==
    ASSUME NEW h \in Heaps, NEW curr \in Addr, NEW s \in Seq(Addr), Len(s) \in 0 .. N,
           NEW i \in 1 .. Len(s) + 1,
           \A x \in i .. Len(s) : s[x] # curr /\ h[s[x]].next = At(s, x + 1)
    PROVE  Rest(h, curr, At(s, i)) = IF i > Len(s) THEN h ELSE Link(h, curr, s[Len(s)])
<1>. DEFINE T == [heap : Heaps, p : Pointer]
            Turn(c) == IF c.p = nullptr THEN c
                       ELSE [heap |-> Link(c.heap, curr, c.p), p |-> c.heap[c.p].next]
            body == [c \in T |-> Turn(c)]
            x == [heap |-> h, p |-> At(s, i)]
            m(k) == IF i + k <= Len(s) THEN i + k ELSE Len(s) + 1
            Left(c, n) == /\ c.p = At(s, n)
                          /\ c.heap = IF n = i THEN h ELSE Link(h, curr, s[n - 1])
            J == [k \in 0 .. N |-> {c \in T : Left(c, m(k))}]
<1>1. Rest(h, curr, At(s, i)) = Rounds(body, x)[N].heap
  BY DEF Rest, Final, N
<1>2. /\ N \in Nat /\ Len(s) \in Nat /\ i \in Nat /\ nullptr \notin Addr
      /\ \A n \in 1 .. Len(s) : s[n] \in Addr /\ At(s, n) = s[n]
      /\ \A n \in 1 .. Len(s) + 1 : At(s, n) \in Pointer
      /\ At(s, Len(s) + 1) = nullptr
  BY NodeCount, ListAssumption DEF At, Pointer
<1>3. x \in T /\ x \in J[0]
  BY <1>2
<1>4. ASSUME NEW c \in T
      PROVE  /\ Turn(c) \in T /\ c.heap \in Heaps /\ c.p \in Pointer
             /\ c.p # nullptr => /\ Turn(c).heap = Link(c.heap, curr, c.p)
                                 /\ Turn(c).p = c.heap[c.p].next
  <2>1. c.heap \in Heaps /\ c.p \in Pointer
    OBVIOUS
  <2>2. CASE c.p # nullptr
    <3>1. c.p \in Addr /\ Link(c.heap, curr, c.p) \in Heaps /\ c.heap[c.p].next \in Pointer
      BY <2>1, <2>2 DEF Pointer, Heaps, Link
    <3>. QED
      BY <2>1, <2>2, <3>1
  <2>. QED
    BY <2>1, <2>2
<1>5. body \in [T -> T]
  BY <1>4
<1>6. ASSUME NEW k \in 0 .. N - 1, NEW c \in T, c \in J[k] PROVE body[c] \in J[k + 1]
  <2>1. /\ m(k) \in i .. Len(s) + 1 /\ k + 1 \in 0 .. N
        /\ Left(c, m(k)) /\ body[c] = Turn(c) /\ Turn(c) \in T
    BY <1>2, <1>4, <1>6
  <2>2. CASE m(k) = Len(s) + 1
    <3>1. Turn(c) = c /\ m(k + 1) = m(k)
      BY <1>2, <2>1, <2>2
    <3>. HIDE DEF Left, m, Turn
    <3>. QED
      BY <2>1, <3>1
  <2>3. CASE m(k) # Len(s) + 1
    <3>. DEFINE n == m(k)
                a == s[n]
    <3>1. n \in i .. Len(s) /\ m(k + 1) = n + 1 /\ n \in Nat /\ n \in 1 .. Len(s)
          /\ n + 1 \in 1 .. Len(s) + 1
      BY <1>2, <2>1, <2>3
    <3>. HIDE DEF m, n
    <3>2. /\ a \in Addr /\ a \in Pointer /\ a # curr /\ h[a].next = At(s, n + 1) /\ c.p = a
          /\ c.heap = IF n = i THEN h ELSE Link(h, curr, s[n - 1])
      BY <1>2, <2>1, <3>1 DEF n, Pointer
    <3>3. c.heap[a].next = At(s, n + 1) /\ Link(c.heap, curr, a) = Link(h, curr, a)
      <4>1. CASE n = i
        BY <3>2, <4>1
      <4>2. CASE n # i
        <5>1. n - 1 \in 1 .. Len(s) /\ s[n - 1] \in Pointer
          BY <1>2, <3>1, <4>2 DEF Pointer
        <5>2. c.heap = Link(h, curr, s[n - 1])
          BY <3>2, <4>2
        <5>3. Link(h, curr, s[n - 1])[a] = h[a]
          BY ONLY <3>2, <5>1, LinkIs, h \in Heaps, curr \in Addr
        <5>4. Link(Link(h, curr, s[n - 1]), curr, a) = Link(h, curr, a)
          BY ONLY <3>2, <5>1, LinkTwice, h \in Heaps, curr \in Addr
        <5>. QED
          BY <3>2, <5>2, <5>3, <5>4
      <4>. QED
        BY <4>1, <4>2
    <3>4. Turn(c).heap = Link(h, curr, a) /\ Turn(c).p = At(s, n + 1)
      BY <1>2, <1>4, <3>2, <3>3
    <3>. HIDE DEF a, Turn
    <3>5. Left(Turn(c), n + 1)
      BY <3>1, <3>4 DEF a
    <3>. QED
      BY <2>1, <3>1, <3>5
  <2>. QED
    BY <2>2, <2>3
<1>7. Rounds(body, x)[N] \in J[N]
  <2>. HIDE DEF body, x, J, T
  <2>1. \A k \in 0 .. N : Rounds(body, x)[k] \in J[k]
    BY <1>3, <1>5, <1>6, RoundsKeep
  <2>. QED
    BY <2>1, NodeCount
<1>8. m(N) = Len(s) + 1 /\ N \in 0 .. N
  BY <1>2
<1>9. Rounds(body, x)[N].heap = IF Len(s) + 1 = i THEN h ELSE Link(h, curr, s[Len(s)])
  <2>. HIDE DEF body, x, T
  <2>1. Left(Rounds(body, x)[N], Len(s) + 1)
    BY <1>7, <1>8
  <2>. QED
    BY <1>2, <2>1
<1>. QED
  BY <1>1, <1>2, <1>9

MergeStates == [heap : Heaps, curr : Addr, p : Pointer, q : Pointer]

MergeRound(c) ==
  IF c.p = nullptr \/ c.q = nullptr THEN c
  ELSE IF c.heap[c.p].data < c.heap[c.q].data
  THEN [c EXCEPT !.heap = Take(c, c.p), !.curr = c.p, !.p = c.heap[c.p].next]
  ELSE [c EXCEPT !.heap = Take(c, c.q), !.curr = c.q, !.q = c.heap[c.q].next]

\* How the nodes taken so far, i - 1 of s and j - 1 of u, and the nodes left of
\* one list stand to the last node of the other.
Ordered(s, u, i, j) ==
  /\ \A x \in 1 .. i - 1 : Value(s[x]) < Value(u[Len(u)])
  /\ \A y \in 1 .. j - 1 : Value(u[y]) <= Value(s[Len(s)])
  /\ j > Len(u) => \A x \in i .. Len(s) : Value(u[Len(u)]) <= Value(s[x])
  /\ i > Len(s) => \A y \in j .. Len(u) : Value(s[Len(s)]) < Value(u[y])

Merging(s, u, f, r, i, j, c) ==
  /\ Merged(s, u, f, r, i, j, c.heap)
  /\ c.curr = r[Len(r)] /\ c.p = At(s, i) /\ c.q = At(u, j)
  /\ i <= Len(s) \/ j <= Len(u)
  /\ Ordered(s, u, i, j)

\* The nodes of a list in order, each before its successor.
SortedChain(s) ==
  /\ s \in Seq(Addr) /\ \A x, y \in 1 .. Len(s) : s[x] = s[y] => x = y
  /\ \A x \in 1 .. Len(s) : node[s[x]].next = At(s, x + 1)
  /\ \A x \in 1 .. Len(s) - 1 : Value(s[x]) <= Value(s[x + 1])

\* In a sorted chain every node is at most as great as those behind it.
LEMMA SortedChainOrder ==
    ASSUME node \in Heaps, NEW s, SortedChain(s)
    PROVE  \A x, y \in 1 .. Len(s) : x <= y => Value(s[x]) <= Value(s[y])
<1>. DEFINE d == Data(node, s)
<1>1. /\ d \in Seq(Int) /\ Len(d) = Len(s)
      /\ \A x \in 1 .. Len(s) : d[x] = Value(s[x])
  BY DataIs DEF SortedChain, Value
<1>. HIDE DEF d
<1>2. \A x \in 1 .. Len(d) - 1 : d[x] <= d[x + 1]
  <2>. SUFFICES ASSUME NEW x \in 1 .. Len(s) - 1 PROVE d[x] <= d[x + 1]
    BY <1>1
  <2>1. x \in 1 .. Len(s) /\ x + 1 \in 1 .. Len(s)
    BY <1>1
  <2>. QED
    BY <1>1, <2>1 DEF SortedChain
<1>3. \A x, y \in 1 .. Len(d) : x <= y => d[x] <= d[y]
  BY ONLY <1>1, <1>2, SortedIs
<1>. QED
  BY <1>1, <1>3

\* Nothing is taken at first ...
LEMMA OrderedFirst ==
    ASSUME NEW s \in Seq(Addr), NEW u \in Seq(Addr), s # << >>, u # << >>
    PROVE  Ordered(s, u, 1, 1)
<1>1. Len(s) \in Nat /\ Len(u) \in Nat /\ Len(s) > 0 /\ Len(u) > 0
  OBVIOUS
<1>. QED
  BY <1>1 DEF Ordered

\* ... and the order stays while the smaller node is taken, that of u if they
\* are equal.
LEMMA OrderedTake ==
    ASSUME node \in Heaps, NEW s, NEW u, SortedChain(s), SortedChain(u),
           NEW i \in 1 .. Len(s), NEW j \in 1 .. Len(u), Ordered(s, u, i, j)
    PROVE  /\ Value(s[i]) < Value(u[j]) => Ordered(s, u, i + 1, j)
           /\ ~ (Value(s[i]) < Value(u[j])) => Ordered(s, u, i, j + 1)
<1>1. /\ Len(s) \in Nat /\ Len(u) \in Nat
      /\ Len(s) \in 1 .. Len(s) /\ Len(u) \in 1 .. Len(u)
      /\ \A x \in 1 .. Len(s) : Value(s[x]) \in Int
      /\ \A x \in 1 .. Len(u) : Value(u[x]) \in Int
  <2>1. s \in Seq(Addr) /\ u \in Seq(Addr)
    BY DEF SortedChain
  <2>2. \A a \in Addr : Value(a) \in Int
    BY DEF Value, Heaps
  <2>. QED
    BY <2>1, <2>2
<1>2. /\ \A x, y \in 1 .. Len(s) : x <= y => Value(s[x]) <= Value(s[y])
      /\ \A x, y \in 1 .. Len(u) : x <= y => Value(u[x]) <= Value(u[y])
  BY SortedChainOrder
<1>3. /\ \A x \in 1 .. i - 1 : Value(s[x]) < Value(u[Len(u)])
      /\ \A y \in 1 .. j - 1 : Value(u[y]) <= Value(s[Len(s)])
  BY DEF Ordered
<1>4. CASE Value(s[i]) < Value(u[j])
  <2>1. Value(s[i]) < Value(u[Len(u)])
    <3>1. Value(u[j]) <= Value(u[Len(u)])
      BY <1>1, <1>2
    <3>2. Value(s[i]) \in Int /\ Value(u[j]) \in Int /\ Value(u[Len(u)]) \in Int
      BY <1>1
    <3>. QED
      BY <1>4, <3>1, <3>2
  <2>2. \A x \in 1 .. (i + 1) - 1 : Value(s[x]) < Value(u[Len(u)])
    <3>1. \A x \in 1 .. (i + 1) - 1 : x \in 1 .. i - 1 \/ x = i
      OBVIOUS
    <3>. QED
      BY <1>3, <2>1, <3>1
  <2>3. i + 1 > Len(s) => \A y \in j .. Len(u) : Value(s[Len(s)]) < Value(u[y])
    <3>. SUFFICES ASSUME i + 1 > Len(s), NEW y \in j .. Len(u)
                  PROVE  Value(s[Len(s)]) < Value(u[y])
      OBVIOUS
    <3>1. i = Len(s) /\ y \in 1 .. Len(u) /\ j <= y
      BY <1>1
    <3>2. Value(u[j]) <= Value(u[y])
      BY <1>2, <3>1
    <3>3. Value(s[i]) \in Int /\ Value(u[j]) \in Int /\ Value(u[y]) \in Int
      BY <1>1, <3>1
    <3>4. Value(s[i]) < Value(u[y])
      BY <1>4, <3>2, <3>3
    <3>. QED
      BY <3>1, <3>4
  <2>4. ~ (j > Len(u))
    BY <1>1
  <2>. QED
    BY <1>3, <1>4, <2>2, <2>3, <2>4 DEF Ordered
<1>5. CASE ~ (Value(s[i]) < Value(u[j]))
  <2>0. Value(u[j]) <= Value(s[i])
    BY <1>1, <1>5
  <2>1. Value(u[j]) <= Value(s[Len(s)])
    <3>1. Value(s[i]) <= Value(s[Len(s)])
      BY <1>1, <1>2
    <3>2. Value(s[i]) \in Int /\ Value(u[j]) \in Int /\ Value(s[Len(s)]) \in Int
      BY <1>1
    <3>. QED
      BY <2>0, <3>1, <3>2
  <2>2. \A y \in 1 .. (j + 1) - 1 : Value(u[y]) <= Value(s[Len(s)])
    <3>1. \A y \in 1 .. (j + 1) - 1 : y \in 1 .. j - 1 \/ y = j
      OBVIOUS
    <3>. QED
      BY <1>3, <2>1, <3>1
  <2>3. j + 1 > Len(u) => \A x \in i .. Len(s) : Value(u[Len(u)]) <= Value(s[x])
    <3>. SUFFICES ASSUME j + 1 > Len(u), NEW x \in i .. Len(s)
                  PROVE  Value(u[Len(u)]) <= Value(s[x])
      OBVIOUS
    <3>1. j = Len(u) /\ x \in 1 .. Len(s) /\ i <= x
      BY <1>1
    <3>2. Value(s[i]) <= Value(s[x])
      BY <1>2, <3>1
    <3>3. Value(s[i]) \in Int /\ Value(u[j]) \in Int /\ Value(s[x]) \in Int
      BY <1>1, <3>1
    <3>4. Value(u[j]) <= Value(s[x])
      BY <2>0, <3>2, <3>3
    <3>. QED
      BY <3>1, <3>4
  <2>4. ~ (i > Len(s))
    BY <1>1
  <2>. QED
    BY <1>3, <1>5, <2>2, <2>3, <2>4 DEF Ordered
<1>. QED
  BY <1>4, <1>5

\* Taking a node leaves a heap ...
LEMMA TakeIs ==
    ASSUME NEW c \in MergeStates, NEW a \in Addr
    PROVE  Take(c, a) \in Heaps
<1>1. c.heap \in Heaps /\ c.curr \in Addr /\ a \in Pointer /\ nullptr \in Pointer
  BY DEF MergeStates, Pointer
<1>2. Link(c.heap, c.curr, a) \in Heaps
  BY ONLY <1>1, a \in Addr, LinkIs
<1>3. Link(Link(c.heap, c.curr, a), a, nullptr) \in Heaps
  BY ONLY <1>1, <1>2, a \in Addr, LinkIs
<1>. QED
  BY <1>3 DEF Take

\* ... and a round takes the smaller of the two first nodes, q's if they are
\* equal ...
LEMMA MergeRoundType ==
    ASSUME NEW c \in MergeStates
    PROVE  /\ MergeRound(c) \in MergeStates
           /\ c.p # nullptr /\ c.q # nullptr /\ c.heap[c.p].data < c.heap[c.q].data =>
                /\ MergeRound(c).heap = Take(c, c.p) /\ MergeRound(c).curr = c.p
                /\ MergeRound(c).p = c.heap[c.p].next /\ MergeRound(c).q = c.q
           /\ c.p # nullptr /\ c.q # nullptr /\ ~ (c.heap[c.p].data < c.heap[c.q].data) =>
                /\ MergeRound(c).heap = Take(c, c.q) /\ MergeRound(c).curr = c.q
                /\ MergeRound(c).q = c.heap[c.q].next /\ MergeRound(c).p = c.p
<1>1. c.heap \in Heaps /\ c.p \in Pointer /\ c.q \in Pointer /\ c.curr \in Addr
  BY DEF MergeStates
<1>2. CASE c.p = nullptr \/ c.q = nullptr
  BY <1>2 DEF MergeRound
<1>3. CASE c.p # nullptr /\ c.q # nullptr /\ c.heap[c.p].data < c.heap[c.q].data
  <2>1. /\ c.p \in Addr /\ c.heap[c.p].next \in Pointer
        /\ MergeRound(c) = [c EXCEPT !.heap = Take(c, c.p), !.curr = c.p,
                                     !.p = c.heap[c.p].next]
    BY <1>1, <1>3 DEF MergeRound, Pointer, Heaps
  <2>2. Take(c, c.p) \in Heaps
    BY <2>1, TakeIs
  <2>. QED
    BY <1>3, <2>1, <2>2 DEF MergeStates
<1>4. CASE c.p # nullptr /\ c.q # nullptr /\ ~ (c.heap[c.p].data < c.heap[c.q].data)
  <2>1. /\ c.q \in Addr /\ c.heap[c.q].next \in Pointer
        /\ MergeRound(c) = [c EXCEPT !.heap = Take(c, c.q), !.curr = c.q,
                                     !.q = c.heap[c.q].next]
    BY <1>1, <1>4 DEF MergeRound, Pointer, Heaps
  <2>2. Take(c, c.q) \in Heaps
    BY <2>1, TakeIs
  <2>. QED
    BY <1>4, <2>1, <2>2 DEF MergeStates
<1>. QED
  BY <1>2, <1>3, <1>4

\* ... which makes the chain one longer and keeps it in order.
LEMMA MergeRoundIs ==
    ASSUME node \in Heaps, NEW s, NEW u, SortedChain(s), SortedChain(u),
           Range(s) \cap Range(u) = {},
           NEW f, NEW r, NEW i, NEW j, NEW c \in MergeStates, Merging(s, u, f, r, i, j, c),
           c.p # nullptr, c.q # nullptr
    PROVE  \E r2, i2, j2 : /\ Merging(s, u, f, r2, i2, j2, MergeRound(c))
                           /\ Len(r2) = Len(r) + 1
<1>1. /\ s \in Seq(Addr) /\ u \in Seq(Addr) /\ r \in Seq(Addr)
      /\ i \in 1 .. Len(s) + 1 /\ j \in 1 .. Len(u) + 1
      /\ c.heap \in Heaps /\ nullptr \notin Addr
  BY ListAssumption DEF SortedChain, Merging, Merged, Chain
<1>2. /\ i \in 1 .. Len(s) /\ j \in 1 .. Len(u) /\ c.p = s[i] /\ c.q = u[j]
      /\ c.p \in Addr /\ c.q \in Addr /\ c.curr = r[Len(r)]
  BY <1>1 DEF Merging, At
<1>3. /\ Merged(s, u, f, r, i, j, c.heap) /\ Merged(u, s, f, r, j, i, c.heap)
      /\ \A a \in Addr : c.heap[a].data = Value(a) /\ Value(a) \in Int
      /\ Value(s[i]) < Value(u[j]) => Ordered(s, u, i + 1, j)
      /\ ~ (Value(s[i]) < Value(u[j])) => Ordered(s, u, i, j + 1)
  <2>0. Ordered(s, u, i, j)
    BY DEF Merging
  <2>3. /\ Value(s[i]) < Value(u[j]) => Ordered(s, u, i + 1, j)
        /\ ~ (Value(s[i]) < Value(u[j])) => Ordered(s, u, i, j + 1)
    BY <1>2, <2>0, OrderedTake
  <2>1. Merged(s, u, f, r, i, j, c.heap)
    BY DEF Merging
  <2>2. \A a \in Addr : c.heap[a].data = Value(a) /\ Value(a) \in Int
    BY <2>1 DEF Merged, Value, Heaps
  <2>. QED
    BY <2>1, <2>2, <2>3, MergedSwaps
<1>. DEFINE d == MergeRound(c)
<1>4. CASE Value(s[i]) < Value(u[j])
  <2>1. /\ d.heap = Link(Link(c.heap, r[Len(r)], s[i]), s[i], nullptr) /\ d.curr = s[i]
        /\ d.p = c.heap[s[i]].next /\ d.q = u[j]
    <3>1. /\ c.p # nullptr /\ c.q # nullptr /\ c.heap[c.p].data < c.heap[c.q].data
          /\ Take(c, c.p) = Link(Link(c.heap, r[Len(r)], s[i]), s[i], nullptr)
      BY <1>2, <1>3, <1>4, <1>1 DEF Take
    <3>2. /\ d.heap = Take(c, c.p) /\ d.curr = c.p /\ d.p = c.heap[c.p].next /\ d.q = c.q
      BY <3>1, MergeRoundType
    <3>. HIDE DEF d
    <3>. QED
      BY <1>2, <3>1, <3>2
  <2>. HIDE DEF d
  <2>2. /\ \A x, y \in 1 .. Len(s) : s[x] = s[y] => x = y
        /\ i <= Len(s) /\ (i < Len(s) => Value(s[i]) <= Value(s[i + 1]))
        /\ j <= Len(u) => Value(s[i]) <= Value(u[j])
    <3>1. Value(s[i]) <= Value(u[j])
      BY <1>2, <1>3, <1>4
    <3>2. i < Len(s) => Value(s[i]) <= Value(s[i + 1])
      BY <1>1, <1>2 DEF SortedChain
    <3>3. \A x, y \in 1 .. Len(s) : s[x] = s[y] => x = y
      BY DEF SortedChain
    <3>. QED
      BY <1>2, <3>1, <3>2, <3>3
  <2>3. /\ Merged(s, u, f, Append(r, s[i]), i + 1, j, d.heap)
        /\ c.heap[s[i]].next = node[s[i]].next
    <3>1. /\ u \in Seq(Addr) /\ s \in Seq(Addr) /\ Merged(s, u, f, r, i, j, c.heap)
          /\ d.heap = Link(Link(c.heap, r[Len(r)], s[i]), s[i], nullptr) /\ node \in Heaps
          /\ Range(s) \cap Range(u) = {}
      BY <1>1, <1>3, <2>1
    <3>. QED
      BY ONLY <3>1, <2>2, MergeTake
  <2>4. /\ Len(Append(r, s[i])) = Len(r) + 1 /\ Append(r, s[i])[Len(r) + 1] = s[i]
    BY <1>1, <1>2
  <2>5. d.p = At(s, i + 1)
    BY <1>2, <2>1, <2>3 DEF SortedChain
  <2>6. Merging(s, u, f, Append(r, s[i]), i + 1, j, d)
    BY <1>2, <1>3, <1>4, <2>1, <2>3, <2>4, <2>5 DEF Merging, At
  <2>. QED
    BY <2>4, <2>6 DEF d
<1>5. CASE ~ (Value(s[i]) < Value(u[j]))
  <2>1. /\ d.heap = Link(Link(c.heap, r[Len(r)], u[j]), u[j], nullptr) /\ d.curr = u[j]
        /\ d.q = c.heap[u[j]].next /\ d.p = s[i]
    <3>1. /\ c.p # nullptr /\ c.q # nullptr /\ ~ (c.heap[c.p].data < c.heap[c.q].data)
          /\ Take(c, c.q) = Link(Link(c.heap, r[Len(r)], u[j]), u[j], nullptr)
      BY <1>2, <1>3, <1>5, <1>1 DEF Take
    <3>2. /\ d.heap = Take(c, c.q) /\ d.curr = c.q /\ d.q = c.heap[c.q].next /\ d.p = c.p
      BY <3>1, MergeRoundType
    <3>. HIDE DEF d
    <3>. QED
      BY <1>2, <3>1, <3>2
  <2>. HIDE DEF d
  <2>2. /\ \A x, y \in 1 .. Len(u) : u[x] = u[y] => x = y
        /\ j <= Len(u) /\ (j < Len(u) => Value(u[j]) <= Value(u[j + 1]))
        /\ (i <= Len(s) => Value(u[j]) <= Value(s[i])) /\ Range(u) \cap Range(s) = {}
    <3>1. Value(u[j]) <= Value(s[i])
      BY <1>2, <1>3, <1>5
    <3>2. j < Len(u) => Value(u[j]) <= Value(u[j + 1])
      BY <1>1, <1>2 DEF SortedChain
    <3>3. \A x, y \in 1 .. Len(u) : u[x] = u[y] => x = y
      BY DEF SortedChain
    <3>. QED
      BY <1>2, <3>1, <3>2, <3>3
  <2>3. /\ Merged(u, s, f, Append(r, u[j]), j + 1, i, d.heap)
        /\ c.heap[u[j]].next = node[u[j]].next
    <3>1. /\ u \in Seq(Addr) /\ s \in Seq(Addr) /\ Merged(u, s, f, r, j, i, c.heap)
          /\ d.heap = Link(Link(c.heap, r[Len(r)], u[j]), u[j], nullptr) /\ node \in Heaps
      BY <1>1, <1>3, <2>1
    <3>. QED
      BY ONLY <3>1, <2>2, MergeTake
  <2>4. /\ Len(Append(r, u[j])) = Len(r) + 1 /\ Append(r, u[j])[Len(r) + 1] = u[j]
    BY <1>1, <1>2
  <2>5. d.q = At(u, j + 1)
    BY <1>2, <2>1, <2>3 DEF SortedChain
  <2>6. Merging(s, u, f, Append(r, u[j]), i, j + 1, d)
    <3>1. Merged(s, u, f, Append(r, u[j]), i, j + 1, d.heap)
      BY <2>3, MergedSwaps
    <3>. QED
      BY <1>2, <1>3, <1>5, <2>1, <2>4, <2>5, <3>1 DEF Merging, At
  <2>. QED
    BY <2>4, <2>6 DEF d
<1>. QED
  BY <1>4, <1>5

\* The loop ends with one of the lists taken whole.
LEMMA MergeLoopIs ==
    ASSUME node \in Heaps, NEW s, NEW u, SortedChain(s), SortedChain(u),
           Range(s) \cap Range(u) = {},
           NEW f, NEW i, NEW j, NEW curr \in Addr, NEW p \in Pointer, NEW q \in Pointer,
           Merging(s, u, f, << f >>, i, j, [heap |-> node, curr |-> curr, p |-> p, q |-> q])
    PROVE  LET c == MergeLoop(curr, p, q)
           IN  /\ c \in MergeStates /\ (c.p = nullptr \/ c.q = nullptr)
               /\ \E r2, i2, j2 : Merging(s, u, f, r2, i2, j2, c)
<1>. DEFINE x == [heap |-> node, curr |-> curr, p |-> p, q |-> q]
            body == [c \in MergeStates |-> MergeRound(c)]
            Done(c) == c.p = nullptr \/ c.q = nullptr
            Far(c, k) == \E r2, i2, j2 : /\ Merging(s, u, f, r2, i2, j2, c)
                                         /\ Len(r2) >= k + 1 \/ Done(c)
            J == [k \in 0 .. N |-> {c \in MergeStates : Far(c, k)}]
<1>1. MergeLoop(curr, p, q) = Rounds(body, x)[N]
  BY DEF MergeLoop, Final, MergeStates, MergeRound, N
<1>2. body \in [MergeStates -> MergeStates]
  BY MergeRoundType
<1>3. x \in MergeStates
  BY DEF MergeStates
<1>4. x \in J[0]
  <2>1. Len(<< f >>) >= 0 + 1
    OBVIOUS
  <2>. HIDE DEF Merging, Merged, Chain
  <2>2. Far(x, 0)
    BY <2>1
  <2>. QED
    BY <1>3, <2>2, NodeCount
<1>. HIDE DEF x
<1>5. ASSUME NEW k \in 0 .. N - 1, NEW c \in MergeStates, c \in J[k] PROVE body[c] \in J[k + 1]
  <2>1. Far(c, k) /\ k \in Nat /\ k + 1 \in 0 .. N /\ body[c] = MergeRound(c)
        /\ MergeRound(c) \in MergeStates
    BY <1>5, NodeCount, MergeRoundType
  <2>2. PICK r2, i2, j2 : /\ Merging(s, u, f, r2, i2, j2, c)
                          /\ Len(r2) >= k + 1 \/ Done(c)
    BY <2>1
  <2>3. CASE Done(c)
    <3>1. MergeRound(c) = c
      BY <2>3 DEF MergeRound
    <3>2. Far(c, k + 1)
      BY <2>2, <2>3
    <3>. QED
      BY <2>1, <3>1, <3>2
  <2>4. CASE ~ Done(c)
    <3>1. c.p # nullptr /\ c.q # nullptr
      BY <2>4
    <3>2. PICK r3, i3, j3 : /\ Merging(s, u, f, r3, i3, j3, MergeRound(c))
                            /\ Len(r3) = Len(r2) + 1
      BY <2>2, <3>1, MergeRoundIs
    <3>3. Len(r2) \in Nat
      BY <2>2 DEF Merging, Merged, Chain
    <3>4. Len(r3) >= (k + 1) + 1
      BY <2>1, <2>2, <2>4, <3>2, <3>3
    <3>5. Far(MergeRound(c), k + 1)
      <4>. HIDE DEF Done
      <4>. QED
        BY <3>2, <3>4
    <3>. QED
      BY <2>1, <3>5
  <2>. QED
    BY <2>3, <2>4
<1>. DEFINE d == Rounds(body, x)[N]
<1>6. d \in MergeStates /\ Far(d, N)
  <2>. HIDE DEF body, J
  <2>1. \A k \in 0 .. N : Rounds(body, x)[k] \in J[k]
    BY <1>2, <1>3, <1>4, <1>5, RoundsKeep
  <2>2. N \in 0 .. N /\ d \in J[N]
    BY <2>1, NodeCount
  <2>. QED
    BY <2>2 DEF J
<1>. HIDE DEF d
<1>7. PICK r2, i2, j2 : /\ Merging(s, u, f, r2, i2, j2, d)
                        /\ Len(r2) >= N + 1 \/ Done(d)
  BY <1>6
<1>8. Len(r2) \in 0 .. N
  <2>1. r2 \in Seq(Addr) /\ \A y, z \in 1 .. Len(r2) : r2[y] = r2[z] => y = z
    BY <1>7 DEF Merging, Merged, Chain
  <2>. QED
    BY <2>1, PathBound
<1>9. Done(d)
  BY <1>7, <1>8, NodeCount
<1>. QED
  BY <1>1, <1>6, <1>7, <1>9 DEF d

\* The nodes merge keeps of s and u: those that come before the last node of
\* the other list, and the last ones.
KeptOf(s, u) ==
  {s[x] : x \in {x \in 1 .. Len(s) : x = Len(s) \/ Value(s[x]) < Value(u[Len(u)])}}
  \cup {u[y] : y \in {y \in 1 .. Len(u) : y = Len(u) \/ Value(u[y]) <= Value(s[Len(s)])}}

\* What merge makes of the nodes of s and u: t, which need not have them all.
MergeMakes(s, u, f, t, h) ==
  /\ h \in Heaps /\ t # << >> /\ Chain(h, f, t, nullptr)
  /\ \A a \in Addr : h[a].data = Value(a)
  /\ \A a \in Addr \ (Range(s) \cup Range(u)) : h[a] = node[a]
  /\ Range(t) \subseteq Range(s) \cup Range(u)
  /\ \A x, y \in 1 .. Len(t) : x <= y => Value(t[x]) <= Value(t[y])

\* The nodes of s that are left: only the last of them is kept.
LEMMA MergeRest ==
    ASSUME node \in Heaps, NEW s, NEW u, SortedChain(s), SortedChain(u),
           Range(s) \cap Range(u) = {},
           NEW f, NEW r, NEW i, NEW j, NEW h, Merged(s, u, f, r, i, j, h),
           i <= Len(s), j = Len(u) + 1
    PROVE  /\ Rest(h, r[Len(r)], s[i]) = Link(h, r[Len(r)], s[Len(s)])
           /\ \E t : /\ MergeMakes(s, u, f, t, Link(h, r[Len(r)], s[Len(s)]))
                     /\ Range(t) = {s[x] : x \in 1 .. i - 1} \cup {s[Len(s)]} \cup Range(u)
<1>. DEFINE z == r[Len(r)]
            a == s[Len(s)]
            t == Append(r, a)
            h2 == Link(h, z, a)
<1>1. /\ s \in Seq(Addr) /\ u \in Seq(Addr) /\ r \in Seq(Addr) /\ r # << >> /\ h \in Heaps
      /\ Len(s) \in 0 .. N /\ Len(s) \in Nat /\ i \in Nat
      /\ i \in 1 .. Len(s) /\ Len(s) \in 1 .. Len(s) /\ a \in Addr
      /\ Chain(h, f, r, h[z].next) /\ f = r[1] /\ nullptr \notin Addr
  BY ListAssumption, PathBound DEF SortedChain, Merged, Chain
<1>2. /\ z \in Range(r) /\ z \in Addr /\ Range(r) \subseteq Addr /\ Len(r) \in 1 .. Len(r)
      /\ 1 \in 1 .. Len(r) /\ Len(r) \in Nat
  BY <1>1 DEF Range
<1>3. ASSUME NEW x \in i .. Len(s)
      PROVE  s[x] \notin Range(r) /\ s[x] \in Addr /\ h[s[x]].next = At(s, x + 1)
  <2>1. x \in 1 .. Len(s) /\ s[x] \in Range(s) /\ s[x] \in Addr
    BY <1>1 DEF Range
  <2>2. \A v \in 1 .. i - 1 : v \in 1 .. Len(s) /\ v # x /\ s[v] # s[x]
    BY <1>1, <2>1 DEF SortedChain
  <2>3. \A y \in 1 .. j - 1 : u[y] \in Range(u)
    BY <1>1 DEF Range
  <2>4. s[x] \notin Range(r)
    BY <2>1, <2>2, <2>3 DEF Merged
  <2>5. h[s[x]] = node[s[x]]
    BY <2>1, <2>4 DEF Merged
  <2>. QED
    BY <2>1, <2>4, <2>5 DEF SortedChain
<1>4. Rest(h, z, s[i]) = h2
  <2>1. At(s, i) = s[i] /\ i \in 1 .. Len(s) + 1 /\ ~ (i > Len(s))
    BY <1>1 DEF At
  <2>2. \A x \in i .. Len(s) : s[x] # z /\ h[s[x]].next = At(s, x + 1)
    BY <1>2, <1>3
  <2>. HIDE DEF z
  <2>. QED
    BY <1>1, <1>2, <2>1, <2>2, RestIs
<1>. HIDE DEF z, a
<1>5. a \notin Range(r) /\ h[a].next = nullptr
  <2>1. Len(s) \in i .. Len(s) /\ At(s, Len(s) + 1) = nullptr
    BY <1>1 DEF At
  <2>. QED
    BY <1>3, <2>1 DEF a
<1>6. /\ h2 \in Heaps /\ h2[z].next = a /\ h2[z].data = h[z].data
      /\ \A b \in Addr : b # z => h2[b] = h[b]
  <2>1. h \in Heaps /\ z \in Addr /\ a \in Pointer
    BY <1>1, <1>2 DEF Pointer
  <2>. QED
    BY ONLY <2>1, LinkIs
<1>. HIDE DEF h2
<1>7. /\ t \in Seq(Addr) /\ Len(t) = Len(r) + 1 /\ t # << >> /\ t[Len(t)] = a
      /\ \A x \in 1 .. Len(r) : t[x] = r[x]
      /\ Range(t) = Range(r) \cup {a}
  BY <1>1, <1>2, AppendIs
<1>8. Chain(h2, f, t, nullptr)
  <2>1. \A b \in Range(r) : b # z => h2[b].next = h[b].next
    BY <1>2, <1>6
  <2>2. h2[r[Len(r)]].next = a
    BY <1>6 DEF z
  <2>3. Chain(h2, f, t, h2[a].next)
    BY <1>1, <1>5, <2>1, <2>2, ChainAppend DEF z
  <2>. QED
    BY <1>1, <1>2, <1>5, <1>6, <2>3
<1>. HIDE DEF t
<1>9. \A b \in Addr : Value(b) \in Int /\ h2[b].data = Value(b)
  BY <1>2, <1>6 DEF Merged, Value, Heaps
<1>10. /\ Range(r) \subseteq Range(s) \cup Range(u) /\ a \in Range(s)
       /\ Range(r) = {s[x] : x \in 1 .. i - 1} \cup Range(u)
  <2>1. /\ Range(r) = {s[x] : x \in 1 .. i - 1} \cup {u[y] : y \in 1 .. Len(u)}
        /\ Range(u) = {u[y] : y \in 1 .. Len(u)} /\ Range(s) = {s[x] : x \in 1 .. Len(s)}
    <3>1. Len(u) \in Nat /\ j - 1 = Len(u)
      BY <1>1
    <3>2. Range(r) = {s[x] : x \in 1 .. i - 1} \cup {u[y] : y \in 1 .. j - 1}
      BY DEF Merged
    <3>3. DOMAIN u = 1 .. Len(u) /\ DOMAIN s = 1 .. Len(s)
      BY <1>1
    <3>. QED
      BY <3>1, <3>2, <3>3 DEF Range
  <2>2. 1 .. Len(s) = (1 .. i - 1) \cup (i .. Len(s)) /\ Len(s) \in 1 .. Len(s)
    BY <1>1
  <2>. QED
    BY <2>1, <2>2 DEF a
<1>11. \A b \in Addr \ (Range(s) \cup Range(u)) : h2[b] = node[b]
  BY <1>2, <1>6, <1>10 DEF Merged
<1>12. /\ \A x \in 1 .. Len(r) : Value(f) <= Value(r[x]) /\ Value(r[x]) <= Value(z)
       /\ \A x, y \in 1 .. Len(r) : x <= y => Value(r[x]) <= Value(r[y])
       /\ \A x \in 1 .. Len(r) : r[x] \in Addr
       /\ f \in Addr
  BY <1>1, <1>2 DEF Merged, z
<1>13. \A x \in i .. Len(s) : Value(z) <= Value(s[x]) /\ Value(s[x]) <= Value(a)
  <2>. SUFFICES ASSUME NEW x \in i .. Len(s)
                PROVE  Value(z) <= Value(s[x]) /\ Value(s[x]) <= Value(a)
    OBVIOUS
  <2>1. x \in 1 .. Len(s) /\ i <= x /\ x <= Len(s) /\ s[x] \in Addr /\ s[i] \in Addr
    BY <1>1
  <2>2. Value(s[i]) <= Value(s[x]) /\ Value(s[x]) <= Value(a)
    BY <1>1, <2>1, SortedChainOrder DEF a
  <2>3. Value(z) <= Value(s[i])
    BY <1>1 DEF Merged, z
  <2>. QED
    BY <1>2, <1>9, <2>1, <2>2, <2>3
<1>14. Value(f) <= Value(z) /\ Value(z) <= Value(a)
  <2>1. Len(s) \in i .. Len(s) /\ Value(z) <= Value(s[Len(s)])
    BY <1>1, <1>13
  <2>. QED
    BY <1>2, <1>12, <2>1 DEF z, a
<1>16. ASSUME NEW x \in 1 .. Len(t), NEW y \in 1 .. Len(t), x <= y PROVE Value(t[x]) <= Value(t[y])
  <2>1. CASE y \in 1 .. Len(r)
    <3>1. x \in 1 .. Len(r)
      BY <1>2, <1>16, <2>1
    <3>. QED
      BY <1>7, <1>12, <1>16, <2>1, <3>1
  <2>2. CASE y = Len(t) /\ x = Len(t)
    BY <1>1, <1>7, <1>9, <2>2
  <2>3. CASE y = Len(t) /\ x \in 1 .. Len(r)
    <3>1. Value(t[x]) <= Value(z) /\ t[y] = a /\ t[x] \in Addr
      BY <1>7, <1>12, <2>3
    <3>2. Value(t[x]) \in Int /\ Value(z) \in Int /\ Value(a) \in Int
      BY <1>1, <1>2, <1>9, <3>1
    <3>. QED
      BY <1>14, <3>1, <3>2
  <2>. QED
    BY <1>2, <1>7, <2>1, <2>2, <2>3
<1>17. MergeMakes(s, u, f, t, h2)
  <2>1. t[1] = f
    BY <1>1, <1>2, <1>7
  <2>. QED
    BY <1>6, <1>7, <1>8, <1>9, <1>10, <1>11, <1>16, <2>1 DEF MergeMakes
<1>18. Range(t) = {s[x] : x \in 1 .. i - 1} \cup {s[Len(s)]} \cup Range(u)
  BY <1>7, <1>10 DEF a
<1>. QED
  BY <1>4, <1>17, <1>18 DEF h2, z, a

\* When one list is used up, what is taken and the last node that is left are
\* the nodes to keep.
LEMMA KeptIs ==
    ASSUME node \in Heaps, NEW s, NEW u, SortedChain(s), SortedChain(u), s # << >>, u # << >>,
           NEW i \in 1 .. Len(s) + 1, NEW j \in 1 .. Len(u) + 1, Ordered(s, u, i, j)
    PROVE  /\ i <= Len(s) /\ j = Len(u) + 1 =>
                {s[x] : x \in 1 .. i - 1} \cup {s[Len(s)]} \cup Range(u) = KeptOf(s, u)
           /\ j <= Len(u) /\ i = Len(s) + 1 =>
                {u[y] : y \in 1 .. j - 1} \cup {u[Len(u)]} \cup Range(s) = KeptOf(s, u)
<1>. DEFINE S == {x \in 1 .. Len(s) : x = Len(s) \/ Value(s[x]) < Value(u[Len(u)])}
            U == {y \in 1 .. Len(u) : y = Len(u) \/ Value(u[y]) <= Value(s[Len(s)])}
<1>1. /\ Len(s) \in Nat /\ Len(u) \in Nat /\ i \in Nat /\ j \in Nat
      /\ Len(s) \in 1 .. Len(s) /\ Len(u) \in 1 .. Len(u)
      /\ Range(s) = {s[x] : x \in 1 .. Len(s)} /\ Range(u) = {u[y] : y \in 1 .. Len(u)}
      /\ \A x \in 1 .. Len(s) : Value(s[x]) \in Int
      /\ \A x \in 1 .. Len(u) : Value(u[x]) \in Int
  <2>1. s \in Seq(Addr) /\ u \in Seq(Addr)
    BY DEF SortedChain
  <2>2. \A a \in Addr : Value(a) \in Int
    BY DEF Value, Heaps
  <2>3. Range(s) = {s[x] : x \in 1 .. Len(s)} /\ Range(u) = {u[y] : y \in 1 .. Len(u)}
    BY <2>1 DEF Range
  <2>. QED
    BY <2>1, <2>2, <2>3
<1>2. ASSUME i <= Len(s), j = Len(u) + 1
      PROVE  {s[x] : x \in 1 .. i - 1} \cup {s[Len(s)]} \cup Range(u) = KeptOf(s, u)
  <2>1. U = 1 .. Len(u)
    <3>1. \A y \in 1 .. Len(u) : Value(u[y]) <= Value(s[Len(s)])
      BY <1>1, <1>2 DEF Ordered
    <3>. QED
      BY <3>1
  <2>2. S = (1 .. i - 1) \cup {Len(s)}
    <3>1. \A x \in 1 .. i - 1 : x \in S
      BY <1>1, <1>2 DEF Ordered
    <3>2. ASSUME NEW x \in S, x # Len(s) PROVE x \in 1 .. i - 1
      <4>1. x \in 1 .. Len(s) /\ Value(s[x]) < Value(u[Len(u)])
        BY <3>2
      <4>2. \A y \in i .. Len(s) : Value(u[Len(u)]) <= Value(s[y])
        BY <1>1, <1>2 DEF Ordered
      <4>3. Value(s[x]) \in Int /\ Value(u[Len(u)]) \in Int
        BY <1>1, <4>1
      <4>4. x \notin i .. Len(s)
        BY <4>1, <4>2, <4>3
      <4>. QED
        BY <1>1, <4>1, <4>4
    <3>3. Len(s) \in S
      BY <1>1
    <3>. HIDE DEF S
    <3>. QED
      BY <3>1, <3>2, <3>3
  <2>3. KeptOf(s, u) = {s[x] : x \in S} \cup {u[y] : y \in U}
    BY DEF KeptOf
  <2>. HIDE DEF S, U
  <2>. QED
    BY <1>1, <2>1, <2>2, <2>3
<1>3. ASSUME j <= Len(u), i = Len(s) + 1
      PROVE  {u[y] : y \in 1 .. j - 1} \cup {u[Len(u)]} \cup Range(s) = KeptOf(s, u)
  <2>1. S = 1 .. Len(s)
    <3>1. \A x \in 1 .. Len(s) : Value(s[x]) < Value(u[Len(u)])
      BY <1>1, <1>3 DEF Ordered
    <3>. QED
      BY <3>1
  <2>2. U = (1 .. j - 1) \cup {Len(u)}
    <3>1. \A y \in 1 .. j - 1 : y \in U
      BY <1>1, <1>3 DEF Ordered
    <3>2. ASSUME NEW y \in U, y # Len(u) PROVE y \in 1 .. j - 1
      <4>1. y \in 1 .. Len(u) /\ Value(u[y]) <= Value(s[Len(s)])
        BY <3>2
      <4>2. \A x \in j .. Len(u) : Value(s[Len(s)]) < Value(u[x])
        BY <1>1, <1>3 DEF Ordered
      <4>3. Value(u[y]) \in Int /\ Value(s[Len(s)]) \in Int
        BY <1>1, <4>1
      <4>4. y \notin j .. Len(u)
        BY <4>1, <4>2, <4>3
      <4>. QED
        BY <1>1, <4>1, <4>4
    <3>3. Len(u) \in U
      BY <1>1
    <3>. HIDE DEF U
    <3>. QED
      BY <3>1, <3>2, <3>3
  <2>3. KeptOf(s, u) = {s[x] : x \in S} \cup {u[y] : y \in U}
    BY DEF KeptOf
  <2>. HIDE DEF S, U
  <2>. QED
    BY <1>1, <2>1, <2>2, <2>3
<1>. QED
  BY <1>2, <1>3

\* The loop starts with the smaller of the two first nodes.
LEMMA MergeStart ==
    ASSUME node \in Heaps, NEW s, NEW u, SortedChain(s), SortedChain(u), s # << >>, u # << >>,
           Value(s[1]) <= Value(u[1])
    PROVE  /\ Merged(s, u, s[1], << s[1] >>, 2, 1, node)
           /\ node[s[1]].next = At(s, 2) /\ u[1] = At(u, 1) /\ s[1] \in Addr
<1>. DEFINE a == s[1]
            r == << a >>
<1>1. /\ s \in Seq(Addr) /\ u \in Seq(Addr) /\ 1 \in 1 .. Len(s) /\ 1 \in 1 .. Len(u)
      /\ a \in Addr /\ node[a].next = At(s, 2) /\ u[1] = At(u, 1) /\ Len(s) \in Nat /\ Len(u) \in Nat
  BY DEF SortedChain, At
<1>2. /\ r \in Seq(Addr) /\ Len(r) = 1 /\ r[1] = a /\ r # << >> /\ Range(r) = {a}
      /\ \A x \in 1 .. Len(r) : x = 1
  BY <1>1 DEF Range
<1>. HIDE DEF r
<1>3. Chain(node, a, r, node[r[Len(r)]].next)
  BY <1>1, <1>2 DEF Chain
<1>4. Range(r) = {s[x] : x \in 1 .. 2 - 1} \cup {u[y] : y \in 1 .. 1 - 1}
  BY <1>2
<1>5. Value(a) \in Int
  BY <1>1 DEF Value, Heaps
<1>6. 2 <= Len(s) => Value(a) <= Value(s[2])
  BY <1>1 DEF SortedChain
<1>7. Merged(s, u, a, r, 2, 1, node)
  BY <1>1, <1>2, <1>3, <1>4, <1>5, <1>6 DEF Merged, Value
<1>. QED
  BY <1>1, <1>7 DEF a, r

\* With nothing left nothing is linked.
LEMMA RestNull ==
    ASSUME NEW h \in Heaps, NEW curr \in Addr
    PROVE  Rest(h, curr, nullptr) = h
<1>. DEFINE s == << >>
<1>1. s \in Seq(Addr) /\ Len(s) = 0 /\ 1 \in 1 .. Len(s) + 1 /\ Len(s) \in 0 .. N
      /\ At(s, 1) = nullptr /\ 1 > Len(s)
      /\ \A x \in 1 .. Len(s) : s[x] # curr /\ h[s[x]].next = At(s, x + 1)
  BY NodeCount DEF At
<1>. HIDE DEF s
<1>2. Rest(h, curr, At(s, 1)) = IF 1 > Len(s) THEN h ELSE Link(h, curr, s[Len(s)])
  BY ONLY <1>1, h \in Heaps, curr \in Addr, RestIs
<1>. QED
  BY <1>1, <1>2

\* Both ends of the loop.
LEMMA MergeEnds ==
    ASSUME node \in Heaps, NEW s, NEW u, SortedChain(s), SortedChain(u),
           Range(s) \cap Range(u) = {},
           NEW f, NEW r, NEW i, NEW j, NEW c \in MergeStates, Merging(s, u, f, r, i, j, c),
           c.p = nullptr \/ c.q = nullptr, s # << >>, u # << >>
    PROVE  \E t : /\ MergeMakes(s, u, f, t, Rest(Rest(c.heap, c.curr, c.p), c.curr, c.q))
                  /\ Range(t) = KeptOf(s, u)
<1>. DEFINE h == c.heap
            z == c.curr
<1>1. /\ Merged(s, u, f, r, i, j, h) /\ Merged(u, s, f, r, j, i, h)
      /\ z = r[Len(r)] /\ c.p = At(s, i) /\ c.q = At(u, j) /\ (i <= Len(s) \/ j <= Len(u))
  <2>1. Merged(s, u, f, r, i, j, h)
    BY DEF Merging
  <2>. QED
    BY <2>1, MergedSwaps DEF Merging
<1>2. /\ s \in Seq(Addr) /\ u \in Seq(Addr) /\ i \in 1 .. Len(s) + 1 /\ j \in 1 .. Len(u) + 1
      /\ h \in Heaps /\ z \in Addr /\ nullptr \notin Addr /\ Len(s) \in Nat /\ Len(u) \in Nat
      /\ \A x \in 1 .. Len(s) : s[x] \in Addr /\ s[x] \in Pointer
      /\ \A x \in 1 .. Len(u) : u[x] \in Addr /\ u[x] \in Pointer
  BY <1>1, ListAssumption DEF SortedChain, Merged, MergeStates, Pointer
<1>5. /\ i <= Len(s) /\ j = Len(u) + 1 =>
           {s[x] : x \in 1 .. i - 1} \cup {s[Len(s)]} \cup Range(u) = KeptOf(s, u)
      /\ j <= Len(u) /\ i = Len(s) + 1 =>
           {u[y] : y \in 1 .. j - 1} \cup {u[Len(u)]} \cup Range(s) = KeptOf(s, u)
  <2>1. Ordered(s, u, i, j)
    BY DEF Merging
  <2>. QED
    BY <1>2, <2>1, KeptIs
<1>. HIDE DEF h, z
<1>3. CASE i <= Len(s)
  <2>1. c.p = s[i] /\ c.q = nullptr /\ j = Len(u) + 1 /\ Len(s) \in 1 .. Len(s)
    BY <1>1, <1>2, <1>3 DEF At
  <2>. DEFINE h2 == Link(h, z, s[Len(s)])
  <2>2. /\ Rest(h, z, s[i]) = h2
        /\ \E t : /\ MergeMakes(s, u, f, t, h2)
                  /\ Range(t) = {s[x] : x \in 1 .. i - 1} \cup {s[Len(s)]} \cup Range(u)
    BY ONLY node \in Heaps, SortedChain(s), SortedChain(u), Range(s) \cap Range(u) = {},
            <1>1, <1>3, <2>1, MergeRest
  <2>3. h2 \in Heaps
    BY <2>2 DEF MergeMakes
  <2>. HIDE DEF h2
  <2>4. Rest(h2, z, nullptr) = h2
    BY <1>2, <2>3, RestNull
  <2>6. {s[x] : x \in 1 .. i - 1} \cup {s[Len(s)]} \cup Range(u) = KeptOf(s, u)
    BY ONLY <1>3, <1>5, <2>1
  <2>5. PICK t : MergeMakes(s, u, f, t, h2) /\ Range(t) = KeptOf(s, u)
    BY ONLY <2>2, <2>6
  <2>. QED
    BY <2>1, <2>2, <2>4, <2>5 DEF h, z
<1>4. CASE ~ (i <= Len(s))
  <2>1. c.p = nullptr /\ c.q = u[j] /\ i = Len(s) + 1 /\ j <= Len(u)
    BY <1>1, <1>2, <1>4 DEF At
  <2>. DEFINE h2 == Link(h, z, u[Len(u)])
  <2>2. Range(u) \cap Range(s) = {}
    OBVIOUS
  <2>3. /\ Rest(h, z, u[j]) = h2
        /\ \E t : /\ MergeMakes(u, s, f, t, h2)
                  /\ Range(t) = {u[y] : y \in 1 .. j - 1} \cup {u[Len(u)]} \cup Range(s)
    <3>1. /\ SortedChain(u) /\ SortedChain(s) /\ Merged(u, s, f, r, j, i, h)
          /\ j <= Len(u) /\ i = Len(s) + 1 /\ z = r[Len(r)]
      BY <1>1, <2>1
    <3>2. /\ Rest(h, r[Len(r)], u[j]) = Link(h, r[Len(r)], u[Len(u)])
          /\ \E t : /\ MergeMakes(u, s, f, t, Link(h, r[Len(r)], u[Len(u)]))
                    /\ Range(t) = {u[y] : y \in 1 .. j - 1} \cup {u[Len(u)]} \cup Range(s)
      BY ONLY node \in Heaps, <3>1, <2>2, MergeRest
    <3>. QED
      BY ONLY <3>1, <3>2
  <2>4. Rest(h, z, nullptr) = h
    BY <1>2, RestNull
  <2>. HIDE DEF h2
  <2>7. {u[y] : y \in 1 .. j - 1} \cup {u[Len(u)]} \cup Range(s) = KeptOf(s, u)
    BY ONLY <1>5, <2>1
  <2>5. PICK t : MergeMakes(u, s, f, t, h2) /\ Range(t) = KeptOf(s, u)
    BY ONLY <2>3, <2>7
  <2>6. MergeMakes(s, u, f, t, h2) /\ Range(t) = KeptOf(s, u)
    BY <2>5 DEF MergeMakes
  <2>. QED
    BY <2>1, <2>3, <2>4, <2>6 DEF h, z
<1>. QED
  BY <1>3, <1>4

\* Behind the loop's chain only the last of the remaining nodes stays linked
\* (linkedlist_adt.cpp:248).
LEMMA MergeIs ==
    ASSUME node \in Heaps, NEW s, NEW u, SortedChain(s), SortedChain(u), s # << >>, u # << >>,
           Range(s) \cap Range(u) = {}
    PROVE  LET p == s[1]
               q == u[1]
               final == IF node[p].data < node[q].data THEN p ELSE q
               main == IF final = p THEN MergeLoop(p, next(p), q)
                                    ELSE MergeLoop(q, p, next(q))
           IN  /\ final \in Addr
               /\ \E t : /\ MergeMakes(s, u, final, t,
                               Rest(Rest(main.heap, main.curr, main.p), main.curr, main.q))
                         /\ Range(t) = KeptOf(s, u)
<1>. DEFINE p == s[1]
            q == u[1]
<1>1. /\ p \in Addr /\ q \in Addr /\ p # q /\ nullptr \notin Addr
      /\ p \in Pointer /\ q \in Pointer
      /\ Value(p) \in Int /\ Value(q) \in Int
      /\ next(p) \in Pointer /\ next(q) \in Pointer
      /\ next(p) = node[p].next /\ next(q) = node[q].next
      /\ s \in Seq(Addr) /\ u \in Seq(Addr) /\ Len(s) \in Nat /\ Len(u) \in Nat
      /\ Len(s) > 0 /\ Len(u) > 0 /\ Len(<< p >>) = 1 /\ Len(<< q >>) = 1
  <2>1. p \in Range(s) /\ q \in Range(u) /\ p \in Addr /\ q \in Addr
    BY DEF SortedChain, Range
  <2>. QED
    BY <2>1, ListAssumption DEF SortedChain, Value, Heaps, Pointer, next, Follow
<1>2. CASE Value(p) < Value(q)
  <2>. DEFINE x == [heap |-> node, curr |-> p, p |-> next(p), q |-> q]
              c == MergeLoop(p, next(p), q)
  <2>1. Value(p) <= Value(q)
    BY <1>1, <1>2
  <2>2. /\ Merged(s, u, p, << p >>, 2, 1, node) /\ node[p].next = At(s, 2) /\ q = At(u, 1)
    BY <2>1, MergeStart
  <2>3. Merging(s, u, p, << p >>, 2, 1, x)
    <3>1. Ordered(s, u, 1 + 1, 1)
      BY <1>1, <1>2, OrderedFirst, OrderedTake
    <3>. QED
      BY <1>1, <2>2, <3>1 DEF Merging
  <2>. HIDE DEF p, q
  <2>4. /\ c \in MergeStates /\ (c.p = nullptr \/ c.q = nullptr)
        /\ \E r2, i2, j2 : Merging(s, u, p, r2, i2, j2, c)
    BY <1>1, <2>3, MergeLoopIs
  <2>. HIDE DEF c
  <2>5. \E t : /\ MergeMakes(s, u, p, t, Rest(Rest(c.heap, c.curr, c.p), c.curr, c.q))
               /\ Range(t) = KeptOf(s, u)
    BY <2>4, MergeEnds
  <2>. QED
    BY <1>1, <1>2, <2>5 DEF c, p, q, Value
<1>3. CASE ~ (Value(p) < Value(q))
  <2>. DEFINE x == [heap |-> node, curr |-> q, p |-> p, q |-> next(q)]
              c == MergeLoop(q, p, next(q))
  <2>1. Value(q) <= Value(p)
    BY <1>1, <1>3
  <2>2. /\ Merged(u, s, q, << q >>, 2, 1, node) /\ node[q].next = At(u, 2) /\ p = At(s, 1)
    BY <2>1, MergeStart
  <2>3. Merging(s, u, q, << q >>, 1, 2, x)
    <3>1. Merged(s, u, q, << q >>, 1, 2, node)
      BY <2>2, MergedSwaps
    <3>2. Ordered(s, u, 1, 1 + 1)
      BY <1>1, <1>3, OrderedFirst, OrderedTake
    <3>. QED
      BY <1>1, <2>2, <3>1, <3>2 DEF Merging
  <2>. HIDE DEF p, q
  <2>4. /\ c \in MergeStates /\ (c.p = nullptr \/ c.q = nullptr)
        /\ \E r2, i2, j2 : Merging(s, u, q, r2, i2, j2, c)
    BY <1>1, <2>3, MergeLoopIs
  <2>. HIDE DEF c
  <2>5. \E t : /\ MergeMakes(s, u, q, t, Rest(Rest(c.heap, c.curr, c.p), c.curr, c.q))
               /\ Range(t) = KeptOf(s, u)
    BY <2>4, MergeEnds
  <2>. QED
    BY <1>1, <1>3, <2>5 DEF c, p, q, Value
<1>. QED
  BY <1>2, <1>3

\* What SeqList says of a merge, r the result and d and e the two lists.
KeptPlaces(d, e) ==
  { i \in DOMAIN (d \o e) :
      IF i <= Len(d) THEN i = Len(d) \/ (d \o e)[i] < Last(e)
                     ELSE i = Len(d \o e) \/ (d \o e)[i] <= Last(d) }

MergedOf(r, d, e) ==
  /\ d # << >> /\ e # << >> /\ r \in Seq(Int)
  /\ \A x, y \in DOMAIN r : x < y => r[x] <= r[y]
  /\ \E g \in Bijection(DOMAIN r, KeptPlaces(d, e)) :
        \A x \in DOMAIN r : r[x] = (d \o e)[g[x]]

\* Its values are in order, and its nodes are those to keep, each once.
LEMMA MergeMakesMerged ==
    ASSUME node \in Heaps, NEW s, NEW u, SortedChain(s), SortedChain(u), s # << >>, u # << >>,
           Range(s) \cap Range(u) = {},
           NEW f, NEW t, NEW h, MergeMakes(s, u, f, t, h), Range(t) = KeptOf(s, u)
    PROVE  MergedOf(Data(h, t), Data(node, s), Data(node, u))
<1>. DEFINE v == s \o u
            d == Data(node, s)
            e == Data(node, u)
            both == d \o e
            r == Data(h, t)
            m == Len(s)
            n == Len(u)
            K == KeptPlaces(d, e)
<1>1. /\ s \in Seq(Addr) /\ u \in Seq(Addr) /\ m \in Nat /\ n \in Nat
      /\ m \in 1 .. m /\ n \in 1 .. n
      /\ \A x, y \in 1 .. m : s[x] = s[y] => x = y
      /\ \A x, y \in 1 .. n : u[x] = u[y] => x = y
      /\ \A x \in 1 .. m, y \in 1 .. n : s[x] # u[y]
  <2>1. s \in Seq(Addr) /\ u \in Seq(Addr)
    BY DEF SortedChain
  <2>2. \A x \in 1 .. m, y \in 1 .. n : s[x] \in Range(s) /\ u[y] \in Range(u)
    BY <2>1 DEF Range
  <2>. QED
    BY <2>1, <2>2 DEF SortedChain
<1>2. both = Data(node, v)
  BY <1>1, DataConcat
<1>3. /\ v \in Seq(Addr) /\ Len(v) = m + n
      /\ \A x \in 1 .. m + n : v[x] = IF x <= m THEN s[x] ELSE u[x - m]
  BY <1>1
<1>4. /\ d \in Seq(Int) /\ Len(d) = m /\ \A x \in 1 .. m : d[x] = Value(s[x])
      /\ e \in Seq(Int) /\ Len(e) = n /\ \A x \in 1 .. n : e[x] = Value(u[x])
  BY <1>1, DataIs DEF Value
<1>5. /\ t \in Seq(Addr) /\ \A x, y \in 1 .. Len(t) : t[x] = t[y] => x = y
      /\ h \in Heaps /\ Len(t) \in Nat /\ Range(t) = {t[x] : x \in 1 .. Len(t)}
  BY DEF MergeMakes, Chain, Range
<1>. HIDE DEF v, m, n
<1>6. both \in Seq(Int) /\ Len(both) = m + n /\ \A x \in 1 .. m + n : both[x] = Value(v[x])
  <2>1. /\ Data(node, v) \in Seq(Int) /\ Len(Data(node, v)) = Len(v)
        /\ \A x \in 1 .. Len(v) : Data(node, v)[x] = Value(v[x])
    BY <1>3, DataIs DEF Value
  <2>. QED
    BY ONLY <1>2, <1>3, <2>1
<1>7. r \in Seq(Int) /\ Len(r) = Len(t) /\ \A x \in 1 .. Len(t) : r[x] = Value(t[x])
  <2>1. \A x \in 1 .. Len(t) : h[t[x]].data = Value(t[x])
    BY <1>5 DEF MergeMakes
  <2>2. r \in Seq(Int) /\ Len(r) = Len(t) /\ \A x \in 1 .. Len(t) : r[x] = h[t[x]].data
    BY ONLY <1>5, DataIs
  <2>. QED
    BY <2>1, <2>2
<1>8. K = {x \in 1 .. m + n : IF x <= m THEN x = m \/ Value(v[x]) < Value(u[n])
                                       ELSE x = m + n \/ Value(v[x]) <= Value(s[m])}
  <2>1. Last(d) = Value(s[m]) /\ Last(e) = Value(u[n])
    BY <1>1, <1>4 DEF Last
  <2>2. DOMAIN both = 1 .. m + n
    BY <1>6
  <2>3. K = {x \in DOMAIN both : IF x <= m THEN x = m \/ both[x] < Last(e)
                                  ELSE x = m + n \/ both[x] <= Last(d)}
    <3>1. K = {x \in DOMAIN both : IF x <= Len(d) THEN x = Len(d) \/ both[x] < Last(e)
                                    ELSE x = Len(both) \/ both[x] <= Last(d)}
      BY DEF KeptPlaces
    <3>2. Len(d) = m /\ Len(both) = m + n
      BY <1>4, <1>6
    <3>. HIDE DEF K, both, d, e
    <3>. QED
      BY <3>1, <3>2
  <2>. HIDE DEF K, both, d, e
  <2>. QED
    BY <1>6, <2>1, <2>2, <2>3
<1>. HIDE DEF r, d, e, both, K
<1>9. \A x, y \in 1 .. m + n : v[x] = v[y] => x = y
  <2>. SUFFICES ASSUME NEW x \in 1 .. m + n, NEW y \in 1 .. m + n, v[x] = v[y] PROVE x = y
    OBVIOUS
  <2>1. /\ x <= m => x \in 1 .. m /\ v[x] = s[x]
        /\ ~ (x <= m) => x - m \in 1 .. n /\ v[x] = u[x - m]
        /\ y <= m => y \in 1 .. m /\ v[y] = s[y]
        /\ ~ (y <= m) => y - m \in 1 .. n /\ v[y] = u[y - m]
    BY <1>1, <1>3
  <2>2. CASE x <= m /\ y <= m
    BY <1>1, <2>1, <2>2
  <2>3. CASE ~ (x <= m) /\ ~ (y <= m)
    <3>1. x - m = y - m
      BY <1>1, <2>1, <2>3
    <3>. QED
      BY <1>1, <3>1
  <2>. QED
    BY <1>1, <2>1, <2>2, <2>3
<1>10. Range(t) = {v[x] : x \in K}
  <2>. DEFINE S == {x \in 1 .. m : x = m \/ Value(s[x]) < Value(u[n])}
              U == {y \in 1 .. n : y = n \/ Value(u[y]) <= Value(s[m])}
  <2>1. Range(t) = {s[x] : x \in S} \cup {u[y] : y \in U}
    BY DEF KeptOf, m, n
  <2>2. ASSUME NEW x \in S PROVE x \in K /\ v[x] = s[x]
    <3>1. x \in 1 .. m + n /\ x <= m
      BY <1>1
    <3>2. v[x] = s[x]
      BY <1>3, <3>1
    <3>. QED
      BY <1>8, <3>1, <3>2
  <2>3. ASSUME NEW y \in U PROVE y + m \in K /\ v[y + m] = u[y]
    <3>1. y + m \in 1 .. m + n /\ ~ (y + m <= m) /\ (y + m) - m = y /\ (y = n => y + m = m + n)
      BY <1>1
    <3>2. v[y + m] = u[y]
      BY <1>3, <3>1
    <3>. QED
      BY <1>8, <3>1, <3>2
  <2>4. ASSUME NEW x \in K
        PROVE  \/ x \in S /\ v[x] = s[x]
               \/ x - m \in U /\ v[x] = u[x - m]
    <3>1. x \in 1 .. m + n
      BY <1>8
    <3>2. CASE x <= m
      <4>1. x \in 1 .. m /\ v[x] = s[x]
        BY <1>1, <1>3, <3>1, <3>2
      <4>2. x = m \/ Value(v[x]) < Value(u[n])
        BY <1>8, <3>2
      <4>. QED
        BY <4>1, <4>2
    <3>3. CASE ~ (x <= m)
      <4>1. x - m \in 1 .. n /\ v[x] = u[x - m]
        BY <1>1, <1>3, <3>1, <3>3
      <4>2. x = m + n \/ Value(v[x]) <= Value(s[m])
        BY <1>8, <3>3
      <4>3. x = m + n => x - m = n
        BY <1>1
      <4>. QED
        BY <4>1, <4>2, <4>3
    <3>. QED
      BY <3>2, <3>3
  <2>. HIDE DEF S, U
  <2>5. \A a \in Range(t) : a \in {v[x] : x \in K}
    BY <2>1, <2>2, <2>3
  <2>6. \A x \in K : v[x] \in Range(t)
    BY <2>1, <2>4
  <2>. QED
    BY <2>5, <2>6
<1>. DEFINE g == [x \in 1 .. Len(t) |-> CHOOSE y \in K : v[y] = t[x]]
<1>11. \A x \in 1 .. Len(t) : g[x] \in K /\ v[g[x]] = t[x]
  <2>1. \A x \in 1 .. Len(t) : \E y \in K : v[y] = t[x]
    BY <1>5, <1>10
  <2>. QED
    BY <2>1
<1>12. g \in [1 .. Len(t) -> K]
  BY <1>11
<1>. HIDE DEF g
<1>13. K \subseteq 1 .. m + n
  BY <1>8
<1>14. g \in Bijection(1 .. Len(t), K)
  <2>1. \A x, y \in 1 .. Len(t) : g[x] = g[y] => x = y
    BY <1>5, <1>11
  <2>2. ASSUME NEW y \in K PROVE \E x \in 1 .. Len(t) : g[x] = y
    <3>1. PICK x \in 1 .. Len(t) : t[x] = v[y]
      BY <1>5, <1>10
    <3>2. g[x] \in K /\ v[g[x]] = v[y]
      BY <1>11, <3>1
    <3>3. g[x] = y
      BY <1>9, <1>13, <3>2
    <3>. QED
      BY <3>3
  <2>. QED
    BY <1>12, <2>1, <2>2 DEF Bijection, Injection, IsInjective, Surjection
<1>15. \A x \in 1 .. Len(t) : r[x] = both[g[x]]
  <2>. SUFFICES ASSUME NEW x \in 1 .. Len(t) PROVE r[x] = both[g[x]]
    OBVIOUS
  <2>1. g[x] \in 1 .. m + n /\ v[g[x]] = t[x]
    BY <1>11, <1>13
  <2>. QED
    BY <1>6, <1>7, <2>1
<1>16. DOMAIN r = 1 .. Len(t)
  BY <1>7
<1>17. \A x, y \in 1 .. Len(t) : x < y => r[x] <= r[y]
  BY <1>5, <1>7 DEF MergeMakes
<1>18. d # << >> /\ e # << >>
  <2>1. Len(d) # 0 /\ Len(e) # 0
    BY <1>1, <1>4
  <2>. QED
    BY <2>1
<1>. QED
  BY <1>7, <1>14, <1>15, <1>16, <1>17, <1>18 DEF MergedOf, both, r, d, e, K

\* merge (linkedlist_adt.cpp:213): of two sorted lists it makes a sorted one of
\* their nodes, and the second list is not used again.
LEMMA MergeStep ==
    ASSUME TypeOK, WellLinked, NEW l \in Lists, NEW m \in Lists, merge(l, m)
    PROVE  /\ TypeOK' /\ WellLinked' /\ LeavesOthers(l)
           /\ l # m /\ l \notin given /\ m \notin given /\ given' = given \cup {m}
           /\ MergedOf(Contents(l)', Contents(l), Contents(m))
<1>. DEFINE s == PathOf(l)
            u == PathOf(m)
            p == first[l]
            q == first[m]
            final == IF node[p].data < node[q].data THEN p ELSE q
            main == IF final = p THEN MergeLoop(p, next(p), q)
                                 ELSE MergeLoop(q, p, next(q))
            X == Range(s) \cup Range(u)
<1>1. /\ l \notin given /\ m \notin given /\ l # m /\ given' = given \cup {m}
      /\ live' = live /\ first' = [first EXCEPT ![l] = final]
      /\ p # nullptr /\ q # nullptr
      /\ is_sorted(Contents(l)) /\ is_sorted(Contents(m))
      /\ node' = Rest(Rest(main.heap, main.curr, main.p), main.curr, main.q)
  BY DEF merge, Usable
<1>2. /\ s \in Seq(Addr) /\ Range(s) \subseteq live /\ Chain(node, p, s, nullptr)
      /\ u \in Seq(Addr) /\ Range(u) \subseteq live /\ Chain(node, q, u, nullptr)
      /\ Range(s) \cap Range(u) = {}
      /\ \A k \in Lists \ (given' \cup {l}) : Range(PathOf(k)) \cap X = {}
      /\ Contents(l) = Data(node, s) /\ Contents(m) = Data(node, u)
  BY <1>1, ListIs
<1>. HIDE DEF s, u
<1>3. /\ first \in [Lists -> Pointer] /\ node \in Heaps
      /\ live \subseteq Addr /\ given \subseteq Lists
  BY DEF TypeOK
<1>4. s # << >> /\ u # << >> /\ p = s[1] /\ q = u[1]
  BY <1>1, <1>2 DEF Chain
<1>5. SortedChain(s) /\ SortedChain(u)
  <2>1. ASSUME NEW k \in Lists, NEW w \in Seq(Addr), Chain(node, first[k], w, nullptr),
               is_sorted(Data(node, w))
        PROVE  SortedChain(w)
    <3>1. /\ Len(Data(node, w)) = Len(w)
          /\ \A x \in 1 .. Len(w) : Data(node, w)[x] = Value(w[x])
      BY <1>3, DataIs DEF Value
    <3>2. \A x \in 1 .. Len(w) - 1 : Value(w[x]) <= Value(w[x + 1])
      <4>. SUFFICES ASSUME NEW x \in 1 .. Len(w) - 1 PROVE Value(w[x]) <= Value(w[x + 1])
        OBVIOUS
      <4>1. x \in 1 .. Len(w) /\ x + 1 \in 1 .. Len(w)
        OBVIOUS
      <4>. QED
        BY <2>1, <3>1, <4>1 DEF is_sorted
    <3>3. \A x \in 1 .. Len(w) : node[w[x]].next = At(w, x + 1)
      BY <2>1 DEF Chain, At
    <3>. QED
      BY <2>1, <3>2, <3>3 DEF SortedChain, Chain
  <2>. QED
    BY <1>1, <1>2, <2>1
<1>6. final \in Addr /\ \E t : MergeMakes(s, u, final, t, node') /\ Range(t) = KeptOf(s, u)
  <2>1. next(s[1]) = next(p) /\ next(u[1]) = next(q)
    BY <1>4
  <2>. QED
    BY <1>1, <1>2, <1>3, <1>4, <1>5, MergeIs
<1>7. PICK t : MergeMakes(s, u, final, t, node') /\ Range(t) = KeptOf(s, u)
  BY <1>6
<1>. HIDE DEF final, main
<1>8. /\ node' \in Heaps /\ Chain(node', first'[l], t, nullptr) /\ Range(t) \subseteq X
      /\ \A a \in Addr \ X : node'[a] = node[a]
  BY <1>1, <1>3, <1>7 DEF MergeMakes
<1>9. TypeOK'
  BY <1>1, <1>3, <1>6, <1>8 DEF TypeOK, Pointer
<1>10. /\ WellLinked' /\ LeavesOthers(l) /\ Contents(l)' = Data(node', t)
  <2>1. /\ live \ X \subseteq live' /\ given \subseteq given' /\ l \notin given'
        /\ \A k \in Lists \ (given' \cup {l}) : first'[k] = first[k]
    BY <1>1, <1>3
  <2>2. Range(t) \subseteq X \cap live'
    BY <1>1, <1>2, <1>8
  <2>3. /\ \A k \in Lists \ (given' \cup {l}) : first'[k] = first[k] /\ Range(PathOf(k)) \cap X = {}
        /\ l \notin given' => Chain(node', first'[l], t, nullptr) /\ Range(t) \subseteq X \cap live'
        /\ l \notin given /\ TypeOK' /\ \A a \in Addr \ X : node'[a] = node[a]
    BY <1>1, <1>2, <1>8, <1>9, <2>1, <2>2
  <2>. HIDE DEF X
  <2>4. /\ WellLinked' /\ \A k \in Lists \ (given' \cup {l}) : Contents(k)' = Contents(k)
        /\ l \notin given' => Contents(l)' = Data(node', t)
    BY <2>1, <2>3, CallOn
  <2>. QED
    BY <2>1, <2>4 DEF LeavesOthers
<1>11. MergedOf(Data(node', t), Data(node, s), Data(node, u))
  BY <1>2, <1>3, <1>4, <1>5, <1>7, MergeMakesMerged
<1>. QED
  BY <1>1, <1>2, <1>9, <1>10, <1>11

-----------------------------------------------------------------------------
(* is_loop.  Pos[t] is where t steps lead from the first node.             *)

FastWalk(p) == Rounds([a \in Pointer |-> Fast(a)], p)

\* What holds t steps from p holds of the slow pointer after t rounds and of
\* the fast one after half as many.
LEMMA BothWalks ==
    ASSUME node \in Heaps, NEW p \in Pointer,
           NEW Pos \in [Nat -> SUBSET Pointer], p \in Pos[0],
           \A t \in Nat : \A a \in Pos[t] : next(a) \in Pos[t + 1]
    PROVE  \A k \in 0 .. N : Walk(node, p)[k] \in Pos[k] /\ FastWalk(p)[k] \in Pos[2 * k]
<1>. DEFINE slow == [a \in Pointer |-> Follow(node, a)]
            fast == [a \in Pointer |-> Fast(a)]
            S == [k \in 0 .. N |-> Pos[k]]
            F == [k \in 0 .. N |-> Pos[2 * k]]
<1>1. /\ \A t \in Nat : \A a \in Pos[t] : a \in Pointer
      /\ \A a \in Pointer : next(a) \in Pointer
      /\ N \in Nat
  BY NodeCount DEF next, Follow, Heaps, Pointer
<1>2. slow \in [Pointer -> Pointer] /\ fast \in [Pointer -> Pointer]
  BY <1>1 DEF next, Fast
<1>3. p \in S[0] /\ p \in F[0]
  BY <1>1
<1>4. ASSUME NEW k \in 0 .. N - 1, NEW a \in Pointer, a \in S[k] PROVE slow[a] \in S[k + 1]
  BY <1>1, <1>4 DEF next
<1>5. ASSUME NEW k \in 0 .. N - 1, NEW a \in Pointer, a \in F[k] PROVE fast[a] \in F[k + 1]
  <2>1. /\ a \in Pos[2 * k] /\ 2 * k \in Nat /\ 2 * k + 1 \in Nat /\ k + 1 \in 0 .. N
        /\ 2 * (k + 1) = (2 * k + 1) + 1
    BY <1>1, <1>5
  <2>2. next(a) \in Pos[2 * k + 1]
    BY <2>1
  <2>3. next(next(a)) \in Pos[(2 * k + 1) + 1]
    BY <2>1, <2>2
  <2>. QED
    BY <2>1, <2>3 DEF Fast
<1>6. /\ Walk(node, p) = Rounds(slow, p) /\ FastWalk(p) = Rounds(fast, p)
      /\ \A k \in 0 .. N : S[k] = Pos[k] /\ F[k] = Pos[2 * k]
  BY DEF Walk, FastWalk
<1>. HIDE DEF slow, fast, S, F
<1>7. \A k \in 0 .. N : Rounds(slow, p)[k] \in S[k]
  BY <1>2, <1>3, <1>4, RoundsKeep
<1>8. \A k \in 0 .. N : Rounds(fast, p)[k] \in F[k]
  BY <1>2, <1>3, <1>5, RoundsKeep
<1>. QED
  BY <1>6, <1>7, <1>8

\* A list that ends: the pointers do not meet before one of them is null.
LEMMA NoLoopFound ==
    ASSUME node \in Heaps, NEW l \in Lists, first[l] \in Pointer, NEW s,
           Chain(node, first[l], s, nullptr), Len(s) > 1
    PROVE  ~ is_loop(l)
<1>. DEFINE n == Len(s)
            At0(t) == IF t < n THEN s[t + 1] ELSE nullptr
            Pos == [t \in Nat |-> {At0(t)}]
            p == Walk(node, first[l])
            q == FastWalk(first[l])
<1>1. /\ s \in Seq(Addr) /\ n \in Nat /\ nullptr \notin Addr
      /\ \A i, j \in 1 .. n : s[i] = s[j] => i = j
      /\ \A i \in 1 .. n : s[i] \in Addr /\ node[s[i]].next = IF i < n THEN s[i + 1] ELSE nullptr
      /\ first[l] = s[1]
  BY ListAssumption DEF Chain
<1>2. Pos \in [Nat -> SUBSET Pointer] /\ first[l] \in Pos[0]
  BY <1>1 DEF Pointer
<1>3. ASSUME NEW t \in Nat, NEW a \in Pos[t] PROVE next(a) \in Pos[t + 1]
  <2>1. CASE t < n
    <3>1. t + 1 \in 1 .. n /\ a = s[t + 1]
      BY <1>1, <2>1
    <3>. QED
      BY <1>1, <3>1 DEF next, Follow
  <2>2. CASE ~ (t < n)
    BY <1>1, <2>2 DEF next, Follow
  <2>. QED
    BY <2>1, <2>2
<1>4. \A k \in 0 .. N : p[k] \in Pos[k] /\ q[k] \in Pos[2 * k]
  <2>. HIDE DEF Pos
  <2>. QED
    BY <1>2, <1>3, BothWalks
<1>. HIDE DEF p, q
<1>5. \A k \in 0 .. N : p[k] = At0(k) /\ q[k] = At0(2 * k)
  <2>. SUFFICES ASSUME NEW k \in 0 .. N PROVE p[k] = At0(k) /\ q[k] = At0(2 * k)
    OBVIOUS
  <2>1. k \in Nat /\ 2 * k \in Nat
    BY NodeCount
  <2>2. \A t \in Nat : Pos[t] = {At0(t)}
    OBVIOUS
  <2>3. Pos[k] = {At0(k)} /\ Pos[2 * k] = {At0(2 * k)}
    BY <2>1, <2>2
  <2>. HIDE DEF Pos, At0
  <2>. QED
    BY <1>4, <2>3
<1>6. ASSUME NEW k \in 1 .. N, p[k] = q[k],
             \A j \in 1 .. k - 1 : p[j] # nullptr /\ q[j] # nullptr
      PROVE  FALSE
  <2>1. At0(k) = At0(2 * k) /\ k \in Nat /\ k >= 1
    BY <1>5, <1>6, NodeCount
  <2>2. ~ (2 * k < n)
    <3>. SUFFICES ASSUME 2 * k < n PROVE FALSE
      OBVIOUS
    <3>1. k + 1 \in 1 .. n /\ 2 * k + 1 \in 1 .. n /\ s[k + 1] = s[2 * k + 1]
      BY <1>1, <2>1
    <3>2. k + 1 = 2 * k + 1
      BY <1>1, <3>1
    <3>. QED
      BY <2>1, <3>2
  <2>3. ~ (k < n)
    <3>. SUFFICES ASSUME k < n PROVE FALSE
      OBVIOUS
    <3>1. k + 1 \in 1 .. n /\ s[k + 1] = nullptr
      BY <1>1, <2>1, <2>2
    <3>. QED
      BY <1>1, <3>1
  <2>4. k - 1 \in 1 .. k - 1 /\ k - 1 \in 0 .. N /\ ~ (2 * (k - 1) < n)
    BY <1>1, <2>1, <2>3, NodeCount
  <2>5. q[k - 1] = nullptr
    BY <1>5, <2>4
  <2>. QED
    BY <1>6, <2>4, <2>5
<1>. QED
  BY <1>6 DEF is_loop, FastWalk, p, q, N

\* A multiple of m strictly between -m and m is 0.
LEMMA Multiples ==
    ASSUME NEW m \in Nat, m >= 1, NEW x \in Int, x * m < m, 0 - m < x * m
    PROVE  x = 0
<1>1. CASE x >= 1
  <2>1. (x - 1) * m >= 0
    BY <1>1
  <2>2. (x - 1) * m = x * m - m
    OBVIOUS
  <2>. QED
    BY <2>1, <2>2
<1>2. CASE x <= 0 - 1
  <2>1. (0 - 1 - x) * m >= 0
    BY <1>2
  <2>2. (0 - 1 - x) * m = 0 - m - x * m
    OBVIOUS
  <2>. QED
    BY <2>1, <2>2
<1>. QED
  BY <1>1, <1>2

\* Among m numbers in a row there is a multiple of m.
LEMMA SomeMultiple ==
    ASSUME NEW m \in Nat, m >= 1, NEW c \in Nat
    PROVE  \E a \in Nat : c <= a * m /\ a * m <= c + m - 1
<1>. DEFINE A == {a \in Nat : c <= a * m}
<1>1. A # {}
  <2>1. c * m >= c
    <3>1. c * (m - 1) >= 0
      OBVIOUS
    <3>2. c * (m - 1) = c * m - c
      OBVIOUS
    <3>. QED
      BY <3>1, <3>2
  <2>. QED
    BY <2>1
<1>2. PICK a \in A : \A b \in A : a <= b
  BY <1>1, LeastNat
<1>3. a * m <= c + m - 1
  <2>1. CASE a = 0
    <3>1. a * m = 0
      BY <2>1
    <3>. QED
      BY <3>1
  <2>2. CASE a # 0
    <3>1. a - 1 \in Nat /\ a - 1 \notin A
      BY <1>2, <2>2
    <3>2. (a - 1) * m < c /\ (a - 1) * m = a * m - m /\ a * m \in Int
      BY <3>1
    <3>. QED
      BY <3>2
  <2>. QED
    BY <2>1, <2>2
<1>. QED
  BY <1>2, <1>3

\* A list that comes back to its c-th node: at the first multiple of the
\* length of the loop that lies on it both pointers are at the same node.
LEMMA LoopIsFound ==
    ASSUME node \in Heaps, NEW l \in Lists, first[l] \in Pointer, NEW s, NEW e \in Range(s),
           Chain(node, first[l], s, e)
    PROVE  is_loop(l)
<1>. DEFINE n == Len(s)
            p == Walk(node, first[l])
            q == FastWalk(first[l])
<1>1. /\ s \in Seq(Addr) /\ n \in Nat /\ nullptr \notin Addr
      /\ \A i, j \in 1 .. n : s[i] = s[j] => i = j
      /\ \A i \in 1 .. n : s[i] \in Addr /\ node[s[i]].next = IF i < n THEN s[i + 1] ELSE e
      /\ s # << >> /\ first[l] = s[1] /\ n \in 0 .. N
  <2>1. s # << >>
    BY DEF Range, Chain
  <2>. QED
    BY <2>1, ListAssumption, PathBound DEF Chain
<1>2. PICK c \in 1 .. n : e = s[c]
  BY <1>1 DEF Range
<1>3. PICK m \in Nat : m = n + 1 - c
  <2>1. n + 1 - c \in Nat
    BY <1>1, <1>2
  <2>. QED
    BY <2>1
<1>4. m >= 1 /\ c \in Nat /\ c >= 1 /\ c <= n
  BY <1>1, <1>2, <1>3
<1>. DEFINE Step(t, a, i, b) == a = s[i] /\ t + 1 = i + b * m /\ (b > 0 => i >= c)
            Pos == [t \in Nat |-> {a \in Addr : \E i \in 1 .. n, b \in Nat : Step(t, a, i, b)}]
<1>5. Pos \in [Nat -> SUBSET Pointer] /\ first[l] \in Pos[0]
  <2>1. 1 \in 1 .. n /\ 0 \in Nat /\ Step(0, s[1], 1, 0)
    BY <1>1, <1>4
  <2>. QED
    BY <1>1, <2>1 DEF Pointer
<1>6. ASSUME NEW t \in Nat, NEW a \in Pos[t] PROVE next(a) \in Pos[t + 1]
  <2>0. ASSUME NEW i2 \in 1 .. n, NEW b2 \in Nat, Step(t + 1, next(a), i2, b2), next(a) \in Addr
        PROVE  next(a) \in Pos[t + 1]
    <3>1. t + 1 \in Nat
      OBVIOUS
    <3>. HIDE DEF Step
    <3>2. \E i3 \in 1 .. n, b3 \in Nat : Step(t + 1, next(a), i3, b3)
      BY <2>0
    <3>. QED
      BY <2>0, <3>1, <3>2
  <2>1. PICK i \in 1 .. n, b \in Nat : Step(t, a, i, b)
    OBVIOUS
  <2>2. a = s[i] /\ next(a) = IF i < n THEN s[i + 1] ELSE s[c]
    BY <1>1, <1>2, <2>1 DEF next, Follow
  <2>3. CASE i < n
    <3>1. i + 1 \in 1 .. n /\ Step(t + 1, next(a), i + 1, b) /\ next(a) \in Addr
      <4>1. b * m \in Int
        OBVIOUS
      <4>2. (t + 1) + 1 = (i + 1) + b * m
        BY <2>1, <4>1
      <4>. QED
        BY <1>1, <1>4, <2>1, <2>2, <2>3, <4>2
    <3>. QED
      BY <3>1, <2>0
  <2>4. CASE i = n
    <3>1. (b + 1) * m = b * m + m
      OBVIOUS
    <3>2. Step(t + 1, next(a), c, b + 1) /\ next(a) \in Addr /\ b + 1 \in Nat
      <4>1. b * m \in Int /\ (b + 1) * m \in Int
        OBVIOUS
      <4>2. (t + 1) + 1 = c + (b + 1) * m
        BY <1>3, <1>4, <2>1, <2>4, <3>1, <4>1
      <4>. QED
        BY <1>1, <1>2, <1>4, <2>2, <2>4, <4>2
    <3>. QED
      BY <1>2, <3>2, <2>0
  <2>. QED
    BY <1>1, <2>3, <2>4
<1>7. \A k \in 0 .. N : p[k] \in Pos[k] /\ q[k] \in Pos[2 * k]
  <2>. HIDE DEF Pos
  <2>. QED
    BY <1>1, <1>5, <1>6, BothWalks
<1>. HIDE DEF p, q
<1>8. PICK a \in Nat : c <= a * m /\ a * m <= c + m - 1
  BY <1>4, SomeMultiple
<1>9. PICK k \in Nat : k = a * m
  OBVIOUS
<1>10. k \in 1 .. N /\ k \in 0 .. N /\ 2 * k \in Nat /\ c <= k
  BY <1>1, <1>3, <1>4, <1>8, <1>9, NodeCount
<1>11. PICK i \in 1 .. n, b \in Nat : Step(k, p[k], i, b)
  BY <1>7, <1>10
<1>12. PICK j \in 1 .. n, d \in Nat : Step(2 * k, q[k], j, d)
  BY <1>7, <1>10
<1>13. i >= c /\ j >= c
  <2>1. b = 0 => b * m = 0
    OBVIOUS
  <2>2. d = 0 => d * m = 0
    OBVIOUS
  <2>3. b = 0 => i = k + 1
    BY <1>11, <2>1
  <2>4. d = 0 => j = 2 * k + 1
    BY <1>12, <2>2
  <2>. QED
    BY <1>4, <1>10, <1>11, <1>12, <2>3, <2>4
<1>14. i = j
  <2>1. PICK x \in Int : x = a + b - d
    OBVIOUS
  <2>2. x * m = a * m + b * m - d * m
    BY <2>1
  <2>3. /\ a * m \in Int /\ b * m \in Int /\ d * m \in Int
        /\ k + 1 = i + b * m /\ 2 * k + 1 = j + d * m
    <3>1. a * m \in Int /\ b * m \in Int /\ d * m \in Int
      OBVIOUS
    <3>2. k + 1 = i + b * m
      BY <1>11
    <3>3. 2 * k + 1 = j + d * m
      BY <1>12
    <3>. QED
      BY ONLY <3>1, <3>2, <3>3
  <2>4. x * m = j - i
    BY <1>9, <2>2, <2>3
  <2>5. x * m < m /\ 0 - m < x * m
    BY <1>1, <1>3, <1>4, <1>13, <2>4
  <2>6. x = 0
    BY <1>4, <2>5, Multiples
  <2>7. x * m = 0
    BY <2>6
  <2>. QED
    BY <2>4, <2>7
<1>15. p[k] = q[k]
  BY <1>11, <1>12, <1>14
<1>16. \A y \in 1 .. k - 1 : p[y] # nullptr /\ q[y] # nullptr
  <2>. SUFFICES ASSUME NEW y \in 1 .. k - 1 PROVE p[y] \in Addr /\ q[y] \in Addr
    BY <1>1
  <2>1. y \in 0 .. N /\ y \in Nat /\ 2 * y \in Nat
    BY <1>10, NodeCount
  <2>. QED
    BY <1>7, <2>1
<1>. QED
  BY <1>10, <1>15, <1>16 DEF is_loop, FastWalk, p, q, N

\* A list of one node that ends: both pointers are null after one round, and
\* there they meet.
LEMMA OneNodeFound ==
    ASSUME node \in Heaps, NEW l \in Lists, first[l] \in Pointer, NEW s,
           Chain(node, first[l], s, nullptr), Len(s) = 1
    PROVE  is_loop(l)
<1>. DEFINE Pos == [t \in Nat |-> IF t = 0 THEN {first[l]} ELSE {nullptr}]
            p == Walk(node, first[l])
            q == FastWalk(first[l])
<1>1. first[l] = s[1] /\ node[s[1]].next = nullptr /\ first[l] # nullptr
      /\ s \in Seq(Addr) /\ 1 \in 1 .. Len(s)
  BY ListAssumption DEF Chain
<1>2. Pos \in [Nat -> SUBSET Pointer] /\ first[l] \in Pos[0]
  BY DEF Pointer
<1>3. ASSUME NEW t \in Nat, NEW a \in Pos[t] PROVE next(a) \in Pos[t + 1]
  <2>1. next(a) = nullptr
    BY <1>1 DEF next, Follow
  <2>2. t + 1 \in Nat /\ t + 1 # 0
    OBVIOUS
  <2>. QED
    BY <2>1, <2>2
<1>4. \A k \in 0 .. N : p[k] \in Pos[k] /\ q[k] \in Pos[2 * k]
  <2>. HIDE DEF Pos
  <2>. QED
    BY <1>2, <1>3, BothWalks
<1>5. 1 \in 1 .. N /\ 1 \in 0 .. N
  <2>1. Len(s) \in 0 .. N
    BY <1>1, PathBound DEF Chain
  <2>. QED
    BY <2>1, NodeCount
<1>. HIDE DEF p, q
<1>6. p[1] = nullptr /\ q[1] = nullptr
  <2>1. Pos[1] = {nullptr} /\ Pos[2] = {nullptr}
    OBVIOUS
  <2>. HIDE DEF Pos
  <2>2. p[1] \in Pos[1] /\ q[1] \in Pos[2 * 1]
    BY <1>4, <1>5
  <2>. QED
    BY <2>1, <2>2
<1>7. \A j \in 1 .. 1 - 1 : p[j] # nullptr /\ q[j] # nullptr
  OBVIOUS
<1>. QED
  BY <1>5, <1>6, <1>7 DEF is_loop, FastWalk, p, q, N

\* In every heap.
LEMMA LoopsAreFound == TypeOK => LoopsFound
<1>. SUFFICES ASSUME TypeOK, NEW l \in Lists, Intact(l)
              PROVE  is_loop(l) <=> Looped(l) \/ length(l) = 1
  BY DEF LoopsFound
<1>. DEFINE s == PathOf(l)
<1>1. node \in Heaps /\ first[l] \in Pointer /\ first[l] # nullptr /\ nullptr \notin Addr
  BY ListAssumption DEF TypeOK, Intact
<1>0. \A n \in Nat : n # 0 /\ n # 1 => n > 1
  OBVIOUS
<1>2. PICK e \in Range(s) \cup {nullptr} : Chain(node, first[l], s, e)
  BY <1>1, PathIsChain DEF PathOf
<1>3. s # << >> /\ s \in Seq(Addr) /\ Range(s) \subseteq Addr
  BY <1>1, <1>2 DEF Chain, Range
<1>4. Looped(l) <=> e # nullptr
  <2>1. Len(s) \in 1 .. Len(s) /\ s[Len(s)] \in Addr
    BY <1>3
  <2>2. node[s[Len(s)]].next = e
    BY <1>2, <2>1 DEF Chain
  <2>. QED
    BY <1>1, <2>1, <2>2 DEF Looped, Last, next, Follow
<1>5. length(l) = Len(s)
  BY DEF length
<1>. HIDE DEF s
<1>6. CASE e = nullptr /\ Len(s) = 1
  BY <1>1, <1>2, <1>5, <1>6, OneNodeFound
<1>7. CASE e = nullptr /\ Len(s) # 1
  <2>1. Len(s) > 1
    <3>1. Len(s) \in Nat /\ Len(s) # 0
      BY <1>3
    <3>2. Len(s) # 1
      BY <1>7
    <3>. QED
      BY ONLY <1>0, <3>1, <3>2
  <2>. QED
    BY <1>1, <1>2, <1>4, <1>5, <1>7, <2>1, NoLoopFound
<1>8. CASE e # nullptr
  BY <1>1, <1>2, <1>4, <1>8, LoopIsFound
<1>. QED
  BY <1>6, <1>7, <1>8

-----------------------------------------------------------------------------
(* The ring.                                                               *)

\* CircularList reads the same definitions of the nodes.
LEMMA RingOperators ==
    /\ \A h, p : R!Path(h, p) = Path(h, p)
    /\ \A h, p : R!Values(h, p) = Values(h, p)
    /\ R!Cardinality(Addr) = N /\ R!SetToSeq(Free) = SetToSeq(Free) /\ R!Blank = Blank
    /\ \A s : R!Last(s) = Last(s)
    /\ \A s : R!Range(s) = Range(s)
    /\ \A s, i, v : R!InsertAt(s, i, v) = InsertAt(s, i, v)
    /\ \A s, i : R!RemoveAt(s, i) = RemoveAt(s, i)
<1>0. R!Cardinality(Addr) = Cardinality(Addr)
  BY DEF R!Cardinality, Cardinality
<1>1. ASSUME NEW h, NEW p PROVE R!Path(h, p) = Path(h, p) /\ R!Values(h, p) = Values(h, p)
  BY DEF R!Values, Values, R!Path, Path, R!Walk, Walk, R!Rounds, Rounds, R!Follow, Follow,
         R!Pointer, Pointer, R!Cardinality, Cardinality
<1>2. R!SetToSeq(Free) = SetToSeq(Free)
  BY DEF R!SetToSeq, SetToSeq, R!IsInjective, IsInjective, R!Cardinality, Cardinality
<1>. QED
  BY <1>0, <1>1, <1>2 DEF N, R!Blank, Blank, R!Last, Last, R!Range, Range, R!InsertAt, InsertAt,
                          R!RemoveAt, RemoveAt

\* The ring is the chain from head back to head, over all nodes allocated.
LEMMA RingIs ==
    ASSUME TypeOK, head \in Pointer, head # nullptr, R!RingClosed
    PROVE  /\ Chain(node, head, R!Round, head)
           /\ R!Round \in Seq(Addr) /\ R!Round # << >> /\ Range(R!Round) = live
           /\ R!Contents = Data(node, R!Round)
<1>. DEFINE s == R!Round
<1>1. node \in Heaps /\ head \in Pointer
  BY DEF TypeOK
<1>2. PICK e \in Range(s) \cup {nullptr} : Chain(node, head, s, e)
  BY <1>1, PathIsChain, RingOperators DEF R!Round
<1>3. s \in Seq(Addr) /\ Range(s) = live /\ node[s[Len(s)]].next = head
  BY <1>2, RingOperators DEF R!RingClosed, Last, Chain
<1>. HIDE DEF s
<1>4. s # << >>
  <2>. SUFFICES ASSUME s = << >> PROVE FALSE
    OBVIOUS
  <2>1. Range(s) = {} /\ head = e
    BY <1>2 DEF Chain, Range
  <2>. QED
    BY <2>1
<1>5. e = head
  <2>1. Len(s) \in 1 .. Len(s)
    BY <1>3, <1>4
  <2>. QED
    BY <1>2, <1>3, <2>1 DEF Chain
<1>6. R!Contents = Data(node, s)
  BY <1>1, <1>2, ValuesIs, RingOperators DEF R!Contents, R!Round
<1>. QED
  BY <1>2, <1>3, <1>4, <1>5, <1>6 DEF s

\* A call leaves the ring t, which has all the nodes that are allocated.
LEMMA RingCall ==
    ASSUME NEW t \in Seq(Addr), Chain(node', head', t, head'), t # << >>, Range(t) = live',
           node' \in Heaps
    PROVE  /\ R!RingClosed' /\ head' \in Pointer /\ head' # nullptr
           /\ R!Contents' = Data(node', t) /\ Values(node', head') = Data(node', t)
<1>1. head' = t[1] /\ 1 \in 1 .. Len(t) /\ Len(t) \in 1 .. Len(t)
  BY DEF Chain
<1>2. head' \in Range(t) /\ head' \in Addr /\ head' \in Pointer /\ head' # nullptr
  BY <1>1, ListAssumption DEF Range, Pointer
<1>3. Path(node', head') = t
  BY <1>2, ChainIsPath
<1>4. node'[t[Len(t)]].next = head'
  BY <1>1 DEF Chain
<1>5. Values(node', head') = Data(node', t)
  BY <1>2, ValuesIs
<1>6. R!RingClosed'
  BY <1>3, <1>4, RingOperators DEF R!RingClosed, R!Round, Last
<1>. QED
  BY <1>2, <1>5, <1>6, RingOperators DEF R!Contents

\* insert on the ring (circular_ll.cpp:57), also in front of head.
LEMMA RingInsertStep ==
    ASSUME TypeOK, head \in Pointer, R!RingClosed, NEW v \in Int, NEW i \in Nat, R!insert(v, i)
    PROVE  /\ node' \in Heaps /\ live' \subseteq Addr /\ head' \in Pointer /\ head' # nullptr
           /\ R!RingClosed'
           /\ i + 1 \in 1 .. Len(R!Contents) + 1
           /\ Values(node', head') = InsertAt(R!Contents, i + 1, v)
           /\ R!Contents' = InsertAt(R!Contents, i + 1, v)
           /\ live' # live
<1>. DEFINE s == R!Round
            n == R!New
            m == Len(s)
            prev == s[IF i = 0 THEN m ELSE i]
            t == InsertAt(s, i + 1, n)
            e2 == IF i = 0 THEN n ELSE head
<1>1. /\ head # nullptr /\ i \in 0 .. m /\ Free # {}
      /\ live' = live \cup {n}
      /\ node' = [node EXCEPT ![n] = [data |-> v, next |-> node[prev].next], ![prev].next = n]
      /\ head' = IF i = 0 THEN n ELSE head
  BY DEF R!insert, R!Free, Free, R!length
<1>2. /\ Chain(node, head, s, head) /\ s \in Seq(Addr) /\ s # << >> /\ Range(s) = live
      /\ R!Contents = Data(node, s)
  BY <1>1, RingIs
<1>3. n \in Addr /\ n \notin live
  BY <1>1, NewIsFree DEF New, R!New, Free, R!Free
<1>4. node \in Heaps /\ live \subseteq Addr
  BY DEF TypeOK
<1>. HIDE DEF s, n
<1>5. /\ m \in Nat /\ m >= 1 /\ head = s[1]
      /\ \A j \in 1 .. m : s[j] \in Addr /\ s[j] # n /\ s[j] \in live
      /\ \A j, k \in 1 .. m : s[j] = s[k] => j = k
      /\ \A j \in 1 .. m : node[s[j]].next = IF j < m THEN s[j + 1] ELSE head
  BY <1>2, <1>3 DEF Chain, Range
<1>6. /\ (IF i = 0 THEN m ELSE i) \in 1 .. m
      /\ prev \in Addr /\ prev # n /\ node[prev].next \in Pointer
      /\ node[prev].next = IF i + 1 <= m THEN s[i + 1] ELSE e2
      /\ \A j \in 1 .. m : s[j] = prev <=> j = IF i = 0 THEN m ELSE i
  <2>1. (IF i = 0 THEN m ELSE i) \in 1 .. m
    BY <1>1, <1>5
  <2>2. prev \in Addr /\ prev # n
    BY <1>5, <2>1
  <2>3. node[prev].next \in Pointer
    BY <1>4, <2>2 DEF Heaps
  <2>4. node[prev].next = IF i + 1 <= m THEN s[i + 1] ELSE e2
    BY <1>1, <1>5, <2>1
  <2>5. \A j \in 1 .. m : s[j] = prev <=> j = IF i = 0 THEN m ELSE i
    BY <1>5, <2>1
  <2>. QED
    BY <2>1, <2>2, <2>3, <2>4, <2>5
<1>. HIDE DEF prev
<1>7. /\ node' \in Heaps /\ node'[n].data = v /\ node'[n].next = node[prev].next
      /\ node'[prev].next = n
      /\ \A a \in Addr \ {n} : node'[a].data = node[a].data
      /\ \A a \in Addr \ {n, prev} : node'[a] = node[a]
  BY <1>1, <1>3, <1>4, <1>6 DEF Heaps, Pointer
<1>8. ASSUME NEW j \in 1 .. m
      PROVE  node'[s[j]].next = IF j = (i + 1) - 1 THEN n ELSE IF j < m THEN s[j + 1] ELSE e2
  <2>1. CASE s[j] = prev
    <3>1. j = IF i = 0 THEN m ELSE i
      BY <1>6, <2>1
    <3>. QED
      BY <1>1, <1>5, <1>7, <2>1, <3>1
  <2>2. CASE s[j] # prev
    <3>1. j # IF i = 0 THEN m ELSE i
      BY <1>6, <2>2
    <3>2. node'[s[j]].next = node[s[j]].next
      BY <1>5, <1>7, <2>2
    <3>. QED
      BY <1>1, <1>5, <3>1, <3>2
  <2>. QED
    BY <2>1, <2>2
<1>9. Chain(node', head', t, head') /\ Range(t) = live' /\ t \in Seq(Addr) /\ t # << >>
  <2>1. n \notin Range(s) /\ i + 1 \in 1 .. Len(s) + 1
    BY <1>1, <1>2, <1>3, <1>5
  <2>2. node'[n].next = IF i + 1 <= Len(s) THEN s[i + 1] ELSE e2
    BY <1>6, <1>7
  <2>3. Chain(node', IF i + 1 = 1 THEN n ELSE head, t, e2)
    BY ONLY <1>2, <1>3, <1>8, <2>1, <2>2, ChainInsert
  <2>4. (i + 1 = 1 <=> i = 0) /\ e2 = head'
    BY <1>1, <1>5
  <2>5. Range(t) = Range(s) \cup {n} /\ t \in Seq(Addr) /\ Len(t) = m + 1
    BY <1>2, <1>3, <2>1, InsertAtRange, InsertAtIs
  <2>. QED
    BY <1>1, <1>2, <1>5, <2>3, <2>4, <2>5
<1>10. Data(node', t) = InsertAt(Data(node, s), i + 1, v)
  <2>1. \A a \in Range(s) : node'[a].data = node[a].data
    BY <1>2, <1>3, <1>4, <1>7
  <2>2. i + 1 \in 1 .. Len(s) + 1
    BY <1>1, <1>5
  <2>. QED
    BY <1>2, <1>3, <1>4, <1>7, <2>1, <2>2, DataInsert
<1>11. i + 1 \in 1 .. Len(R!Contents) + 1
  BY <1>1, <1>2, <1>4, <1>5, DataIs
<1>12. /\ R!RingClosed' /\ head' \in Pointer /\ head' # nullptr
       /\ R!Contents' = Data(node', t) /\ Values(node', head') = Data(node', t)
  <2>. HIDE DEF t
  <2>. QED
    BY <1>7, <1>9, RingCall
<1>. QED
  BY <1>1, <1>2, <1>3, <1>4, <1>7, <1>10, <1>11, <1>12

\* del on a ring of more than one node (circular_ll.cpp:84), also of head.
LEMMA RingDeleteStep ==
    ASSUME TypeOK, head \in Pointer, R!RingClosed, NEW i \in Nat, R!del(i), R!length > 1
    PROVE  /\ node' \in Heaps /\ live' \subseteq Addr /\ head' \in Pointer /\ head' # nullptr
           /\ R!RingClosed'
           /\ i \in 1 .. Len(R!Contents)
           /\ Values(node', head') = RemoveAt(R!Contents, i)
           /\ R!Contents' = RemoveAt(R!Contents, i)
<1>. DEFINE s == R!Round
            m == Len(s)
            p == s[i]
            k == IF i = 1 THEN m ELSE i - 1
            prev == s[k]
            after == node[p].next
            t == RemoveAt(s, i)
            e2 == IF i = 1 THEN after ELSE head
<1>1. /\ head # nullptr /\ i \in 1 .. m /\ m > 1
      /\ live' = live \ {p}
      /\ node' = [[node EXCEPT ![prev].next = after] EXCEPT ![p] = Blank]
      /\ head' = IF i = 1 THEN after ELSE head
  BY RingOperators DEF R!del, R!length
<1>2. /\ Chain(node, head, s, head) /\ s \in Seq(Addr) /\ s # << >> /\ Range(s) = live
      /\ R!Contents = Data(node, s)
  BY <1>1, RingIs
<1>3. /\ node \in Heaps /\ live \subseteq Addr /\ Blank \in [data : Int, next : Pointer]
      /\ \A a \in Addr : node[a] \in [data : Int, next : Pointer]
  BY DEF TypeOK, Blank, Heaps, Pointer
<1>. HIDE DEF s
<1>4. /\ m \in Nat /\ head = s[1] /\ k \in 1 .. m /\ k # i
      /\ \A j \in 1 .. m : s[j] \in Addr
      /\ \A j, x \in 1 .. m : s[j] = s[x] => j = x
      /\ \A j \in 1 .. m : node[s[j]].next = IF j < m THEN s[j + 1] ELSE head
  BY <1>1, <1>2 DEF Chain
<1>5. /\ p \in Addr /\ prev \in Addr /\ prev # p
      /\ after = IF i < m THEN s[i + 1] ELSE head
      /\ after \in Pointer
      /\ \A j \in 1 .. m : (s[j] = p <=> j = i) /\ (s[j] = prev <=> j = k)
  <2>1. p \in Addr /\ prev \in Addr /\ prev # p
    BY <1>1, <1>4
  <2>2. after = IF i < m THEN s[i + 1] ELSE head
    BY <1>1, <1>4
  <2>3. after \in Pointer
    BY <1>3, <2>1
  <2>4. \A j \in 1 .. m : (s[j] = p <=> j = i) /\ (s[j] = prev <=> j = k)
    BY <1>1, <1>4
  <2>. QED
    BY <2>1, <2>2, <2>3, <2>4
<1>. HIDE DEF p, prev, after
<1>6. /\ node' \in Heaps
      /\ \A a \in Addr : node'[a] = IF a = p THEN Blank
                                    ELSE IF a = prev THEN [node[prev] EXCEPT !.next = after]
                                    ELSE node[a]
  BY <1>1, <1>3, <1>5 DEF Heaps
<1>7. ASSUME NEW j \in (1 .. m) \ {i}
      PROVE  /\ node'[s[j]].data = node[s[j]].data
             /\ node'[s[j]].next = IF j = k THEN after ELSE node[s[j]].next
  <2>1. s[j] \in Addr /\ s[j] # p /\ (s[j] = prev <=> j = k)
    BY <1>4, <1>5
  <2>. QED
    BY <1>3, <1>6, <2>1
<1>8. ASSUME NEW j \in (1 .. m) \ {i}
      PROVE  node'[s[j]].next = IF j = m \/ (j = i - 1 /\ i = m) THEN e2
                                ELSE IF j = i - 1 THEN s[i + 1] ELSE s[j + 1]
  <2>1. j \in 1 .. m /\ j # i /\ i \in Nat /\ j \in Nat
    BY <1>1, <1>4
  <2>2. node[s[j]].next = IF j < m THEN s[j + 1] ELSE head
    BY <1>4, <2>1
  <2>3. node'[s[j]].next = IF j = k THEN after ELSE node[s[j]].next
    BY <1>7
  <2>4. CASE i = 1
    <3>1. k = m /\ after = s[i + 1] /\ e2 = after /\ ~ (j = i - 1)
      BY <1>1, <1>5, <2>1, <2>4
    <3>. QED
      BY <1>4, <2>1, <2>2, <2>3, <3>1
  <2>5. CASE i # 1
    <3>1. k = i - 1 /\ e2 = head
      BY <2>5
    <3>2. CASE j = i - 1
      <4>1. node'[s[j]].next = after /\ (i = m <=> ~ (i < m)) /\ j # m
        BY <1>1, <1>4, <2>1, <2>3, <3>1, <3>2
      <4>. QED
        BY <1>5, <2>1, <3>1, <3>2, <4>1
    <3>3. CASE j # i - 1
      <4>1. node'[s[j]].next = node[s[j]].next
        BY <2>3, <3>1, <3>3
      <4>. QED
        BY <1>4, <2>1, <2>2, <3>1, <3>3, <4>1
    <3>. QED
      BY <3>2, <3>3
  <2>. QED
    BY <2>4, <2>5
<1>9. Chain(node', head', t, head') /\ Range(t) = live' /\ t \in Seq(Addr) /\ t # << >>
  <2>1. Chain(node', IF i > 1 THEN head ELSE IF Len(s) > 1 THEN s[2] ELSE e2, t, e2)
    <3>1. Chain(node, head, s, head) /\ i \in 1 .. Len(s)
      BY <1>1, <1>2
    <3>. HIDE DEF e2, k
    <3>. QED
      BY ONLY <3>1, <1>8, ChainRemove
  <2>2. head' = e2 /\ head' = IF i > 1 THEN head ELSE IF Len(s) > 1 THEN s[2] ELSE e2
    BY <1>1, <1>4, <1>5
  <2>3. Range(t) = Range(s) \ {p} /\ t \in Seq(Addr) /\ Len(t) = m - 1
    BY <1>1, <1>2, <1>4, RemoveAtRange, RemoveAtIs DEF p
  <2>. QED
    BY <1>1, <1>2, <1>4, <2>1, <2>2, <2>3
<1>10. Data(node', t) = RemoveAt(Data(node, s), i)
  <2>1. node \in Heaps /\ node' \in Heaps /\ s \in Seq(Addr) /\ i \in 1 .. Len(s)
    BY <1>1, <1>2, <1>3, <1>6
  <2>2. \A j \in (1 .. Len(s)) \ {i} : node'[s[j]].data = node[s[j]].data
    BY <1>7
  <2>. QED
    BY ONLY <2>1, <2>2, DataRemove
<1>11. i \in 1 .. Len(R!Contents)
  BY <1>1, <1>2, <1>3, DataIs
<1>12. /\ R!RingClosed' /\ head' \in Pointer /\ head' # nullptr
       /\ R!Contents' = Data(node', t) /\ Values(node', head') = Data(node', t)
  <2>. HIDE DEF t
  <2>. QED
    BY <1>6, <1>9, RingCall
<1>. QED
  BY <1>1, <1>2, <1>3, <1>6, <1>10, <1>11, <1>12

\* The constructor from an array closes the ring.
LEMMA RingFromArrayStep ==
    ASSUME TypeOK, NEW n \in 1 .. N, NEW A \in [1 .. n -> Val], R!FromArray(A)
    PROVE  /\ node' \in Heaps /\ live' \subseteq Addr /\ head' \in Pointer /\ head' # nullptr
           /\ R!RingClosed'
           /\ head = nullptr /\ R!Contents = << >> /\ R!Contents' = A
<1>. DEFINE a == SetToSeq(Free)
            X == {a[i] : i \in 1 .. n}
            Has(b, i) == a[i] = b
<1>0. n \in Nat /\ n >= 1 /\ Len(A) = n
  BY NodeCount
<1>1. /\ head = nullptr /\ n \in 1 .. Len(a)
      /\ live' = X /\ head' = a[1]
      /\ node' = [b \in Addr |->
                   IF \E i \in 1 .. n : Has(b, i)
                   THEN [data |-> A[CHOOSE i \in 1 .. n : Has(b, i)],
                         next |-> a[IF (CHOOSE i \in 1 .. n : Has(b, i)) = n THEN 1
                                    ELSE (CHOOSE i \in 1 .. n : Has(b, i)) + 1]]
                   ELSE node[b]]
  BY <1>0, RingOperators DEF R!FromArray, R!Free, Free
<1>2. /\ a \in Seq(Addr) /\ \A i, j \in 1 .. Len(a) : a[i] = a[j] => i = j
      /\ \A i \in 1 .. Len(a) : a[i] \in Addr
  BY FreeIs
<1>. HIDE DEF a
<1>3. node \in Heaps /\ Val \subseteq Int
  BY ListAssumption DEF TypeOK
<1>4. ASSUME NEW j \in 1 .. n
      PROVE  /\ a[j] \in Addr /\ node'[a[j]] \in [data : Int, next : Pointer]
             /\ node'[a[j]].data = A[j]
             /\ node'[a[j]].next = IF j = n THEN a[1] ELSE a[j + 1]
  <2>1. j \in 1 .. Len(a) /\ a[j] \in Addr /\ Has(a[j], j)
    BY <1>1, <1>2
  <2>2. (CHOOSE i \in 1 .. n : Has(a[j], i)) = j
    BY <1>1, <1>2, <2>1
  <2>3. node'[a[j]] = [data |-> A[j], next |-> a[IF j = n THEN 1 ELSE j + 1]]
    BY <1>1, <2>1, <2>2
  <2>4. A[j] \in Int /\ a[IF j = n THEN 1 ELSE j + 1] \in Addr
    <3>1. A[j] \in Val
      OBVIOUS
    <3>2. (IF j = n THEN 1 ELSE j + 1) \in 1 .. Len(a)
      BY <1>0, <1>1
    <3>. QED
      BY <1>2, <1>3, <3>1, <3>2
  <2>. QED
    BY <2>1, <2>3, <2>4 DEF Pointer
<1>5. ASSUME NEW b \in Addr, \A j \in 1 .. n : a[j] # b PROVE node'[b] = node[b]
  BY <1>1, <1>5
<1>6. node' \in Heaps
  <2>1. ASSUME NEW b \in Addr PROVE node'[b] \in [data : Int, next : Pointer]
    <3>1. CASE \E j \in 1 .. n : a[j] = b
      <4>1. PICK j \in 1 .. n : a[j] = b
        BY <3>1
      <4>. QED
        BY <1>4, <4>1
    <3>2. CASE \A j \in 1 .. n : a[j] # b
      BY <1>3, <1>5, <3>2 DEF Heaps
    <3>. QED
      BY <3>1, <3>2
  <2>2. DOMAIN node' = Addr /\ node' = [b \in Addr |-> node'[b]]
    BY <1>1
  <2>. QED
    BY <2>1, <2>2 DEF Heaps
<1>7. PICK t \in Seq(Addr) : /\ Len(t) = n /\ \A j \in 1 .. n : t[j] = a[j]
                             /\ \A i, j \in 1 .. n : t[i] = t[j] => i = j
                             /\ Range(t) = X
  BY ONLY <1>1, <1>2, FrontIs
<1>8. Chain(node', head', t, head') /\ Data(node', t) = A /\ t # << >>
  <2>1. ASSUME NEW j \in 1 .. n
        PROVE  /\ node'[t[j]].data = A[j]
               /\ node'[t[j]].next = IF j = n THEN t[1] ELSE t[j + 1]
    BY <1>0, <1>4, <1>7
  <2>2. A \in [1 .. n -> Int]
    BY <1>3
  <2>3. head' = t[1] /\ t # << >>
    BY <1>0, <1>1, <1>7
  <2>4. ASSUME NEW i \in 1 .. Len(t)
        PROVE  node'[t[i]].next = IF i < Len(t) THEN t[i + 1] ELSE head'
    BY <1>0, <1>7, <2>1, <2>3
  <2>5. Chain(node', head', t, head')
    BY <1>7, <2>3, <2>4 DEF Chain
  <2>6. Data(node', t) = A
    BY <1>7, <2>1 DEF Data
  <2>. QED
    BY <2>3, <2>5, <2>6
<1>9. Range(t) = live' /\ live' \subseteq Addr
  BY <1>1, <1>4, <1>7
<1>10. /\ R!RingClosed' /\ head' \in Pointer /\ head' # nullptr
       /\ R!Contents' = Data(node', t)
  BY <1>6, <1>7, <1>8, <1>9, RingCall
<1>11. R!Contents = << >>
  <2>1. Chain(node, head, << >>, nullptr) /\ nullptr \in Pointer
    BY <1>1 DEF Chain, Pointer
  <2>2. R!Contents = Data(node, << >>)
    BY <1>1, <1>3, <2>1, ValuesIs, RingOperators DEF R!Contents
  <2>. QED
    BY <2>2 DEF Data
<1>. QED
  BY <1>1, <1>6, <1>8, <1>9, <1>10, <1>11

-----------------------------------------------------------------------------
(* The two programs.                                                       *)

\* The null pointer leads nowhere.
LEMMA EmptyPath ==
    ASSUME NEW h \in Heaps
    PROVE  Path(h, nullptr) = << >> /\ Values(h, nullptr) = << >>
<1>1. Chain(h, nullptr, << >>, nullptr) /\ nullptr \in Pointer
  BY DEF Chain, Pointer
<1>2. Path(h, nullptr) = << >>
  BY <1>1, ChainIsPath
<1>3. Values(h, nullptr) = Data(h, << >>)
  BY <1>1, ValuesIs
<1>. QED
  BY <1>2, <1>3 DEF Data

\* The invariant holds at the start of either program ...
LEMMA ListsInvHolds == ListsInit => ListsInv
<1>. SUFFICES ASSUME ListsInit PROVE ListsInv
  OBVIOUS
<1>1. /\ first = [l \in Lists |-> nullptr] /\ node = [a \in Addr |-> Blank]
      /\ live = {} /\ given = {} /\ head = nullptr
      /\ listClass \in {"LinkedList", "CircularLinkedList"}
  BY DEF ListsInit, Init
<1>2. TypeOK /\ node \in Heaps /\ nullptr \in Pointer
  BY <1>1 DEF TypeOK, Heaps, Blank, Pointer
<1>3. \A l \in Lists : PathOf(l) = << >>
  BY <1>1, <1>2, EmptyPath DEF PathOf
<1>4. WellLinked
  BY <1>3 DEF WellLinked, Range
<1>5. R!RingClosed
  BY <1>1 DEF R!RingClosed
<1>. QED
  BY <1>1, <1>2, <1>4, <1>5 DEF ListsInv

\* A call of LinkedList, and what it does to the sequences.
LEMMA ListCall ==
    ASSUME TypeOK, WellLinked, Next
    PROVE  TypeOK' /\ WellLinked'
<1>. USE ListAssumption, NodeCount
<1>1. PICK l \in Lists :
        \/ \E n \in 1 .. Cardinality(Addr) : \E A \in [1 .. n -> Val] : FromArray(l, A)
        \/ \E i \in 0 .. Cardinality(Addr), v \in Val : insert(l, i, v)
        \/ \E v \in Val : sorted_insert(l, v)
        \/ \E i \in 1 .. Cardinality(Addr) : del(l, i)
        \/ reverse(l)
        \/ \E m \in Lists : concat(l, m) \/ merge(l, m)
        \/ Destroy(l)
        \/ CloseLoop(l)
  BY DEF Next
<1>2. ASSUME NEW n \in 1 .. N, NEW A \in [1 .. n -> Val], FromArray(l, A) PROVE TypeOK' /\ WellLinked'
  BY <1>2, FromArrayStep
<1>3. ASSUME NEW i \in 0 .. N, NEW v \in Val, insert(l, i, v) PROVE TypeOK' /\ WellLinked'
  <2>1. i \in Nat /\ v \in Int
    OBVIOUS
  <2>. QED
    BY <1>3, <2>1, InsertStep
<1>4. ASSUME NEW v \in Val, sorted_insert(l, v) PROVE TypeOK' /\ WellLinked'
  <2>1. v \in Int
    OBVIOUS
  <2>2. PICK k \in 1 .. Len(Contents(l)) : insert(l, k, v)
    BY <1>4, <2>1, SortedInsertIsInsert
  <2>3. k \in Nat
    OBVIOUS
  <2>. QED
    BY <2>1, <2>2, <2>3, InsertStep
<1>5. ASSUME NEW i \in 1 .. N, del(l, i) PROVE TypeOK' /\ WellLinked'
  <2>1. i \in Nat
    OBVIOUS
  <2>. QED
    BY <1>5, <2>1, DeleteStep
<1>6. CASE reverse(l)
  BY <1>6, ReverseStep
<1>7. ASSUME NEW m \in Lists, concat(l, m) \/ merge(l, m) PROVE TypeOK' /\ WellLinked'
  BY <1>7, ConcatStep, MergeStep
<1>8. CASE Destroy(l)
  BY <1>8, DestroyStep
<1>9. CASE CloseLoop(l)
  BY <1>9, CloseLoopStep
<1>. QED
  BY <1>1, <1>2, <1>3, <1>4, <1>5, <1>6, <1>7, <1>8, <1>9 DEF N

\* A call of CircularLinkedList that the caller makes.
LEMMA RingCallKeeps ==
    ASSUME TypeOK, head \in Pointer, R!RingClosed, R!Next
    PROVE  /\ node' \in Heaps /\ live' \subseteq Addr /\ head' \in Pointer /\ R!RingClosed'
<1>. USE ListAssumption, NodeCount
<1>1. CASE R!Build
  <2>1. PICK n \in 1 .. N : \E A \in [1 .. n -> Val] : R!FromArray(A)
    BY <1>1, RingOperators DEF R!Build, R!Lengths
  <2>. QED
    BY <2>1, RingFromArrayStep
<1>2. ASSUME NEW i \in 0 .. N, NEW v \in Val, R!insert(v, i)
      PROVE  node' \in Heaps /\ live' \subseteq Addr /\ head' \in Pointer /\ R!RingClosed'
  <2>1. i \in Nat /\ v \in Int
    OBVIOUS
  <2>. QED
    BY <1>2, <2>1, RingInsertStep
<1>3. ASSUME NEW i \in 1 .. N, R!length > 1, R!del(i)
      PROVE  node' \in Heaps /\ live' \subseteq Addr /\ head' \in Pointer /\ R!RingClosed'
  <2>1. i \in Nat
    OBVIOUS
  <2>. QED
    BY <1>3, <2>1, RingDeleteStep
<1>. QED
  BY <1>1, <1>2, <1>3, RingOperators DEF R!Next, R!Lengths

\* ... and every call of either program keeps it.
LEMMA ListsInvKept == ListsInv /\ [ListsNext]_allVars => ListsInv'
<1>. SUFFICES ASSUME ListsInv, [ListsNext]_allVars PROVE ListsInv'
  OBVIOUS
<1>1. TypeOK /\ WellLinked /\ R!RingClosed /\ head \in Pointer
  BY DEF ListsInv
<1>2. CASE listClass = "LinkedList" /\ Next /\ UNCHANGED << listClass, head >>
  <2>1. TypeOK' /\ WellLinked'
    BY <1>1, <1>2, ListCall
  <2>2. head' = nullptr /\ listClass' = "LinkedList"
    BY <1>2 DEF ListsInv
  <2>3. R!RingClosed'
    BY <2>2 DEF R!RingClosed
  <2>. QED
    BY <1>1, <1>2, <2>1, <2>2, <2>3 DEF ListsInv
<1>3. CASE listClass = "CircularLinkedList" /\ R!Next /\ UNCHANGED << listClass, first, given >>
  <2>1. node' \in Heaps /\ live' \subseteq Addr /\ head' \in Pointer /\ R!RingClosed'
    BY <1>1, <1>3, RingCallKeeps
  <2>2. TypeOK' /\ listClass' = "CircularLinkedList" /\ given' = {}
        /\ \A l \in Lists : first'[l] = nullptr
    BY <1>1, <1>3, <2>1 DEF TypeOK, ListsInv
  <2>3. \A l \in Lists : PathOf(l)' = << >>
    BY <2>1, <2>2, EmptyPath DEF PathOf
  <2>4. WellLinked'
    BY <2>3 DEF WellLinked, Range
  <2>. QED
    BY <2>1, <2>2, <2>4 DEF ListsInv
<1>4. CASE UNCHANGED allVars
  <2>1. /\ first' = first /\ node' = node /\ live' = live /\ given' = given
        /\ listClass' = listClass /\ head' = head
    BY <1>4 DEF allVars, vars
  <2>2. TypeOK'
    BY <1>1, <2>1 DEF TypeOK
  <2>3. WellLinked'
    BY <1>1, <2>1 DEF WellLinked, PathOf, next
  <2>4. R!RingClosed'
    BY <1>1, <2>1 DEF R!RingClosed, R!Round
  <2>. QED
    BY <2>1, <2>2, <2>3, <2>4 DEF ListsInv
<1>. QED
  BY <1>2, <1>3, <1>4 DEF ListsNext

\* What the calls rely on holds in every state, whatever the number of lists
\* and nodes.
THEOREM ListsInvariant == ListsSpec => []ListsInv
  BY ListsInvHolds, ListsInvKept, PTL DEF ListsSpec

\* The lists in use reach no deleted node and no node of one another and end
\* at null, is_loop reports the lists that were bent into a loop and those of
\* one node and no others, and the ring is closed over every node that is
\* allocated (linkedlist_adt.cpp:136, 202, 213, 274, circular_ll.cpp:57, 84).
THEOREM NodesStayLinked == ListsSpec => []NodesLinked
<1>1. ListsInv => NodesLinked
  BY LoopsAreFound DEF ListsInv, NodesLinked
<1>. QED
  BY <1>1, ListsInvariant, PTL

-----------------------------------------------------------------------------
(* Where values go.                                                        *)

\* sorted_insert into a sorted list leaves it sorted.
LEMMA SortedStaysSorted ==
    ASSUME TypeOK, WellLinked, NEW l \in Lists, NEW v \in Int, sorted_insert(l, v),
           is_sorted(Contents(l))
    PROVE  is_sorted(Contents(l)')
<1>. DEFINE c == Contents(l)
            d == Contents(l)'
<1>1. c \in Seq(Int)
  <2>1. PathOf(l) \in Seq(Addr) /\ c = Data(node, PathOf(l)) /\ node \in Heaps
    BY ListIs DEF sorted_insert, Usable, TypeOK
  <2>. QED
    BY <2>1, DataIs
<1>2. PICK k \in 1 .. Len(c) : /\ insert(l, k, v)
                               /\ \A j \in 1 .. k : c[j] < v
                               /\ k < Len(c) => v <= c[k + 1]
  BY SortedInsertIsInsert
<1>3. k \in Nat /\ k + 1 \in 1 .. Len(c) + 1 /\ Len(c) \in Nat
  BY <1>1
<1>4. d = InsertAt(c, k + 1, v)
  BY <1>2, <1>3, InsertStep
<1>5. \A i \in 1 .. Len(c) - 1 : c[i] <= c[i + 1]
  BY DEF is_sorted
<1>. HIDE DEF c, d
<1>6. /\ Len(d) = Len(c) + 1
      /\ \A j \in 1 .. Len(c) + 1 :
            d[j] = IF j < k + 1 THEN c[j] ELSE IF j = k + 1 THEN v ELSE c[j - 1]
  <2>1. /\ Len(InsertAt(c, k + 1, v)) = Len(c) + 1
        /\ \A j \in 1 .. Len(c) + 1 :
              InsertAt(c, k + 1, v)[j] =
                 IF j < k + 1 THEN c[j] ELSE IF j = k + 1 THEN v ELSE c[j - 1]
    <3>1. PICK m : m = k + 1
      OBVIOUS
    <3>2. c \in Seq(Int) /\ m \in 1 .. Len(c) + 1 /\ v \in Int
      BY <1>1, <1>3, <3>1
    <3>3. /\ Len(InsertAt(c, m, v)) = Len(c) + 1
          /\ \A j \in 1 .. Len(c) + 1 :
                InsertAt(c, m, v)[j] = IF j < m THEN c[j] ELSE IF j = m THEN v ELSE c[j - 1]
      <4>1. PICK T : T = Int
        OBVIOUS
      <4>2. c \in Seq(T) /\ m \in 1 .. Len(c) + 1 /\ v \in T
        BY <3>2, <4>1
      <4>. QED
        BY ONLY <4>2, InsertAtIs
    <3>. QED
      BY <3>1, <3>3
  <2>. QED
    BY <1>4, <2>1
<1>7. ASSUME NEW i \in 1 .. Len(d) - 1 PROVE d[i] <= d[i + 1]
  <2>1. i \in 1 .. Len(c) /\ i \in 1 .. Len(c) + 1 /\ i + 1 \in 1 .. Len(c) + 1 /\ (i + 1) - 1 = i
    BY <1>3, <1>6
  <2>2. c[i] \in Int /\ c[k] \in Int
    BY <1>1, <2>1
  <2>3. CASE i < k
    <3>1. i \in 1 .. Len(c) - 1 /\ d[i] = c[i] /\ d[i + 1] = c[i + 1]
      BY <1>3, <1>6, <2>1, <2>3
    <3>. QED
      BY <1>5, <3>1
  <2>4. CASE i = k
    <3>1. d[i] = c[i] /\ d[i + 1] = v
      BY <1>3, <1>6, <2>1, <2>4
    <3>2. c[i] < v
      BY <1>2, <2>4
    <3>. QED
      BY <2>2, <3>1, <3>2
  <2>5. CASE i = k + 1
    <3>1. d[i] = v /\ d[i + 1] = c[i] /\ k < Len(c)
      BY <1>3, <1>6, <2>1, <2>5
    <3>. QED
      BY <1>2, <2>5, <3>1
  <2>6. CASE i > k + 1
    <3>1. i - 1 \in 1 .. Len(c) - 1 /\ d[i] = c[i - 1] /\ d[i + 1] = c[i]
      BY <1>3, <1>6, <2>1, <2>6
    <3>2. c[i - 1] <= c[(i - 1) + 1] /\ (i - 1) + 1 = i
      BY <1>5, <2>1, <3>1
    <3>. QED
      BY <3>1, <3>2
  <2>. QED
    BY <1>3, <2>1, <2>3, <2>4, <2>5, <2>6
<1>. QED
  BY <1>7 DEF is_sorted, d

\* del on a ring of one node is not a call the caller makes.
LEMMA RingNotEmptied ==
    ASSUME ListsInv, [ListsNext]_allVars, NEW i \in Nat, R!del(i)
    PROVE  R!length > 1
<1>. SUFFICES ASSUME ~ (R!length > 1) PROVE FALSE
  OBVIOUS
<1>. DEFINE s == R!Round
<1>1. TypeOK /\ R!RingClosed /\ head \in Pointer /\ head # nullptr /\ i \in 1 .. Len(s)
      /\ live' = live \ {s[i]} /\ listClass # "LinkedList"
  BY DEF ListsInv, R!del, R!length
<1>2. s[i] \in live
  <2>1. s \in Seq(Addr) /\ Range(s) = live
    BY <1>1, RingIs
  <2>. QED
    BY <1>1, <2>1 DEF Range
<1>3. live' # live /\ R!Next
  <2>1. live' # live
    BY <1>1, <1>2
  <2>. QED
    BY <1>1, <2>1 DEF ListsNext, allVars, vars
<1>4. CASE R!Build
  BY <1>1, <1>4 DEF R!Build, R!FromArray
<1>5. ASSUME NEW k \in 0 .. N, NEW v \in Val, R!insert(v, k) PROVE FALSE
  BY <1>1, <1>2, <1>5 DEF R!insert
<1>. QED
  BY <1>3, <1>4, <1>5, RingOperators DEF R!Next

\* insert and del find the node before the one their index means, in the list
\* that counts from 0 and in the ring whose first node the last one precedes;
\* sorted_insert keeps the order (linkedlist_adt.cpp:94, 120, 136,
\* circular_ll.cpp:61, 92).
THEOREM PositionsAreKept == ListsSpec => PositionsKept
<1>1. ListsInv =>
        \A l \in Lists :
          /\ \A i \in 0 .. Cardinality(Addr) :
               /\ \A v \in Val :
                    insert(l, i, v) => Contents(l)' = InsertAt(Contents(l), i + 1, v)
               /\ del(l, i) => Contents(l)' = RemoveAt(Contents(l), i)
          /\ \A v \in Val :
               sorted_insert(l, v) /\ is_sorted(Contents(l)) => is_sorted(Contents(l)')
  <2>. SUFFICES ASSUME TypeOK, WellLinked, NEW l \in Lists
                PROVE  /\ \A i \in 0 .. Cardinality(Addr) :
                            /\ \A v \in Val :
                                 insert(l, i, v) => Contents(l)' = InsertAt(Contents(l), i + 1, v)
                            /\ del(l, i) => Contents(l)' = RemoveAt(Contents(l), i)
                       /\ \A v \in Val :
                            sorted_insert(l, v) /\ is_sorted(Contents(l)) => is_sorted(Contents(l)')
    BY DEF ListsInv
  <2>1. ASSUME NEW i \in 0 .. Cardinality(Addr), NEW v \in Val, insert(l, i, v)
        PROVE  Contents(l)' = InsertAt(Contents(l), i + 1, v)
    <3>1. i \in Nat /\ v \in Int
      BY NodeCount, ListAssumption DEF N
    <3>. QED
      BY <2>1, <3>1, InsertStep
  <2>2. ASSUME NEW i \in 0 .. Cardinality(Addr), del(l, i)
        PROVE  Contents(l)' = RemoveAt(Contents(l), i)
    <3>1. i \in Nat
      BY NodeCount DEF N
    <3>. QED
      BY <2>2, <3>1, DeleteStep
  <2>3. ASSUME NEW v \in Val, sorted_insert(l, v), is_sorted(Contents(l))
        PROVE  is_sorted(Contents(l)')
    <3>1. v \in Int
      BY ListAssumption
    <3>. QED
      BY <2>3, <3>1, SortedStaysSorted
  <2>. QED
    BY <2>1, <2>2, <2>3
<1>2. ListsInv /\ [ListsNext]_allVars =>
        \A i \in 0 .. Cardinality(Addr) :
          /\ \A v \in Val :
               R!insert(v, i) => Values(node', head') = InsertAt(R!Contents, i + 1, v)
          /\ R!del(i) => Values(node', head') = RemoveAt(R!Contents, i)
  <2>. SUFFICES ASSUME ListsInv, [ListsNext]_allVars, NEW i \in 0 .. Cardinality(Addr)
                PROVE  /\ \A v \in Val :
                            R!insert(v, i) => Values(node', head') = InsertAt(R!Contents, i + 1, v)
                       /\ R!del(i) => Values(node', head') = RemoveAt(R!Contents, i)
    OBVIOUS
  <2>1. TypeOK /\ head \in Pointer /\ R!RingClosed /\ i \in Nat
    BY NodeCount DEF ListsInv, N
  <2>2. ASSUME NEW v \in Val, R!insert(v, i)
        PROVE  Values(node', head') = InsertAt(R!Contents, i + 1, v)
    <3>1. v \in Int
      BY ListAssumption
    <3>. QED
      BY <2>1, <2>2, <3>1, RingInsertStep
  <2>3. ASSUME R!del(i) PROVE Values(node', head') = RemoveAt(R!Contents, i)
    BY <2>1, <2>3, RingNotEmptied, RingDeleteStep
  <2>. QED
    BY <2>2, <2>3
<1>3. ListsSpec => CallsByPosition
  BY <1>1, ListsInvariant, PTL DEF CallsByPosition
<1>4. ListsInv /\ [ListsNext]_allVars =>
        \A i \in 0 .. R!Cardinality(Addr) :
          /\ \A v \in Val :
               R!insert(v, i) => R!Values(node', head') = R!InsertAt(R!Contents, i + 1, v)
          /\ R!del(i) => R!Values(node', head') = R!RemoveAt(R!Contents, i)
  <2>1. R!Cardinality(Addr) = Cardinality(Addr)
    BY RingOperators DEF N
  <2>. QED
    BY <1>2, <2>1, RingOperators
<1>5. ListsSpec => R!CallsByPosition
  BY <1>4, ListsInvariant, PTL DEF R!CallsByPosition, ListsSpec
<1>. QED
  BY <1>3, <1>5 DEF PositionsKept

-----------------------------------------------------------------------------
(* The sequences.                                                          *)

\* What the sequences are in a reachable state.
LEMMA HeldIs ==
    ASSUME ListsInv
    PROVE  /\ held[Ring] = R!Contents
           /\ \A l \in Lists : held[l] = IF l \in given THEN << >> ELSE Contents(l)
           /\ listClass = "LinkedList" => held[Ring] = << >>
           /\ DOMAIN held = Lists \cup {Ring}
<1>1. node \in Heaps /\ (listClass = "LinkedList" => head = nullptr)
  BY DEF ListsInv, TypeOK
<1>2. listClass = "LinkedList" => R!Contents = << >>
  BY <1>1, EmptyPath, RingOperators DEF R!Contents
<1>. QED
  BY <1>2, RingAssumption DEF held, Contents

\* A call on one list.
LEMMA OneBecomes ==
    ASSUME ListsInv, ListsInv', listClass = "LinkedList", listClass' = "LinkedList",
           NEW l \in Lists, NEW s, LeavesOthers(l),
           \/ given' = given /\ l \notin given /\ Contents(l)' = s
           \/ given' = given \cup {l} /\ s = << >>
    PROVE  held' = [held EXCEPT ![l] = s]
<1>1. /\ held[Ring] = << >> /\ DOMAIN held = Lists \cup {Ring}
      /\ \A m \in Lists : held[m] = IF m \in given THEN << >> ELSE Contents(m)
  BY HeldIs
<1>2. /\ held'[Ring] = << >>
      /\ held' = [x \in Lists \cup {Ring} |-> held'[x]]
      /\ \A m \in Lists : held'[m] = IF m \in given' THEN << >> ELSE Contents(m)'
  <2>1. R!Contents' = << >>
    BY EmptyPath, RingOperators DEF ListsInv, TypeOK, R!Contents
  <2>. QED
    BY <2>1, RingAssumption DEF held, Contents
<1>3. ASSUME NEW m \in Lists, m # l PROVE held'[m] = held[m]
  <2>1. m \in given' <=> m \in given
    BY <1>3
  <2>. QED
    BY <1>1, <1>2, <1>3, <2>1 DEF LeavesOthers
<1>4. held'[l] = s
  BY <1>2
<1>5. held = [x \in Lists \cup {Ring} |-> held[x]]
  BY DEF held, Contents
<1>6. \A x \in Lists \cup {Ring} : held'[x] = [held EXCEPT ![l] = s][x]
  BY <1>1, <1>2, <1>3, <1>4, RingAssumption
<1>7. [held EXCEPT ![l] = s] = [x \in Lists \cup {Ring} |-> [held EXCEPT ![l] = s][x]]
  BY <1>5
<1>. QED
  BY <1>2, <1>6, <1>7

\* A call that takes the values of a second one over.
LEMMA TwoBecome ==
    ASSUME ListsInv, ListsInv', listClass = "LinkedList", listClass' = "LinkedList",
           NEW l \in Lists, NEW m \in Lists, l # m, LeavesOthers(l),
           l \notin given, given' = given \cup {m}
    PROVE  held' = [held EXCEPT ![l] = Contents(l)', ![m] = << >>]
<1>1. /\ held[Ring] = << >> /\ DOMAIN held = Lists \cup {Ring}
      /\ \A k \in Lists : held[k] = IF k \in given THEN << >> ELSE Contents(k)
  BY HeldIs
<1>2. /\ held'[Ring] = << >>
      /\ held' = [x \in Lists \cup {Ring} |-> held'[x]]
      /\ \A k \in Lists : held'[k] = IF k \in given' THEN << >> ELSE Contents(k)'
  <2>1. R!Contents' = << >>
    BY EmptyPath, RingOperators DEF ListsInv, TypeOK, R!Contents
  <2>. QED
    BY <2>1, RingAssumption DEF held, Contents
<1>3. ASSUME NEW k \in Lists, k # l, k # m PROVE held'[k] = held[k]
  <2>1. k \in given' <=> k \in given
    BY <1>3
  <2>. QED
    BY <1>1, <1>2, <1>3, <2>1 DEF LeavesOthers
<1>4. held'[l] = Contents(l)' /\ held'[m] = << >>
  BY <1>2
<1>5. held = [x \in Lists \cup {Ring} |-> held[x]]
  BY DEF held, Contents
<1>. DEFINE g == [held EXCEPT ![l] = Contents(l)', ![m] = << >>]
<1>6. \A x \in Lists \cup {Ring} : held'[x] = g[x]
  BY <1>1, <1>2, <1>3, <1>4, RingAssumption
<1>7. g = [x \in Lists \cup {Ring} |-> g[x]]
  BY <1>5
<1>. QED
  BY <1>2, <1>6, <1>7

\* A call on the ring.
LEMMA RingBecomes ==
    ASSUME ListsInv, ListsInv', listClass = "CircularLinkedList", listClass' = "CircularLinkedList"
    PROVE  held' = [held EXCEPT ![Ring] = R!Contents']
<1>1. DOMAIN held = Lists \cup {Ring} /\ \A l \in Lists : held[l] = << >>
  <2>1. \A l \in Lists : Contents(l) = << >>
    BY EmptyPath DEF ListsInv, TypeOK, Contents
  <2>. QED
    BY <2>1, HeldIs
<1>2. /\ held'[Ring] = R!Contents'
      /\ held' = [x \in Lists \cup {Ring} |-> held'[x]]
      /\ \A l \in Lists : held'[l] = << >>
  <2>1. \A l \in Lists : Contents(l)' = << >>
    BY EmptyPath DEF ListsInv, TypeOK, Contents
  <2>. QED
    BY <2>1, RingAssumption DEF held, Contents
<1>3. held = [x \in Lists \cup {Ring} |-> held[x]]
  BY DEF held, Contents
<1>. DEFINE g == [held EXCEPT ![Ring] = R!Contents']
<1>4. \A x \in Lists \cup {Ring} : held'[x] = g[x]
  BY <1>1, <1>2, RingAssumption
<1>5. g = [x \in Lists \cup {Ring} |-> g[x]]
  BY <1>3
<1>. QED
  BY <1>2, <1>4, <1>5

\* The four ways in which the sequences change are steps of SeqList: a value
\* is put in ...
LEMMA IsInsert ==
    ASSUME NEW l \in Lists \cup {Ring}, NEW v \in Val, NEW i \in 1 .. Len(held[l]) + 1,
           held' = [held EXCEPT ![l] = InsertAt(held[l], i, v)]
    PROVE  Q!Next
<1>1. Q!Insert(l, v)
  BY DEF Q!Insert, Q!Becomes, Q!InsertAt, InsertAt
<1>. QED
  BY <1>1 DEF Q!Next

\* ... a value is taken out ...
LEMMA IsDelete ==
    ASSUME NEW l \in Lists \cup {Ring}, NEW i \in 1 .. Len(held[l]), held[l] \in Seq(Int),
           held' = [held EXCEPT ![l] = RemoveAt(held[l], i)]
    PROVE  Q!Next
<1>1. i \in DOMAIN held[l]
  OBVIOUS
<1>2. Q!Delete(l)
  BY <1>1 DEF Q!Delete, Q!Becomes, Q!RemoveAt, RemoveAt
<1>. QED
  BY <1>2 DEF Q!Next

\* ... an empty list gets all its values at once ...
LEMMA IsFill ==
    ASSUME NEW l \in Lists \cup {Ring}, NEW A \in Seq(Val), held[l] = << >>,
           DOMAIN held = Lists \cup {Ring}, held' = [held EXCEPT ![l] = A]
    PROVE  Q!Next
<1>1. held'[l] = A
  OBVIOUS
<1>2. Q!Fill(l)
  BY <1>1 DEF Q!Fill, Q!Becomes
<1>. QED
  BY <1>2 DEF Q!Next

\* ... or one list takes the values of another in.
LEMMA IsMerge ==
    ASSUME NEW l \in Lists, NEW m \in Lists, l # m, DOMAIN held = Lists \cup {Ring}, NEW r,
           held' = [held EXCEPT ![l] = r, ![m] = << >>],
           MergedOf(r, held[l], held[m])
    PROVE  Q!Next
<1>. DEFINE d == held[l]
            e == held[m]
<1>1. held'[l] = r /\ Len(d) \in Nat
  BY DEF MergedOf
<1>2. /\ d # << >> /\ e # << >>
      /\ \A i, j \in DOMAIN r : i < j => r[i] <= r[j]
  BY DEF MergedOf
<1>3. Q!Last(d) = Last(d) /\ Q!Last(e) = Last(e)
  BY DEF Q!Last, Last
<1>4. \E f \in Q!Bijection(DOMAIN r, KeptPlaces(d, e)) : \A i \in DOMAIN r : r[i] = (d \o e)[f[i]]
  BY DEF MergedOf, Q!Bijection, Q!Injection, Q!IsInjective, Q!Surjection,
         Bijection, Injection, IsInjective, Surjection
<1>5. Q!Merge(l, m)
  <2>. DEFINE both == d \o e
              K == { i \in DOMAIN both :
                       IF i <= Len(d) THEN i = Len(d) \/ both[i] < Q!Last(e)
                                      ELSE i = Len(both) \/ both[i] <= Q!Last(d) }
  <2>1. KeptPlaces(d, e) = K
    BY <1>3 DEF KeptPlaces
  <2>2. \E f \in Q!Bijection(DOMAIN held'[l], K) :
           \A i \in DOMAIN held'[l] : held'[l][i] = both[f[i]]
    BY <1>1, <1>4, <2>1
  <2>3. /\ held' = [held EXCEPT ![l] = held'[l], ![m] = << >>]
        /\ \A i, j \in DOMAIN held'[l] : i < j => held'[l][i] <= held'[l][j]
    BY <1>1, <1>2
  <2>. QED
    BY ONLY <1>2, <2>2, <2>3 DEF Q!Merge, d, e, both, K
<1>6. l \in Lists \cup {Ring} /\ m \in (Lists \cup {Ring}) \ {l}
  OBVIOUS
<1>. QED
  BY <1>5, <1>6 DEF Q!Next

\* Every call on the lists is one of these or none ...
LEMMA ListCallIsNext ==
    ASSUME ListsInv, ListsInv', listClass = "LinkedList", listClass' = "LinkedList", Next
    PROVE  Q!Next
<1>. USE ListAssumption, NodeCount
<1>1. TypeOK /\ WellLinked /\ TypeOK'
  BY DEF ListsInv
<1>2. /\ \A l \in Lists : held[l] = IF l \in given THEN << >> ELSE Contents(l)
      /\ DOMAIN held = Lists \cup {Ring}
  BY HeldIs
<1>3. PICK l \in Lists :
        \/ \E n \in 1 .. Cardinality(Addr) : \E A \in [1 .. n -> Val] : FromArray(l, A)
        \/ \E i \in 0 .. Cardinality(Addr), v \in Val : insert(l, i, v)
        \/ \E v \in Val : sorted_insert(l, v)
        \/ \E i \in 1 .. Cardinality(Addr) : del(l, i)
        \/ reverse(l)
        \/ \E m \in Lists : concat(l, m) \/ merge(l, m)
        \/ Destroy(l)
        \/ CloseLoop(l)
  BY DEF Next
<1>4. l \in Lists \cup {Ring}
  OBVIOUS
<1>5. ASSUME l \notin given PROVE held[l] = Contents(l) /\ held[l] \in Seq(Int)
  <2>1. PathOf(l) \in Seq(Addr) /\ Contents(l) = Data(node, PathOf(l)) /\ node \in Heaps
    BY <1>1, <1>5, ListIs DEF TypeOK
  <2>. QED
    BY <1>2, <1>5, <2>1, DataIs
<1>6. ASSUME NEW n \in 1 .. N, NEW A \in [1 .. n -> Val], FromArray(l, A) PROVE Q!Next
  <2>1. /\ LeavesOthers(l) /\ given' = given /\ l \notin given
        /\ Contents(l) = << >> /\ Contents(l)' = A
    BY <1>1, <1>6, FromArrayStep
  <2>2. held' = [held EXCEPT ![l] = A]
    BY <2>1, OneBecomes
  <2>3. A \in Seq(Val)
    OBVIOUS
  <2>. QED
    BY <1>2, <1>4, <1>5, <2>1, <2>2, <2>3, IsFill
<1>7. ASSUME NEW i \in Nat, NEW v \in Val, insert(l, i, v) PROVE Q!Next
  <2>0. v \in Int
    OBVIOUS
  <2>1. /\ LeavesOthers(l) /\ given' = given /\ l \notin given
        /\ i + 1 \in 1 .. Len(Contents(l)) + 1
        /\ Contents(l)' = InsertAt(Contents(l), i + 1, v)
    BY <1>1, <1>7, <2>0, InsertStep
  <2>2. held' = [held EXCEPT ![l] = InsertAt(held[l], i + 1, v)]
    BY <1>5, <2>1, OneBecomes
  <2>3. i + 1 \in 1 .. Len(held[l]) + 1
    BY <1>5, <2>1
  <2>. QED
    BY <1>4, <2>2, <2>3, IsInsert
<1>8. ASSUME NEW v \in Val, sorted_insert(l, v) PROVE Q!Next
  <2>1. v \in Int
    OBVIOUS
  <2>2. PICK k \in 1 .. Len(Contents(l)) : insert(l, k, v)
    BY <1>1, <1>8, <2>1, SortedInsertIsInsert
  <2>3. k \in Nat
    OBVIOUS
  <2>. QED
    BY <1>7, <2>2, <2>3
<1>9. ASSUME NEW i \in 1 .. N, del(l, i) PROVE Q!Next
  <2>0. i \in Nat
    OBVIOUS
  <2>1. /\ LeavesOthers(l) /\ given' = given /\ l \notin given
        /\ i \in 1 .. Len(Contents(l))
        /\ Contents(l)' = RemoveAt(Contents(l), i)
    BY <1>1, <1>9, <2>0, DeleteStep
  <2>2. held' = [held EXCEPT ![l] = RemoveAt(held[l], i)]
    BY <1>5, <2>1, OneBecomes
  <2>3. i \in 1 .. Len(held[l]) /\ held[l] \in Seq(Int)
    BY <1>5, <2>1
  <2>. QED
    BY <1>4, <2>2, <2>3, IsDelete
<1>10. ASSUME reverse(l) PROVE Q!Next
  <2>1. /\ LeavesOthers(l) /\ given' = given /\ l \notin given
        /\ Contents(l)' = Reverse(Contents(l))
    BY <1>1, <1>10, ReverseStep
  <2>2. held' = [held EXCEPT ![l] = Reverse(held[l])]
    BY <1>5, <2>1, OneBecomes
  <2>3. Q!Turn(l)
    BY <2>2 DEF Q!Turn, Q!Becomes, Q!Reverse, Reverse
  <2>. QED
    BY <1>4, <2>3 DEF Q!Next
<1>11. ASSUME NEW m \in Lists, concat(l, m) PROVE Q!Next
  <2>1. /\ LeavesOthers(l) /\ l # m /\ l \notin given /\ m \notin given
        /\ given' = given \cup {m} /\ Contents(l)' = Contents(l) \o Contents(m)
    BY <1>1, <1>11, ConcatStep
  <2>2. held' = [held EXCEPT ![l] = held[l] \o held[m], ![m] = << >>]
    BY <1>2, <2>1, TwoBecome
  <2>3. Q!Concat(l, m) /\ m \in (Lists \cup {Ring}) \ {l}
    BY <2>1, <2>2 DEF Q!Concat
  <2>. QED
    BY <1>4, <2>3 DEF Q!Next
<1>12. ASSUME NEW m \in Lists, merge(l, m) PROVE Q!Next
  <2>1. /\ LeavesOthers(l) /\ l # m /\ l \notin given /\ m \notin given
        /\ given' = given \cup {m}
        /\ MergedOf(Contents(l)', Contents(l), Contents(m))
    BY <1>1, <1>12, MergeStep
  <2>2. held' = [held EXCEPT ![l] = Contents(l)', ![m] = << >>]
    BY <2>1, TwoBecome
  <2>3. MergedOf(Contents(l)', held[l], held[m])
    BY <1>2, <2>1
  <2>. QED
    BY <1>2, <2>1, <2>2, <2>3, IsMerge
<1>13. ASSUME Destroy(l) PROVE Q!Next
  <2>1. /\ LeavesOthers(l) /\ given' = given /\ l \notin given
        /\ Contents(l)' = << >>
    BY <1>1, <1>13, DestroyStep
  <2>2. held' = [held EXCEPT ![l] = << >>]
    BY <2>1, OneBecomes
  <2>3. Q!Clear(l)
    BY <2>2 DEF Q!Clear, Q!Becomes
  <2>. QED
    BY <1>4, <2>3 DEF Q!Next
<1>14. ASSUME CloseLoop(l) PROVE Q!Next
  <2>1. LeavesOthers(l) /\ given' = given \cup {l}
    BY <1>1, <1>14, CloseLoopStep
  <2>2. held' = [held EXCEPT ![l] = << >>]
    BY <2>1, OneBecomes
  <2>3. Q!Clear(l)
    BY <2>2 DEF Q!Clear, Q!Becomes
  <2>. QED
    BY <1>4, <2>3 DEF Q!Next
<1>15. \A i \in 0 .. N : i \in Nat
  OBVIOUS
<1>. QED
  BY <1>3, <1>6, <1>7, <1>8, <1>9, <1>10, <1>11, <1>12, <1>13, <1>14, <1>15 DEF N

\* ... and so is every call on the ring.
LEMMA RingCallIsNext ==
    ASSUME ListsInv, ListsInv', listClass = "CircularLinkedList", listClass' = "CircularLinkedList", R!Next
    PROVE  Q!Next
<1>. USE ListAssumption, NodeCount
<1>1. TypeOK /\ head \in Pointer /\ R!RingClosed
  BY DEF ListsInv
<1>2. held[Ring] = R!Contents /\ DOMAIN held = Lists \cup {Ring} /\ Ring \in Lists \cup {Ring}
  BY HeldIs
<1>3. held' = [held EXCEPT ![Ring] = R!Contents']
  BY RingBecomes
<1>4. CASE R!Build
  <2>1. PICK n \in 1 .. N : \E A \in [1 .. n -> Val] : R!FromArray(A)
    BY <1>4, RingOperators DEF R!Build, R!Lengths
  <2>2. PICK A \in [1 .. n -> Val] : R!FromArray(A)
    BY <2>1
  <2>3. R!Contents = << >> /\ R!Contents' = A /\ A \in Seq(Val)
    BY <1>1, <2>2, RingFromArrayStep
  <2>. QED
    BY <1>2, <1>3, <2>3, IsFill
<1>5. ASSUME NEW i \in 0 .. N, NEW v \in Val, R!insert(v, i) PROVE Q!Next
  <2>1. i \in Nat /\ v \in Int
    OBVIOUS
  <2>2. /\ i + 1 \in 1 .. Len(R!Contents) + 1
        /\ R!Contents' = InsertAt(R!Contents, i + 1, v)
    BY <1>1, <1>5, <2>1, RingInsertStep
  <2>. QED
    BY <1>2, <1>3, <2>2, IsInsert
<1>6. ASSUME NEW i \in 1 .. N, R!length > 1, R!del(i) PROVE Q!Next
  <2>1. i \in Nat /\ head # nullptr
    BY <1>6 DEF R!del
  <2>2. /\ i \in 1 .. Len(R!Contents)
        /\ R!Contents' = RemoveAt(R!Contents, i)
    BY <1>1, <1>6, <2>1, RingDeleteStep
  <2>3. R!Contents \in Seq(Int)
    BY <1>1, <2>1, RingIs, DataIs DEF TypeOK
  <2>. QED
    BY <1>2, <1>3, <2>2, <2>3, IsDelete
<1>. QED
  BY <1>4, <1>5, <1>6, RingOperators DEF R!Next, R!Lengths

\* Whatever nodes the lists share on the way, each call does to the sequences
\* exactly what SeqList says, and to no list but its own: reverse and concat
\* keep every value, merge of two sorted lists is sorted and loses, of what is
\* left of one list when the other is used up, all values but the last
\* (linkedlist_adt.cpp:94, 120, 136, 160, 202, 213, 248, circular_ll.cpp:57, 84).
THEOREM ListsImplementSeqList == ListsSpec => ImplementsSeqList
<1>1. ListsInit => Q!Init
  <2>. SUFFICES ASSUME ListsInit PROVE Q!Init
    OBVIOUS
  <2>1. ListsInv /\ given = {} /\ head = nullptr /\ \A l \in Lists : first[l] = nullptr
    BY ListsInvHolds DEF ListsInit, Init
  <2>2. \A l \in Lists : Contents(l) = << >>
    BY <2>1, EmptyPath DEF ListsInv, TypeOK, Contents
  <2>3. R!Contents = << >>
    BY <2>1, EmptyPath, RingOperators DEF ListsInv, TypeOK, R!Contents
  <2>4. \A x \in Lists \cup {Ring} : held[x] = << >>
    BY <2>1, <2>2, <2>3, HeldIs
  <2>5. held = [x \in Lists \cup {Ring} |-> held[x]]
    BY DEF held, Contents
  <2>. QED
    BY <2>4, <2>5 DEF Q!Init
<1>2. ListsInv /\ ListsInv' /\ [ListsNext]_allVars => [Q!Next]_held
  <2>. SUFFICES ASSUME ListsInv, ListsInv', [ListsNext]_allVars PROVE [Q!Next]_held
    OBVIOUS
  <2>1. CASE listClass = "LinkedList" /\ Next /\ UNCHANGED << listClass, head >>
    BY <2>1, ListCallIsNext
  <2>2. CASE listClass = "CircularLinkedList" /\ R!Next /\ UNCHANGED << listClass, first, given >>
    BY <2>2, RingCallIsNext
  <2>3. CASE UNCHANGED allVars
    <3>1. first' = first /\ node' = node /\ given' = given /\ head' = head
      BY <2>3 DEF allVars, vars
    <3>2. held' = held
      BY <3>1 DEF held, Contents, R!Contents
    <3>. QED
      BY <3>2
  <2>. QED
    BY <2>1, <2>2, <2>3 DEF ListsNext
<1>. QED
  BY <1>1, <1>2, ListsInvariant, PTL DEF ListsSpec, ImplementsSeqList, Q!Spec

=============================================================================

------------------------------- MODULE Basics -------------------------------
(***************************************************************************)
(* Facts about numbers, finite sets and sequences that the proofs about    *)
(* the arrays, the trees and the lists use.                                *)
(***************************************************************************)
EXTENDS Integers, SequencesExt, FiniteSetTheorems, SequenceTheorems,
        WellFoundedInduction, TLAPS

-----------------------------------------------------------------------------
(* Induction: a set of numbers has a least element, because the intervals  *)
(* below them are ordered by inclusion.                                    *)

\* A set of numbers that is not empty has a least element.
LEMMA LeastNat ==
    ASSUME NEW T \in SUBSET Nat, T # {}
    PROVE  \E n \in T : \A m \in T : n <= m
<1>. DEFINE U == { 0 .. n : n \in T }
<1>1. U \subseteq FiniteSubsetsOf(Nat) /\ U # {}
  <2>1. \A n \in T : 0 .. n \in SUBSET Nat /\ IsFiniteSet(0 .. n)
    BY FS_Interval
  <2>. QED
    BY <2>1 DEF FiniteSubsetsOf
<1>2. \E x \in U : \A y \in U : ~ (<<y, x>> \in StrictSubsetOrdering(Nat))
  BY ONLY <1>1, FS_StrictSubsetOrderingWellFounded, WFMin
<1>3. PICK n \in T : \A m \in T : ~ (<<0 .. m, 0 .. n>> \in StrictSubsetOrdering(Nat))
  BY <1>2
<1>4. ASSUME NEW m \in T, m < n PROVE FALSE
  <2>1. 0 .. m \subseteq 0 .. n /\ n \in 0 .. n /\ n \notin 0 .. m /\ 0 .. m \subseteq Nat /\ 0 .. n \subseteq Nat
    BY <1>4
  <2>. QED
    BY <1>3, <2>1 DEF StrictSubsetOrdering
<1>. QED
  BY <1>4

\* Induction, for a property given as a set.
LEMMA NatInduct ==
    ASSUME NEW T, 0 \in T, \A n \in Nat : n \in T => n + 1 \in T
    PROVE  Nat \subseteq T
<1>. SUFFICES ASSUME Nat \ T # {} PROVE FALSE
  OBVIOUS
<1>1. PICK n \in Nat \ T : \A m \in Nat \ T : n <= m
  BY LeastNat
<1>2. n # 0 /\ n - 1 \in Nat
  BY <1>1
<1>. QED
  BY <1>1, <1>2

\* Induction up to a number.
LEMMA InductTo ==
    ASSUME NEW n \in Nat, NEW J, 0 \in J,
           \A k \in 1 .. n : k - 1 \in J => k \in J
    PROVE  \A k \in 0 .. n : k \in J
<1>. DEFINE K == {k \in Nat : k <= n => k \in J}
<1>1. 0 \in K
  OBVIOUS
<1>2. \A k \in Nat : k \in K => k + 1 \in K
  <2>. SUFFICES ASSUME NEW k \in Nat, k \in K, k + 1 <= n PROVE k + 1 \in J
    OBVIOUS
  <2>1. k + 1 \in 1 .. n /\ (k + 1) - 1 \in J
    OBVIOUS
  <2>. QED
    BY ONLY <2>1, \A i \in 1 .. n : i - 1 \in J => i \in J
<1>. HIDE DEF K
<1>3. Nat \subseteq K
  BY <1>1, <1>2, NatInduct
<1>. QED
  BY <1>3 DEF K

-----------------------------------------------------------------------------
(* What the operators on sequences do, element by element.                 *)

\* The elements of a sequence, by their places.
LEMMA RangeIs ==
    ASSUME NEW T, NEW s \in Seq(T)
    PROVE  Range(s) = {s[i] : i \in 1 .. Len(s)}
<1>1. DOMAIN s = 1 .. Len(s)
  OBVIOUS
<1>. QED
  BY <1>1 DEF Range

\* InsertAt shifts what is behind the place by one.
LEMMA InsertAtIs ==
    ASSUME NEW T, NEW s \in Seq(T), NEW e \in T, NEW i \in 1 .. Len(s) + 1
    PROVE  /\ InsertAt(s, i, e) \in Seq(T)
           /\ Len(InsertAt(s, i, e)) = Len(s) + 1
           /\ \A j \in 1 .. Len(s) + 1 :
                 InsertAt(s, i, e)[j] =
                    IF j < i THEN s[j] ELSE IF j = i THEN e ELSE s[j - 1]
<1>. DEFINE front == SubSeq(s, 1, i - 1)
            back  == SubSeq(s, i, Len(s))
            most  == front \o <<e>>
            all   == most \o back
<1>1. /\ front \in Seq(T) /\ Len(front) = i - 1
      /\ \A j \in 1 .. i - 1 : front[j] = s[j]
  OBVIOUS
<1>2. /\ back \in Seq(T) /\ Len(back) = Len(s) + 1 - i
      /\ \A j \in 1 .. Len(s) + 1 - i : back[j] = s[i + j - 1]
  OBVIOUS
<1>3. InsertAt(s, i, e) = all
  BY DEF InsertAt
<1>4. <<e>> \in Seq(T) /\ Len(<<e>>) = 1 /\ <<e>>[1] = e
  OBVIOUS
<1>. HIDE DEF front, back
<1>5. /\ most \in Seq(T) /\ Len(most) = i
      /\ \A j \in 1 .. i : most[j] = IF j < i THEN s[j] ELSE e
  BY <1>1, <1>4, ConcatProperties
<1>. HIDE DEF most
<1>6. /\ all \in Seq(T) /\ Len(all) = Len(most) + Len(back)
      /\ \A j \in 1 .. Len(most) + Len(back) :
            all[j] = IF j <= Len(most) THEN most[j] ELSE back[j - Len(most)]
  BY ONLY <1>2, <1>5, ConcatProperties
<1>. HIDE DEF all
<1>7. ASSUME NEW j \in 1 .. Len(s) + 1
      PROVE  all[j] = IF j < i THEN s[j] ELSE IF j = i THEN e ELSE s[j - 1]
  <2>1. CASE j <= i
    BY <1>2, <1>5, <1>6, <2>1
  <2>2. CASE j > i
    <3>1. j - i \in 1 .. Len(s) + 1 - i /\ i + (j - i) - 1 = j - 1
      BY <2>2
    <3>. QED
      BY <1>2, <1>5, <1>6, <2>2, <3>1
  <2>. QED
    BY <2>1, <2>2
<1>. QED
  BY <1>2, <1>3, <1>5, <1>6, <1>7

\* It adds one element.
LEMMA InsertAtRange ==
    ASSUME NEW T, NEW s \in Seq(T), NEW e \in T, NEW i \in 1 .. Len(s) + 1
    PROVE  Range(InsertAt(s, i, e)) = Range(s) \cup {e}
<1>. DEFINE t == InsertAt(s, i, e)
<1>1. /\ t \in Seq(T) /\ Len(t) = Len(s) + 1
      /\ \A j \in 1 .. Len(s) + 1 : t[j] = IF j < i THEN s[j] ELSE IF j = i THEN e ELSE s[j - 1]
  BY InsertAtIs, SMTT(30)
<1>. HIDE DEF t
<1>2. /\ Range(t) = {t[j] : j \in 1 .. Len(s) + 1}
      /\ Range(s) = {s[j] : j \in 1 .. Len(s)}
  <2>1. Range(s) = {s[j] : j \in 1 .. Len(s)} /\ Range(t) = {t[j] : j \in 1 .. Len(t)}
    BY <1>1, RangeIs
  <2>. QED
    BY <1>1, <2>1
<1>3. ASSUME NEW j \in 1 .. Len(s) + 1 PROVE t[j] \in Range(s) \cup {e}
  <2>1. CASE j < i
    BY <1>1, <1>2, <2>1
  <2>2. CASE j > i
    <3>1. j - 1 \in 1 .. Len(s) /\ t[j] = s[j - 1]
      BY <1>1, <2>2
    <3>. QED
      BY <1>2, <3>1
  <2>. QED
    BY <1>1, <2>1, <2>2
<1>4. ASSUME NEW j \in 1 .. Len(s) PROVE s[j] \in Range(t)
  <2>1. CASE j < i
    BY <1>1, <1>2, <2>1
  <2>2. CASE j >= i
    <3>1. j + 1 \in 1 .. Len(s) + 1 /\ t[j + 1] = s[j]
      BY <1>1, <2>2
    <3>. QED
      BY <1>2, <3>1
  <2>. QED
    BY <2>1, <2>2
<1>5. e \in Range(t)
  BY <1>1, <1>2
<1>. QED
  BY <1>2, <1>3, <1>4, <1>5 DEF t

\* A sequence that is shifted in this way is InsertAt's.
LEMMA InsertAtEqual ==
    ASSUME NEW T, NEW s \in Seq(T), NEW e \in T, NEW i \in 1 .. Len(s) + 1,
           NEW t \in Seq(T), Len(t) = Len(s) + 1,
           \A j \in 1 .. Len(s) + 1 :
              t[j] = IF j < i THEN s[j] ELSE IF j = i THEN e ELSE s[j - 1]
    PROVE  t = InsertAt(s, i, e)
<1>. DEFINE u == InsertAt(s, i, e)
<1>1. /\ u \in Seq(T) /\ Len(u) = Len(s) + 1
      /\ \A j \in 1 .. Len(s) + 1 :
            u[j] = IF j < i THEN s[j] ELSE IF j = i THEN e ELSE s[j - 1]
  BY InsertAtIs
<1>. HIDE DEF u
<1>2. \A j \in 1 .. Len(t) : t[j] = u[j]
  BY <1>1
<1>3. t = u
  BY <1>1, <1>2, SeqEqual
<1>. QED
  BY <1>3 DEF u

\* RemoveAt shifts what is behind the place back by one.
LEMMA RemoveAtIs ==
    ASSUME NEW T, NEW s \in Seq(T), NEW i \in 1 .. Len(s)
    PROVE  /\ RemoveAt(s, i) \in Seq(T)
           /\ Len(RemoveAt(s, i)) = Len(s) - 1
           /\ \A j \in 1 .. Len(s) - 1 :
                 RemoveAt(s, i)[j] = IF j < i THEN s[j] ELSE s[j + 1]
<1>. DEFINE front == SubSeq(s, 1, i - 1)
            back  == SubSeq(s, i + 1, Len(s))
            all   == front \o back
<1>1. /\ front \in Seq(T) /\ Len(front) = i - 1
      /\ \A j \in 1 .. i - 1 : front[j] = s[j]
  OBVIOUS
<1>2. /\ back \in Seq(T) /\ Len(back) = Len(s) - i
      /\ \A j \in 1 .. Len(s) - i : back[j] = s[i + j]
  OBVIOUS
<1>3. RemoveAt(s, i) = all
  BY DEF RemoveAt
<1>. HIDE DEF front, back
<1>4. /\ all \in Seq(T) /\ Len(all) = Len(s) - 1
      /\ \A j \in 1 .. Len(s) - 1 : all[j] = IF j <= i - 1 THEN front[j] ELSE back[j - (i - 1)]
  BY <1>1, <1>2, ConcatProperties
<1>. HIDE DEF all
<1>5. ASSUME NEW j \in 1 .. Len(s) - 1
      PROVE  all[j] = IF j < i THEN s[j] ELSE s[j + 1]
  <2>1. CASE j < i
    BY <1>1, <1>4, <2>1
  <2>2. CASE j >= i
    <3>1. j - (i - 1) \in 1 .. Len(s) - i /\ i + (j - (i - 1)) = j + 1
      BY <2>2
    <3>. QED
      BY <1>2, <1>4, <2>2, <3>1
  <2>. QED
    BY <2>1, <2>2
<1>. QED
  BY <1>3, <1>4, <1>5

\* Where no element occurs twice it removes one element.
LEMMA RemoveAtRange ==
    ASSUME NEW T, NEW s \in Seq(T), NEW i \in 1 .. Len(s),
           \A j, k \in 1 .. Len(s) : s[j] = s[k] => j = k
    PROVE  Range(RemoveAt(s, i)) = Range(s) \ {s[i]}
<1>. DEFINE t == RemoveAt(s, i)
<1>1. /\ t \in Seq(T) /\ Len(t) = Len(s) - 1
      /\ \A j \in 1 .. Len(s) - 1 : t[j] = IF j < i THEN s[j] ELSE s[j + 1]
  BY RemoveAtIs
<1>. HIDE DEF t
<1>2. /\ Range(t) = {t[j] : j \in 1 .. Len(s) - 1}
      /\ Range(s) = {s[j] : j \in 1 .. Len(s)}
  <2>1. Range(s) = {s[j] : j \in 1 .. Len(s)} /\ Range(t) = {t[j] : j \in 1 .. Len(t)}
    BY <1>1, RangeIs
  <2>. QED
    BY <1>1, <2>1
<1>3. ASSUME NEW j \in 1 .. Len(s) - 1 PROVE t[j] \in Range(s) \ {s[i]}
  <2>1. CASE j < i
    BY <1>1, <1>2, <2>1
  <2>2. CASE j >= i
    <3>1. j + 1 \in 1 .. Len(s) /\ t[j] = s[j + 1] /\ j + 1 # i
      BY <1>1, <2>2
    <3>. QED
      BY <1>2, <3>1
  <2>. QED
    BY <2>1, <2>2
<1>4. ASSUME NEW j \in (1 .. Len(s)) \ {i} PROVE s[j] \in Range(t)
  <2>1. CASE j < i
    BY <1>1, <1>2, <2>1
  <2>2. CASE j > i
    <3>1. j - 1 \in 1 .. Len(s) - 1 /\ t[j - 1] = s[j]
      BY <1>1, <2>2
    <3>. QED
      BY <1>2, <3>1
  <2>. QED
    BY <2>1, <2>2
<1>5. Range(t) = Range(s) \ {s[i]}
  <2>1. ASSUME NEW x \in Range(t) PROVE x \in Range(s) \ {s[i]}
    BY ONLY <1>2, <1>3, x \in Range(t)
  <2>2. ASSUME NEW x \in Range(s) \ {s[i]} PROVE x \in Range(t)
    <3>1. PICK j \in 1 .. Len(s) : x = s[j]
      BY ONLY <1>2, x \in Range(s) \ {s[i]}
    <3>. QED
      BY <1>4, <3>1
  <2>. QED
    BY <2>1, <2>2
<1>. QED
  BY <1>5 DEF t

\* Reverse has the elements from the back.
LEMMA ReverseIs ==
    ASSUME NEW T, NEW s \in Seq(T)
    PROVE  /\ Reverse(s) \in Seq(T)
           /\ Len(Reverse(s)) = Len(s)
           /\ \A j \in 1 .. Len(s) : Reverse(s)[j] = s[Len(s) - j + 1]
<1>1. Len(s) \in Nat
  OBVIOUS
<1>2. ASSUME NEW j \in 1 .. Len(s) PROVE Len(s) - j + 1 \in 1 .. Len(s)
  BY <1>1
<1>3. Reverse(s) \in [1 .. Len(s) -> T]
  BY <1>2, ElementOfSeq DEF Reverse
<1>. QED
  BY <1>1, <1>3 DEF Reverse

\* SetToSeq has every element of the set once.
LEMMA SetToSeqIs ==
    ASSUME NEW S, IsFiniteSet(S)
    PROVE  /\ SetToSeq(S) \in Seq(S) /\ Len(SetToSeq(S)) = Cardinality(S)
           /\ \A i, j \in 1 .. Cardinality(S) : SetToSeq(S)[i] = SetToSeq(S)[j] => i = j
<1>. DEFINE n == Cardinality(S)
<1>1. n \in Nat /\ \E f \in [1 .. n -> S] : IsInjective(f)
  BY FS_CardinalityType DEF ExistsBijection, Bijection, Injection
<1>. HIDE DEF n
<1>2. SetToSeq(S) \in [1 .. n -> S] /\ IsInjective(SetToSeq(S))
  BY <1>1 DEF SetToSeq, n
<1>3. SetToSeq(S) \in Seq(S) /\ Len(SetToSeq(S)) = n
  BY <1>1, <1>2
<1>. QED
  BY <1>2, <1>3 DEF IsInjective, n

\* Append keeps the elements and adds one behind them.
LEMMA AppendIs ==
    ASSUME NEW T, NEW s \in Seq(T), NEW e \in T
    PROVE  /\ Append(s, e) \in Seq(T) /\ Len(Append(s, e)) = Len(s) + 1
           /\ \A i \in 1 .. Len(s) : Append(s, e)[i] = s[i]
           /\ Append(s, e)[Len(s) + 1] = e
           /\ Range(Append(s, e)) = Range(s) \cup {e}
<1>. DEFINE t == Append(s, e)
<1>1. /\ t \in Seq(T) /\ Len(t) = Len(s) + 1
      /\ \A i \in 1 .. Len(s) : t[i] = s[i]
      /\ t[Len(s) + 1] = e
  OBVIOUS
<1>. HIDE DEF t
<1>2. /\ Range(t) = {t[i] : i \in 1 .. Len(s) + 1} /\ Range(s) = {s[i] : i \in 1 .. Len(s)}
  BY <1>1, RangeIs
<1>3. \A i \in 1 .. Len(s) + 1 : i \in 1 .. Len(s) \/ i = Len(s) + 1
  OBVIOUS
<1>4. Range(t) = Range(s) \cup {e}
  BY <1>1, <1>2, <1>3
<1>. QED
  BY <1>1, <1>4 DEF t

\* A sequence no element of which is greater than the next one.
LEMMA SortedIs ==
    ASSUME NEW s \in Seq(Int), \A i \in 1 .. Len(s) - 1 : s[i] <= s[i + 1]
    PROVE  \A i, j \in 1 .. Len(s) : i <= j => s[i] <= s[j]
<1>. SUFFICES ASSUME NEW i \in 1 .. Len(s) PROVE \A j \in 1 .. Len(s) : i <= j => s[i] <= s[j]
  OBVIOUS
<1>. DEFINE K == {k \in Nat : i + k <= Len(s) => s[i] <= s[i + k]}
<1>1. 0 \in K
  OBVIOUS
<1>2. ASSUME NEW k \in Nat, k \in K, i + (k + 1) <= Len(s) PROVE s[i] <= s[i + (k + 1)]
  <2>1. i + k \in 1 .. Len(s) - 1 /\ (i + k) + 1 = i + (k + 1)
    BY <1>2
  <2>2. s[i] \in Int /\ s[i + k] \in Int /\ s[i + (k + 1)] \in Int /\ s[i] <= s[i + k]
    BY <1>2, <2>1
  <2>3. s[i + k] <= s[i + (k + 1)]
    BY <2>1
  <2>. QED
    BY <2>2, <2>3
<1>3. \A k \in Nat : k \in K => k + 1 \in K
  BY <1>2
<1>4. Nat \subseteq K
  <2>. HIDE DEF K
  <2>. QED
    BY <1>1, <1>3, NatInduct
<1>5. ASSUME NEW j \in 1 .. Len(s), i <= j PROVE s[i] <= s[j]
  <2>1. j - i \in Nat /\ i + (j - i) = j /\ j <= Len(s)
    BY <1>5
  <2>2. PICK k \in Nat : k = j - i
    BY <2>1
  <2>3. k \in K /\ i + k = j
    BY <1>4, <2>1, <2>2
  <2>. QED
    BY <2>1, <2>3
<1>. QED
  BY <1>5

=============================================================================

------------------------------ MODULE Ordering ------------------------------
(***************************************************************************)
(* The functions of the repository that work on order: the searches and    *)
(* the calls on two arrays of the class Array, on every array that calls   *)
(* build, and the heap, on every text, which is an array of its characters.*)
(***************************************************************************)
EXTENDS ArrayOps, FiniteSets

CONSTANTS Codes,        \* the characters of a text, which are numbers
          MaxLength     \* the length of the longest text

ASSUME OrderingAssumption ==
    /\ Codes \subseteq 1 .. 126
    /\ MaxLength \in Nat

VARIABLE text           \* a sequence of Codes

H == INSTANCE Heap

NoText == text = <<>>

OrderInit == Init /\ NoText

\* A call on the arrays.
Call == NoText /\ Next /\ UNCHANGED text

\* One more character.
Write(c) ==
    /\ Init
    /\ Len(text) < MaxLength
    /\ text' = Append(text, c)
    /\ UNCHANGED vars

OrderNext == Call \/ \E c \in Codes : Write(c)

OrderSpec == OrderInit /\ [][OrderNext]_<<vars, text>>

-----------------------------------------------------------------------------
\* binary_search of a sorted array finds val at a cell that holds it, and says
\* "not found" only when linear_search does (array_adt.cpp:89).
BinarySearchFinds ==
    \A a \in Arrays, v \in Val :
        LET s == Contents(a)
            i == binary_search(s, v)
        IN  is_sorted(s) =>
                /\ i = -1 <=> linear_search(s, v) = -1
                /\ i # -1 => i + 1 \in DOMAIN s /\ s[i + 1] = v

Copies(s, v) == Cardinality({i \in DOMAIN s : s[i] = v})

\* What merge, array_union and array_intersect make of two sorted arrays is
\* sorted. merge keeps each element as often as both hold it together,
\* array_union as often as the one that holds it more often, array_intersect as
\* often as the one that holds it less often (array_adt.cpp:188, 218, 249).
CombinesSorted ==
    \A a, b \in Arrays :
        LET s == Contents(a)
            t == Contents(b)
            m == merge(s, t)
            u == array_union(s, t)
            n == array_intersect(s, t)
        IN  is_sorted(s) /\ is_sorted(t) =>
                /\ is_sorted(m) /\ is_sorted(u) /\ is_sorted(n)
                /\ \A v \in Val :
                      /\ Copies(m, v) = Copies(s, v) + Copies(t, v)
                      /\ Copies(u, v) = Max({Copies(s, v), Copies(t, v)})
                      /\ Copies(n, v) = Min({Copies(s, v), Copies(t, v)})

SameElements(s, t) == \A v \in Range(s) \union Range(t) : Copies(s, v) = Copies(t, v)

\* Inserted one by one with the loop that moves parents down, any array becomes
\* a heap of the same elements (heap_adt.cpp:14). What heap_sort makes of it
\* still has them, and each is at least as big as all before it, from the third
\* on. The loop of del does not compare a left child in the last place, so the
\* last two elements left may stay in the wrong order (heap_adt.cpp:42).
HeapSortsAllButTwo ==
    text # <<>> =>
        LET h == H!create_heap(text)
            r == H!heap_sort(h)
        IN  /\ H!IsHeap(h) /\ SameElements(h, text)
            /\ SameElements(r, text)
            /\ \A m \in 3 .. Len(r) : \A k \in 1 .. m : r[k] <= r[m]

\* What works on order works: searching, combining and sorting, with elements
\* repeated and shared, arrays empty, full and of different length.
OrderKept == BinarySearchFinds /\ CombinesSorted /\ HeapSortsAllButTwo
=============================================================================

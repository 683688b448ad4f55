------------------------------ MODULE Strings -------------------------------
(***************************************************************************)
(* string_adt.cpp.  A char array is a sequence of character codes in which *)
(* Nul ends the string; index i of the code is i + 1 here.                 *)
(***************************************************************************)
EXTENDS Integers, Sequences, SequencesExt, FiniteSets

Nul   == 0
Space == 32
Upper == 65 .. 90
Lower == 97 .. 122

\* find_length: the loop to the first Nul, which is there in every array that
\* the functions are called with.
find_length(str) == SelectInSeq(str, LAMBDA c : c = Nul) - 1

Text(str) == SubSeq(str, 1, find_length(str))

\* The loops over y[i] write y[i] before they test y[i + 1], so they cover the
\* string as it was although a space may become a Nul on the way. What a loop
\* writes is y plus the change of each char, in the string only.
Changed(y, change) ==
    [i \in DOMAIN y |-> IF i <= find_length(y) THEN y[i] + change[i] ELSE y[i]]

upper_address(y) == Changed(y, [i \in DOMAIN y |-> -32])
lower_ref(y)     == Changed(y, [i \in DOMAIN y |-> 32])
flip(y)          == Changed(y, [i \in DOMAIN y |-> IF y[i] \in Upper THEN 32 ELSE -32])

\* A mutant: every space ends a word.
MutCountSpaces(before, y) ==
    Cardinality({i \in 1 .. find_length(y) : y[i] = Space}) + 1

\* count_word: a space ends a word if the char in front is none. For the first
\* char that is y[-1], the byte `before` the array.
count_word(before, y) ==
    LET last(i) == IF i = 1 THEN before ELSE y[i - 1]
    IN  Cardinality({i \in 1 .. find_length(y) : y[i] = Space /\ last(i) # Space}) + 1

\* reverse: copied out backwards and copied back, with a Nul behind.
reverse(y) ==
    LET length == find_length(y)
    IN  [i \in DOMAIN y |-> IF i <= length THEN y[length + 1 - i]
                            ELSE IF i = length + 1 THEN Nul ELSE y[i]]

\* equals: the loop ends where either string does.
equals(str1, str2) ==
    \A i \in DOMAIN str1 \intersect DOMAIN str2 :
        i <= find_length(str1) /\ i <= find_length(str2) => str1[i] = str2[i]

-----------------------------------------------------------------------------
\* A word is a run of other characters than spaces; this is where one begins.
Words(text) ==
    Cardinality({i \in DOMAIN text : text[i] # Space /\ (i = 1 \/ text[i - 1] = Space)})

IsTrimmed(text) == text # <<>> /\ text[1] # Space /\ Last(text) # Space
=============================================================================

------------------------------- MODULE Texts -------------------------------
(***************************************************************************)
(* The functions that read a text character by character, on every text    *)
(* that Ordering builds: log() with its format, and the string functions.  *)
(***************************************************************************)
EXTENDS Ordering

C == INSTANCE Strings
L == INSTANCE LogFormat

-----------------------------------------------------------------------------
\* The arguments of a log(): a number, an empty string and "%a".
Arguments == {<<42>>, <<>>, <<L!Percent, 97>>}

\* "Each % is replaced by the next argument" (logger.cpp:206), each once, whole
\* and in order, and %% is a literal %. The call aborts exactly when there are
\* more or fewer arguments than places, and what it pushed until then is what
\* the format says up to the first place without an argument. One character
\* that is no percent stands for all of them.
AnswersFormat ==
    ToSet(text) \subseteq {L!Percent, 97} =>
        \A args \in UNION {[1 .. n -> Arguments] : n \in 0 .. 2} :
            LET call == L!log(text, args)
            IN  /\ call.outcome = "returned" <=> L!PlacesUpTo(text, Len(text)) = Len(args)
                /\ call.pushed = FlattenSeq([p \in DOMAIN text |-> L!Meaning(text, args, p)])

str == Append(text, C!Nul)

\* count_word counts the words of a text that begins and ends with one, however
\* many spaces are between them. A space at the end counts as one word more, and
\* so does one in front if the byte before the array is no space
\* (string_adt.cpp:47).
WordsCounted ==
    \A before \in Codes :
        LET count == C!count_word(before, str)
        IN  IF C!IsTrimmed(text) THEN count = C!Words(text)
            ELSE count \in C!Words(text) .. C!Words(text) + 2

\* flip turns letters into their other case and back, as upper_address and
\* lower_ref do for text of one case. A space becomes a Nul: the string ends
\* where its first space was (string_adt.cpp:19, 40).
CasesFlipped ==
    /\ ToSet(text) \subseteq C!Lower => C!flip(str) = C!upper_address(str)
    /\ ToSet(text) \subseteq C!Upper => C!flip(str) = C!lower_ref(str)
    /\ ToSet(text) \subseteq C!Upper \union C!Lower =>
          /\ C!flip(C!flip(str)) = str
          /\ \A i \in DOMAIN text : text[i] \in C!Upper <=> C!flip(str)[i] \in C!Lower
    /\ C!find_length(C!flip(str)) = SelectInSeq(Append(text, C!Space), LAMBDA c : c = C!Space) - 1

\* equals tells strings of one length apart; of different length, the one may
\* also be the beginning of the other (string_adt.cpp:67).
BeginningsEqual ==
    \A k \in 0 .. Len(text) :
        LET front == SubSeq(text, 1, k)
            back  == SubSeq(text, k + 1, Len(text))
        IN  C!equals(Append(front, C!Nul), Append(back, C!Nul))
                <=> IsPrefix(front, back) \/ IsPrefix(back, front)

\* The functions on strings do to the words, the letters and the order of any
\* text what they are for, and at its boundaries what is said above.
StringsAtTheirEnds ==
    /\ WordsCounted /\ CasesFlipped /\ BeginningsEqual
    /\ C!Text(C!reverse(str)) = Reverse(text)
=============================================================================

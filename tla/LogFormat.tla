----------------------------- MODULE LogFormat -----------------------------
(***************************************************************************)
(* Logger::log() of logger.cpp: a format string and its arguments become   *)
(* LogElements.  The template recursion on the argument list is the index  *)
(* arg: log(s + 1, args...) is the same walk with one argument less.  The  *)
(* walk is what its variables are after k rounds; a round after the last   *)
(* changes nothing.  What happens to an element once it is pushed is       *)
(* Logger's subject.                                                       *)
(*                                                                         *)
(* An argument is the sequence of elements its pushValue() overload makes  *)
(* of it: one for a number, one for each character of a string.            *)
(***************************************************************************)
EXTENDS Integers, Sequences, SequencesExt, FiniteSetsExt

Percent == 37    \* the code of the character '%'

At(fmt, p, ch) == p \in DOMAIN fmt /\ fmt[p] = ch

\* What a call comes to: it returns, or one of its ASSERTs aborts.
Outcome(outcome, pushed) == [outcome |-> outcome, pushed |-> pushed]

-----------------------------------------------------------------------------
\* The loop over *s, the same in both forms of log(): at position s, with the
\* argument arg next, with `pushed` so far, and whether an argument is missing.
Walked(s, arg, pushed, missing) ==
    [s |-> s, arg |-> arg, pushed |-> pushed, missing |-> missing]

\* A mutant: of %% only the one percent is passed that is pushed.
MutWalkPassesOne(fmt, args, at) ==
    IF at.s > Len(fmt) \/ at.missing THEN at
    ELSE IF At(fmt, at.s, Percent) /\ ~At(fmt, at.s + 1, Percent)
         THEN IF at.arg <= Len(args)
              THEN Walked(at.s + 1, at.arg + 1, at.pushed \o args[at.arg], FALSE)
              ELSE Walked(at.s, at.arg, at.pushed, TRUE)
    ELSE Walked(at.s + 1, at.arg, Append(at.pushed, fmt[at.s]), FALSE)

\* One round: any character that is no percent; %%; a % with an argument left,
\* which pushValue() takes, and with none ("Missing arguments to log()").
WalkRound(fmt, args, at) ==
    IF at.s > Len(fmt) \/ at.missing THEN at
    ELSE IF ~At(fmt, at.s, Percent)
         THEN Walked(at.s + 1, at.arg, Append(at.pushed, fmt[at.s]), FALSE)
    ELSE IF At(fmt, at.s + 1, Percent)
         THEN Walked(at.s + 2, at.arg, Append(at.pushed, Percent), FALSE)
    ELSE IF at.arg <= Len(args)
         THEN Walked(at.s + 1, at.arg + 1, at.pushed \o args[at.arg], FALSE)
    ELSE Walked(at.s, at.arg, at.pushed, TRUE)

Walking(fmt, args) ==
    LET after[k \in 0 .. Len(fmt)] ==
          IF k = 0 THEN Walked(1, 1, <<>>, FALSE) ELSE WalkRound(fmt, args, after[k - 1])
    IN  after

\* At the end no argument may be left ("Extra arguments provided to log()").
log(fmt, args) ==
    LET end == Walking(fmt, args)[Len(fmt)]
    IN  Outcome(IF ~end.missing /\ end.arg > Len(args) THEN "returned" ELSE "aborted", end.pushed)

-----------------------------------------------------------------------------
(* What a format string means, said without walking it: of a run of n       *)
(* percents with nothing but other characters around it every second one is *)
(* a literal percent, and the last, if n is odd, a place for an argument.   *)

RunStart(fmt, p) ==
    Min({r \in 1 .. p : \A q \in r .. p : fmt[q] = Percent})

IsLiteral(fmt, p) ==
    fmt[p] = Percent => (p - RunStart(fmt, p)) % 2 = 1

IsPlace(fmt, p) ==
    /\ fmt[p] = Percent /\ ~At(fmt, p + 1, Percent)
    /\ (p - RunStart(fmt, p)) % 2 = 0

\* The number of places up to p: of the argument that a place at p stands for.
PlacesUpTo(fmt, p) == Cardinality({q \in 1 .. p : IsPlace(fmt, q)})

\* What a position comes out as. A place without an argument, where the output
\* ends, and what is behind it come out as nothing.
Meaning(fmt, args, p) ==
    CASE PlacesUpTo(fmt, p) > Len(args) -> <<>>
      [] PlacesUpTo(fmt, p) <= Len(args) /\ IsPlace(fmt, p) -> args[PlacesUpTo(fmt, p)]
      [] PlacesUpTo(fmt, p) <= Len(args) /\ IsLiteral(fmt, p) -> <<fmt[p]>>
      [] OTHER -> <<>>
=============================================================================
